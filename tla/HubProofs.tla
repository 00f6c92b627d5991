------------------------------ MODULE HubProofs ------------------------------
(***************************************************************************)
(* Lemmas about the methods of PeerHubActorState and the handlers of       *)
(* PeerHubActor, for one hub in an open environment (PeerHubProofs) and    *)
(* for each hub of a network (NetworkProofs): what each does to a typed    *)
(* hub whose pools are in order (PoolInv of HubState), and which blocks    *)
(* and transactions it may move.                                           *)
(***************************************************************************)
EXTENDS HubState, Recursion, SequenceTheorems, FiniteSetTheorems, TLAPS

-----------------------------------------------------------------------------
(***************************************************************************)
(* Chains: the recursive functions of Ledger, and the paths of a tree.     *)
(***************************************************************************)

\* Who goes from parent to parent comes to genesis.
LEMMA BlocksDescend == Descends(BlockId, {Genesis}, [b \in BlockId |-> Prev(b)])
<1> DEFINE up[n \in Nat] ==
             IF n = 0 THEN BlockId
             ELSE {Block[b].prev_id : b \in up[n - 1]} \ {NoBlock}
           above[n \in Nat] ==
             [v \in SUBSET BlockId |-> {Block[b].prev_id : b \in v} \ {NoBlock}]
           parent == [n \in Nat |-> n - 1]
<1>1. IsFiniteSet(BlockId) /\ up[Cardinality(BlockId)] = {}
  BY AcyclicAssumption
<1>2. \A v \in SUBSET BlockId : {Block[b].prev_id : b \in v} \ {NoBlock} \subseteq BlockId
  BY BlockAssumption
<1>3. PICK f \in [Nat -> SUBSET BlockId] :
        Solves(f, Nat, {0}, parent, [n \in {0} |-> BlockId], above)
  <2>1. Descends(Nat, {0}, parent)
    BY NatDescends
  <2>2. \A n \in Nat : \A v \in SUBSET BlockId : above[n][v] \in SUBSET BlockId
    BY <1>2
  <2> HIDE DEF parent, above
  <2> QED  BY <2>1, <2>2, ParentRecursion
<1>4. f = [n \in Nat |-> IF n = 0 THEN BlockId
                         ELSE {Block[b].prev_id : b \in f[n - 1]} \ {NoBlock}]
  <2>1. ASSUME NEW n \in Nat
        PROVE  f[n] = IF n = 0 THEN BlockId
                      ELSE {Block[b].prev_id : b \in f[n - 1]} \ {NoBlock}
    <3>1. n # 0 => n - 1 \in Nat /\ f[n - 1] \in SUBSET BlockId
      OBVIOUS
    <3>2. f[n] = IF n \in {0} THEN [m \in {0} |-> BlockId][n]
                 ELSE above[n][f[parent[n]]]
      BY <1>3 DEF Solves
    <3> QED  BY <3>1, <3>2
  <2> QED  BY <2>1
<1>5. up = [n \in Nat |-> IF n = 0 THEN BlockId
                         ELSE {Block[b].prev_id : b \in up[n - 1]} \ {NoBlock}]
  BY <1>4
<1> HIDE DEF up
<1>6. ASSUME NEW U \in SUBSET BlockId, U # {},
             \A b \in U : b # Genesis /\ Prev(b) \in U
      PROVE  FALSE
  <2> DEFINE P == {n \in Nat : up[n] \cap U # {}}
  <2>1. 0 \in P
    BY <1>5, <1>6
  <2>2. ASSUME NEW n \in Nat, n \in P PROVE n + 1 \in P
    <3>1. PICK b \in up[n] \cap U : TRUE
      BY <2>2
    <3>2. Prev(b) \in U /\ Prev(b) # NoBlock
      BY <1>6, <3>1, BlockAssumption
    <3>3. up[n + 1] = {Block[x].prev_id : x \in up[n]} \ {NoBlock}
      BY <1>5
    <3>4. Prev(b) \in up[n + 1]
      BY <3>1, <3>2, <3>3 DEF Prev
    <3> QED  BY <3>2, <3>4
  <2>3. Cardinality(BlockId) \in Nat
    BY <1>1, FS_CardinalityType
  <2> HIDE DEF P
  <2>4. Cardinality(BlockId) \in P
    BY <2>1, <2>2, <2>3, NatSetInduction
  <2> QED  BY <1>1, <2>4 DEF P
<1> QED  BY <1>6, BlockAssumption DEF Descends, Prev

\* The recursion of PathTo ends, so that its equation holds.
LEMMA PathToEquation ==
  /\ PathTo \in [BlockId -> Seq(BlockId)]
  /\ PathTo[Genesis] = <<Genesis>>
  /\ \A b \in BlockId \ {Genesis} : PathTo[b] = Append(PathTo[Prev(b)], b)
<1> DEFINE parent == [b \in BlockId |-> Prev(b)]
           base == [b \in {Genesis} |-> <<Genesis>>]
           next == [b \in BlockId |-> [v \in Seq(BlockId) |-> Append(v, b)]]
           Equation(f) == f = [b \in BlockId |-> IF b = Genesis THEN <<Genesis>>
                                                 ELSE Append(f[Prev(b)], b)]
<1>1. PICK f \in [BlockId -> Seq(BlockId)] :
        Solves(f, BlockId, {Genesis}, parent, base, next)
  <2>1. base[Genesis] \in Seq(BlockId)
    BY BlockAssumption
  <2>2. \A b \in BlockId : \A v \in Seq(BlockId) : next[b][v] \in Seq(BlockId)
    OBVIOUS
  <2>3. Descends(BlockId, {Genesis}, parent)
    BY BlocksDescend
  <2>4. \A b \in BlockId \cap {Genesis} : base[b] \in Seq(BlockId)
    BY <2>1
  <2> HIDE DEF parent, base, next
  <2> QED  BY <2>2, <2>3, <2>4, ParentRecursion
<1>2. ASSUME NEW b \in BlockId
      PROVE  f[b] = IF b = Genesis THEN <<Genesis>> ELSE Append(f[Prev(b)], b)
  <2>1. b # Genesis => Prev(b) \in BlockId /\ f[Prev(b)] \in Seq(BlockId)
    BY BlockAssumption DEF Prev
  <2>2. f[b] = IF b \in {Genesis} THEN base[b] ELSE next[b][f[parent[b]]]
    BY <1>1 DEF Solves
  <2> QED  BY <2>1, <2>2
<1>3. Equation(f)
  BY <1>2
<1>4. PathTo = CHOOSE g : Equation(g)
  BY DEF PathTo
<1> HIDE DEF Equation
<1>5. Equation(PathTo)
  BY <1>3, <1>4
<1>6. PathTo = [b \in BlockId |-> IF b = Genesis THEN <<Genesis>>
                                  ELSE Append(PathTo[Prev(b)], b)]
  BY <1>5 DEF Equation
<1>7. PathTo \in [BlockId -> Seq(BlockId)]
  <2> DEFINE P == {b \in BlockId : PathTo[b] \in Seq(BlockId)}
  <2>1. Genesis \in P
    BY <1>6, BlockAssumption
  <2>2. ASSUME NEW b \in BlockId \ {Genesis}, parent[b] \in P PROVE b \in P
    <3>1. PathTo[Prev(b)] \in Seq(BlockId)
      BY <2>2
    <3>2. PathTo[b] = Append(PathTo[Prev(b)], b)
      BY <1>6
    <3>3. Append(PathTo[Prev(b)], b) \in Seq(BlockId)
      BY <3>1
    <3> QED  BY <3>2, <3>3
  <2>3. BlockId \subseteq P
    <3>1. Descends(BlockId, {Genesis}, parent)
      BY BlocksDescend
    <3> HIDE DEF P, parent
    <3> QED  BY <2>1, <2>2, <3>1, ParentInduction
  <2> QED  BY <1>6, <2>3
<1> QED  BY <1>6, <1>7, BlockAssumption

\* So does that of WellFormed.
LEMMA WellFormedEquation ==
  /\ WellFormed \in [BlockId -> BOOLEAN]
  /\ \A b \in BlockId :
       WellFormed[b] <=> (b = Genesis \/ (WellFormed[Prev(b)] /\ ExtendsWell(b)))
<1> DEFINE parent == [b \in BlockId |-> Prev(b)]
           base == [b \in {Genesis} |-> TRUE]
           next == [b \in BlockId |-> [v \in BOOLEAN |-> v /\ ExtendsWell(b)]]
           Equation(f) ==
             f = [b \in BlockId |-> b = Genesis \/ (f[Prev(b)] /\ ExtendsWell(b))]
<1>1. PICK f \in [BlockId -> BOOLEAN] :
        Solves(f, BlockId, {Genesis}, parent, base, next)
  <2>1. \A b \in BlockId : \A v \in BOOLEAN : next[b][v] \in BOOLEAN
    BY DEF ExtendsWell
  <2>2. Descends(BlockId, {Genesis}, parent)
    BY BlocksDescend
  <2>3. \A b \in BlockId \cap {Genesis} : base[b] \in BOOLEAN
    OBVIOUS
  <2> HIDE DEF parent, base, next
  <2> QED  BY <2>1, <2>2, <2>3, ParentRecursion
<1>2. ASSUME NEW b \in BlockId
      PROVE  f[b] = (b = Genesis \/ (f[Prev(b)] /\ ExtendsWell(b)))
  <2>1. f[b] = IF b \in {Genesis} THEN base[b] ELSE next[b][f[parent[b]]]
    BY <1>1 DEF Solves
  <2>2. f[b] \in BOOLEAN
    OBVIOUS
  <2>3. CASE b = Genesis
    BY <2>1, <2>2, <2>3, Zenon
  <2>4. CASE b # Genesis
    <3>1. Prev(b) \in BlockId
      BY <2>4, BlockAssumption DEF Prev
    <3>2. f[Prev(b)] \in BOOLEAN
      BY <3>1
    <3>3. f[b] = (f[Prev(b)] /\ ExtendsWell(b))
      BY <2>1, <2>4, <3>1, <3>2
    <3> QED  BY <2>4, <3>3, <2>2, Zenon
  <2> QED  BY <2>3, <2>4
<1>3. Equation(f)
  BY <1>2
<1>4. WellFormed = CHOOSE g : Equation(g)
  BY DEF WellFormed
<1> HIDE DEF Equation
<1>5. Equation(WellFormed)
  BY <1>3, <1>4
<1>6. WellFormed = [b \in BlockId |->
                      b = Genesis \/ (WellFormed[Prev(b)] /\ ExtendsWell(b))]
  BY <1>5 DEF Equation
<1> QED  BY <1>6

\* The blocks from genesis to b are those to its parent, and b.
LEMMA OnPathSteps ==
  /\ OnPath(Genesis) = {Genesis}
  /\ \A b \in BlockId \ {Genesis} : OnPath(b) = OnPath(Prev(b)) \cup {b}
<1>1. OnPath(Genesis) = {Genesis}
  BY PathToEquation DEF OnPath
<1>2. ASSUME NEW b \in BlockId \ {Genesis}
      PROVE  OnPath(b) = OnPath(Prev(b)) \cup {b}
  <2>1. Prev(b) \in BlockId
    BY BlockAssumption DEF Prev
  <2>2. PathTo[Prev(b)] \in Seq(BlockId) /\ PathTo[b] = Append(PathTo[Prev(b)], b)
    BY <2>1, PathToEquation
  <2> QED  BY <2>2 DEF OnPath
<1> QED  BY <1>1, <1>2

\* To show of each block what holds of genesis, and of a block if of its parent.
LEMMA BlockInduction ==
  ASSUME NEW P, Genesis \in P,
         \A b \in BlockId \ {Genesis} : Prev(b) \in P => b \in P
  PROVE  BlockId \subseteq P
<1> DEFINE parent == [b \in BlockId |-> Prev(b)]
<1>1. Descends(BlockId, {Genesis}, parent)
  BY BlocksDescend
<1>2. \A b \in BlockId \ {Genesis} : parent[b] \in P => b \in P
  OBVIOUS
<1> HIDE DEF parent
<1> QED  BY <1>1, <1>2, ParentInduction

\* A path ends at its block, starts at genesis, and holds the paths of its blocks.
LEMMA OnPathHolds ==
  ASSUME NEW b \in BlockId
  PROVE  /\ OnPath(b) \subseteq BlockId
         /\ b \in OnPath(b) /\ Genesis \in OnPath(b)
         /\ \A x \in OnPath(b) : OnPath(x) \subseteq OnPath(b)
<1> DEFINE P == {x \in BlockId : /\ OnPath(x) \subseteq BlockId
                                 /\ x \in OnPath(x) /\ Genesis \in OnPath(x)
                                 /\ \A y \in OnPath(x) : OnPath(y) \subseteq OnPath(x)}
<1>1. Genesis \in P
  BY OnPathSteps, BlockAssumption
<1>2. \A x \in BlockId \ {Genesis} : Prev(x) \in P => x \in P
  BY OnPathSteps
<1> HIDE DEF P
<1>3. b \in P
  BY <1>1, <1>2, BlockInduction
<1> QED  BY <1>3 DEF P

\* V is a tree under genesis in which each block follows its parent.
IsTree(V) ==
  /\ V \subseteq BlockId
  /\ Genesis \in V
  /\ \A b \in V \ {Genesis} : Prev(b) \in V /\ FollowsParent(b)

LEMMA BlockTypes ==
  /\ Genesis \in BlockId /\ Seqno(Genesis) = 0
  /\ Prev(Genesis) = NoBlock /\ NoBlock \notin BlockId
  /\ \A b \in BlockId : /\ Seqno(b) \in Nat /\ Timestamp(b) \in Nat
                        /\ Block[b].difficulty \in Nat
                        /\ Block[b].transactions \in Seq(TxnId)
                        /\ Block[b].reward \in Cash
  /\ \A b \in BlockId \ {Genesis} : Prev(b) \in BlockId
BY BlockAssumption DEF BlockInner, Seqno, Timestamp, Prev

\* In a tree the path to b stays in it, has one block for each height, and goes
\* forward in time.
LEMMA TreePath ==
  ASSUME NEW V, IsTree(V), NEW b \in V
  PROVE  /\ OnPath(b) \subseteq V
         /\ Len(PathTo[b]) = Seqno(b) + 1
         /\ \A s \in 0 .. Seqno(b) : Seqno(PathTo[b][s + 1]) = s
         /\ \A x \in OnPath(b) : Timestamp(x) <= Timestamp(b)
<1> DEFINE Good(x) == /\ OnPath(x) \subseteq V
                      /\ Len(PathTo[x]) = Seqno(x) + 1
                      /\ \A s \in 0 .. Seqno(x) : Seqno(PathTo[x][s + 1]) = s
                      /\ \A y \in OnPath(x) : Timestamp(y) <= Timestamp(x)
           P == {x \in BlockId : x \in V => Good(x)}
<1>1. Good(Genesis)
  BY OnPathSteps, PathToEquation, BlockTypes DEF IsTree
<1>2. ASSUME NEW x \in BlockId \ {Genesis}, Prev(x) \in P, x \in V
      PROVE  Good(x)
  <2> DEFINE p == Prev(x)
  <2>1. /\ p \in V /\ p \in BlockId /\ Timestamp(p) <= Timestamp(x)
        /\ Seqno(x) = Seqno(p) + 1
    BY <1>2 DEF IsTree, FollowsParent
  <2>2. Good(p)
    BY <1>2, <2>1
  <2>3. /\ PathTo[x] = Append(PathTo[p], x) /\ PathTo[p] \in Seq(BlockId)
        /\ OnPath(x) = OnPath(p) \cup {x}
    BY <2>1, PathToEquation, OnPathSteps
  <2>4. /\ Seqno(p) \in Nat /\ Seqno(x) \in Nat
        /\ Timestamp(p) \in Nat /\ Timestamp(x) \in Nat
    BY <2>1, BlockTypes
  <2> HIDE DEF p
  <2>5. OnPath(x) \subseteq V
    BY <1>2, <2>2, <2>3
  <2>6. Len(PathTo[x]) = Seqno(x) + 1
    BY <2>1, <2>2, <2>3, <2>4
  <2>7. ASSUME NEW s \in 0 .. Seqno(x) PROVE Seqno(PathTo[x][s + 1]) = s
    <3>1. CASE s = Seqno(x)
      BY <2>1, <2>2, <2>3, <2>4, <3>1
    <3>2. CASE s # Seqno(x)
      <4>1. s \in 0 .. Seqno(p)
        BY <2>1, <2>4, <3>2
      <4>2. PathTo[x][s + 1] = PathTo[p][s + 1]
        BY <2>2, <2>3, <2>4, <4>1
      <4> QED  BY <2>2, <4>1, <4>2
    <3> QED  BY <3>1, <3>2
  <2>8. ASSUME NEW y \in OnPath(x) PROVE Timestamp(y) <= Timestamp(x)
    <3>1. CASE y = x
      BY <2>4, <3>1
    <3>2. CASE y \in OnPath(p)
      <4>1. Timestamp(y) <= Timestamp(p) /\ Timestamp(y) \in Nat
        BY <2>1, <2>2, <3>2, OnPathHolds, BlockTypes
      <4> QED  BY <2>1, <2>4, <4>1
    <3> QED  BY <2>3, <3>1, <3>2
  <2> QED  BY <2>5, <2>6, <2>7, <2>8
<1> HIDE DEF Good
<1>3. Genesis \in P /\ \A x \in BlockId \ {Genesis} : Prev(x) \in P => x \in P
  BY <1>1, <1>2, BlockTypes
<1> HIDE DEF P
<1>4. b \in P
  BY <1>3, BlockInduction DEF IsTree
<1> QED  BY <1>4 DEF P, Good

\* The block of the height of x on the path to b is x, if x is on it.
LEMMA PathIndex ==
  ASSUME NEW V, IsTree(V), NEW b \in V, NEW x \in OnPath(b)
  PROVE  Seqno(x) \in 0 .. Seqno(b) /\ PathTo[b][Seqno(x) + 1] = x
<1>1. b \in BlockId /\ Seqno(b) \in Nat
  BY BlockTypes DEF IsTree
<1>2. PICK i \in DOMAIN PathTo[b] : PathTo[b][i] = x
  BY DEF OnPath
<1>3. i \in 1 .. Seqno(b) + 1
  BY <1>1, <1>2, TreePath, PathToEquation
<1>4. Seqno(PathTo[b][(i - 1) + 1]) = i - 1
  BY <1>1, <1>3, TreePath
<1>5. Seqno(x) = i - 1
  BY <1>2, <1>3, <1>4
<1> QED  BY <1>1, <1>2, <1>3, <1>5

\* Each height up to that of b has its block on the path to b.
LEMMA PathMember ==
  ASSUME NEW V, IsTree(V), NEW b \in V, NEW s \in 0 .. Seqno(b)
  PROVE  PathTo[b][s + 1] \in OnPath(b) /\ Seqno(PathTo[b][s + 1]) = s
<1>1. b \in BlockId /\ Seqno(b) \in Nat
  BY BlockTypes DEF IsTree
<1>2. s + 1 \in DOMAIN PathTo[b]
  BY <1>1, TreePath, PathToEquation
<1> QED  BY <1>2, TreePath DEF OnPath

\* The path to a block of the path to b is the beginning of it.
LEMMA PathPrefix ==
  ASSUME NEW V, IsTree(V), NEW b \in V, NEW x \in OnPath(b)
  PROVE  /\ x \in V
         /\ Seqno(x) <= Seqno(b)
         /\ \A s \in 0 .. Seqno(x) : PathTo[x][s + 1] = PathTo[b][s + 1]
<1>1. x \in V /\ Seqno(x) \in 0 .. Seqno(b) /\ Seqno(b) \in Nat
  BY TreePath, PathIndex, BlockTypes DEF IsTree
<1>2. ASSUME NEW s \in 0 .. Seqno(x) PROVE PathTo[x][s + 1] = PathTo[b][s + 1]
  <2>1. PathTo[x][s + 1] \in OnPath(x) /\ Seqno(PathTo[x][s + 1]) = s
    BY <1>1, PathMember
  <2>2. PathTo[x][s + 1] \in OnPath(b)
    BY <2>1, OnPathHolds DEF IsTree
  <2> QED  BY <2>1, <2>2, PathIndex
<1> QED  BY <1>1, <1>2

-----------------------------------------------------------------------------
(***************************************************************************)
(* The index of the last adjustment block.                                 *)
(***************************************************************************)

\* rewind_number of a seqno above 0 goes back at least one block, and not past
\* genesis.
LEMMA RewindStaysOnChain ==
  ASSUME NEW s \in Nat, s > 0
  PROVE  RewindNumber(s) \in 1 .. s
<1>1. Period \in Nat /\ Period > 0
  BY PeriodAssumption
<1> DEFINE q == s \div Period
           r == s % Period
<1>2. q \in Int /\ r \in 0 .. Period - 1 /\ s = Period * q + r
  BY <1>1, Z3
<1>3. q >= 0
  BY <1>1, <1>2, Z3
<1>4. r <= s
  BY <1>1, <1>2, <1>3, Z3
<1>5. CASE r = 0
  <2>1. q >= 1
    BY <1>1, <1>2, <1>3, <1>5, Z3
  <2>2. Period <= s
    BY <1>1, <1>2, <1>5, <2>1, Z3
  <2> QED  BY <1>1, <1>5, <2>2 DEF RewindNumber, IsAdjustment
<1>6. CASE r # 0
  BY <1>2, <1>4, <1>6 DEF RewindNumber, IsAdjustment
<1> QED  BY <1>5, <1>6

-----------------------------------------------------------------------------
(***************************************************************************)
(* add_invalid_block: the blocks that wait for b, directly or not.         *)
(***************************************************************************)

\* WaitingOn(h, b) holds b and is closed under next_blocks.
LEMMA WaitingOnCloses ==
  ASSUME NEW h \in Hub, NEW b \in BlockId
  PROVE  /\ WaitingOn(h, b) \subseteq BlockId
         /\ b \in WaitingOn(h, b)
         /\ \A y \in WaitingOn(h, b) : h.next_blocks[y] \subseteq WaitingOn(h, b)
<1> DEFINE waiting == {b} \cup UNION {h.next_blocks[p] : p \in BlockId}
<1>1. h.next_blocks \in [BlockId -> SUBSET BlockId]
  BY DEF Hub
<1>2. waiting \subseteq BlockId /\ \A y \in waiting : h.next_blocks[y] \subseteq waiting
  BY <1>1
<1>3. WaitingOn(h, b) \subseteq waiting /\ b \in WaitingOn(h, b)
  BY DEF WaitingOn
<1>4. ASSUME NEW y \in WaitingOn(h, b), NEW x \in h.next_blocks[y]
      PROVE  x \in WaitingOn(h, b)
  BY <1>2, <1>3, <1>4 DEF WaitingOn
<1> QED  BY <1>2, <1>3, <1>4

\* Every other block of WaitingOn(h, b) waits for a block of it: it is the
\* least closed set, and would be closed without that block.
LEMMA WaitingOnReaches ==
  ASSUME NEW h \in Hub, NEW b \in BlockId,
         NEW x \in WaitingOn(h, b), x # b
  PROVE  \E y \in WaitingOn(h, b) : x \in h.next_blocks[y]
<1> DEFINE S == WaitingOn(h, b) \ {x}
<1>1. SUFFICES ASSUME \A y \in WaitingOn(h, b) : x \notin h.next_blocks[y]
               PROVE  FALSE
  OBVIOUS
<1>2. S \in SUBSET ({b} \cup UNION {h.next_blocks[p] : p \in BlockId}) /\ b \in S
  BY WaitingOnCloses DEF WaitingOn
<1>3. \A y \in S : h.next_blocks[y] \subseteq S
  BY <1>1, WaitingOnCloses
<1>4. x \in S
  BY <1>2, <1>3 DEF WaitingOn
<1> QED  BY <1>4

-----------------------------------------------------------------------------
(***************************************************************************)
(* The methods of PeerHubActorState preserve the invariant of the pools.   *)
(***************************************************************************)

\* A block that validate_block may be called with: in no pool, not pending.
Fresh(h, b) ==
  /\ b \in BlockId
  /\ ~KnowsBlock(h, b)
  /\ h.pending[b] = 0

\* add_invalid_block, called with a block that is in no pool, keeps the pools
\* in order, whatever waits for it.
LEMMA AddInvalidKeepsPools ==
  ASSUME NEW h \in Hub, NEW b, PoolInv(h), Fresh(h, b)
  PROVE  AddInvalidBlock(h, b) \in Hub /\ PoolInv(AddInvalidBlock(h, b))
<1> DEFINE g == AddInvalidBlock(h, b)
           D == WaitingOn(h, b)
<1>1. /\ D \subseteq BlockId
      /\ b \in D
      /\ \A y \in D : h.next_blocks[y] \subseteq D
      /\ \A x \in D : x # b => \E y \in D : x \in h.next_blocks[y]
  BY WaitingOnCloses, WaitingOnReaches DEF Fresh
<1>2. /\ g \in Hub
      /\ g.invalid_blocks = h.invalid_blocks \cup D
      /\ g.next_blocks = [p \in BlockId |-> IF p \in D THEN {} ELSE h.next_blocks[p]]
      /\ g.valid_blocks = h.valid_blocks
      /\ g.unconfirmed_blocks = h.unconfirmed_blocks
      /\ g.leading_block = h.leading_block
      /\ g.pending = h.pending
      /\ g.valid_ids = h.valid_ids
  <2> DEFINE N == [p \in BlockId |-> IF p \in D THEN {} ELSE h.next_blocks[p]]
             I == h.invalid_blocks \cup D
  <2>1. N \in [BlockId -> SUBSET BlockId] /\ I \in SUBSET BlockId
    BY <1>1 DEF Hub
  <2>2. g = [h EXCEPT !.invalid_blocks = I, !.next_blocks = N]
    BY DEF AddInvalidBlock
  <2> HIDE DEF g, D, N, I
  <2>3. g \in Hub /\ g.invalid_blocks = I /\ g.next_blocks = N
    BY <2>1, <2>2 DEF Hub
  <2>4. /\ g.valid_blocks = h.valid_blocks
        /\ g.unconfirmed_blocks = h.unconfirmed_blocks
        /\ g.leading_block = h.leading_block
        /\ g.pending = h.pending
        /\ g.valid_ids = h.valid_ids
    BY <2>2 DEF Hub
  <2> QED  BY <2>3, <2>4 DEF N, I
<1> HIDE DEF g, D
\* Whatever is doomed besides b was waiting, unconfirmed, for a doomed block.
<1>3. \A x \in D : x # b =>
        /\ x \in h.unconfirmed_blocks /\ Prev(x) \in D
        /\ h.pending[x] = 0
  BY <1>1 DEF PoolInv, Indexed
<1>4. FormsTree(g) /\ HighestLeads(g) /\ ResultOpen(g)
  BY <1>2 DEF PoolInv, FormsTree, HighestLeads, ResultOpen
<1>5. Separate(g)
  BY <1>2, <1>3 DEF PoolInv, Separate, Fresh, KnowsBlock
<1>6. Indexed(g)
  <2>1. \A p \in BlockId : g.next_blocks[p] = IF p \in D THEN {} ELSE h.next_blocks[p]
    BY <1>2
  <2>2. ASSUME NEW p \in BlockId, NEW x \in g.next_blocks[p]
        PROVE  /\ x \in h.unconfirmed_blocks /\ Prev(x) = p
               /\ x \notin g.invalid_blocks /\ h.pending[x] = 0
               /\ p \notin h.valid_blocks
    <3>1. p \notin D /\ x \in h.next_blocks[p]
      BY <2>1, <2>2
    <3>2. /\ x \in h.unconfirmed_blocks /\ Prev(x) = p
          /\ x \notin h.invalid_blocks /\ h.pending[x] = 0
          /\ p \notin h.valid_blocks
      BY <3>1 DEF PoolInv, Indexed
    <3>3. x \notin D
      BY <1>3, <3>1, <3>2 DEF Fresh, KnowsBlock
    <3> QED  BY <1>2, <3>2, <3>3
  <2>3. ASSUME NEW x \in h.unconfirmed_blocks
        PROVE  \/ x \in g.next_blocks[Prev(x)]
               \/ h.pending[x] > 0
               \/ x \in g.invalid_blocks
    <3>1. CASE x \in h.next_blocks[Prev(x)] /\ Prev(x) \in BlockId
      BY <1>1, <1>2, <2>1, <3>1
    <3>2. x \in BlockId \ {Genesis}
      BY DEF Hub, PoolInv, FormsTree, Separate
    <3> QED  BY <1>2, <3>1, <3>2, BlockAssumption DEF PoolInv, Indexed, Prev
  <2> QED  BY <1>2, <2>2, <2>3 DEF Indexed
<1>7. PendingReady(g)
  BY <1>2, <1>3 DEF PoolInv, PendingReady, Fresh
<1>8. DoomedByParent(g)
  BY <1>2, <1>3 DEF PoolInv, DoomedByParent, Fresh, KnowsBlock
<1> QED  BY <1>2, <1>4, <1>5, <1>6, <1>7, <1>8 DEF PoolInv, g

\* validate_block with a missing parent: the block is indexed under it.
LEMMA AddUnconfirmedKeepsPools ==
  ASSUME NEW h \in Hub, NEW b, PoolInv(h), Fresh(h, b),
         Prev(b) \notin h.valid_blocks
  PROVE  AddUnconfirmedBlock(h, b) \in Hub /\ PoolInv(AddUnconfirmedBlock(h, b))
<1> DEFINE g == AddUnconfirmedBlock(h, b)
           q == Prev(b)
           N == [h.next_blocks EXCEPT ![q] = @ \cup {b}]
           U == h.unconfirmed_blocks \cup {b}
<1>1. b \in BlockId /\ q \in BlockId
  BY BlockAssumption DEF Fresh, KnowsBlock, PoolInv, FormsTree, Prev
<1>2. N \in [BlockId -> SUBSET BlockId] /\ U \in SUBSET BlockId
  BY <1>1 DEF Hub
<1>3. \A p \in BlockId : N[p] = IF p = q THEN h.next_blocks[q] \cup {b}
                                ELSE h.next_blocks[p]
  BY <1>1 DEF Hub
<1>4. g = [h EXCEPT !.next_blocks = N, !.unconfirmed_blocks = U]
  BY DEF AddUnconfirmedBlock
<1> HIDE DEF g, N, U
<1>5. g \in Hub /\ g.next_blocks = N /\ g.unconfirmed_blocks = U
  BY <1>2, <1>4 DEF Hub
<1>6. /\ g.valid_blocks = h.valid_blocks
      /\ g.invalid_blocks = h.invalid_blocks
      /\ g.leading_block = h.leading_block
      /\ g.pending = h.pending
      /\ g.valid_ids = h.valid_ids
  BY <1>4 DEF Hub
<1>7. /\ b \notin h.valid_blocks /\ b \notin h.unconfirmed_blocks
      /\ b \notin h.invalid_blocks /\ h.pending[b] = 0
  BY DEF Fresh, KnowsBlock
<1>8. FormsTree(g) /\ HighestLeads(g) /\ ResultOpen(g) /\ Separate(g)
  <2>1. FormsTree(g) /\ HighestLeads(g) /\ ResultOpen(g)
    BY <1>6 DEF PoolInv, FormsTree, HighestLeads, ResultOpen
  <2>2. Separate(g)
    BY <1>5, <1>6, <1>7 DEF PoolInv, Separate, U
  <2> QED  BY <2>1, <2>2
<1>9. Indexed(g)
  <2>1. ASSUME NEW p \in BlockId, NEW x \in g.next_blocks[p]
        PROVE  /\ x \in g.unconfirmed_blocks /\ Prev(x) = p
               /\ x \notin g.invalid_blocks /\ g.pending[x] = 0
               /\ p \notin g.valid_blocks
    <3>1. CASE x = b /\ p = q
      BY <1>5, <1>6, <1>7, <3>1 DEF U
    <3>2. CASE x \in h.next_blocks[p]
      BY <1>5, <1>6, <3>2 DEF PoolInv, Indexed, U
    <3> QED  BY <1>3, <1>5, <3>1, <3>2
  <2>2. ASSUME NEW x \in g.unconfirmed_blocks
        PROVE  \/ x \in g.next_blocks[Prev(x)]
               \/ g.pending[x] > 0
               \/ x \in g.invalid_blocks
    <3>1. CASE x = b
      BY <1>1, <1>3, <1>5, <3>1
    <3>2. CASE x \in h.unconfirmed_blocks
      <4>1. Prev(x) \in BlockId
        BY <3>2, BlockAssumption DEF Hub, PoolInv, FormsTree, Separate, Prev
      <4>2. h.next_blocks[Prev(x)] \subseteq g.next_blocks[Prev(x)]
        BY <1>3, <1>5, <4>1
      <4> QED  BY <1>6, <3>2, <4>2 DEF PoolInv, Indexed
    <3> QED  BY <1>5, <3>1, <3>2 DEF U
  <2> QED  BY <2>1, <2>2 DEF Indexed
<1>10. PendingReady(g) /\ DoomedByParent(g)
  BY <1>5, <1>6, <1>7 DEF PoolInv, PendingReady, DoomedByParent, U
<1> QED  BY <1>5, <1>8, <1>9, <1>10 DEF PoolInv, g

\* add_valid_block: the blocks that waited for b become pending, and stay in the
\* unconfirmed pool until their turn.
LEMMA AddValidKeepsPools ==
  ASSUME NEW h \in Hub, NEW b, NEW depth \in Nat, PoolInv(h), Fresh(h, b),
         Prev(b) \in h.valid_blocks, FollowsParent(b)
  PROVE  /\ AddValidBlock(h, b, depth) \in Hub
         /\ PoolInv(AddValidBlock(h, b, depth))
<1> DEFINE g == AddValidBlock(h, b, depth)
           M == h.mempool \ Transactions(b)
           V == h.valid_blocks \cup {b}
           L == IF Seqno(b) > Seqno(h.leading_block) THEN b ELSE h.leading_block
           R == Append(h.valid_ids, b)
           N == [h.next_blocks EXCEPT ![b] = {}]
           P == [x \in BlockId |->
                   IF x \in h.next_blocks[b] THEN depth + 1 ELSE h.pending[x]]
<1>1. /\ b \in BlockId
      /\ b \notin h.valid_blocks /\ b \notin h.unconfirmed_blocks
      /\ b \notin h.invalid_blocks /\ h.pending[b] = 0
  BY DEF Fresh, KnowsBlock
<1>2. /\ M \in SUBSET TxnId /\ V \in SUBSET BlockId /\ L \in BlockId
      /\ N \in [BlockId -> SUBSET BlockId] /\ P \in [BlockId -> Nat]
  BY <1>1 DEF Hub
<1>3. R \in Seq(BlockId) /\ R # <<>>
  BY <1>1 DEF Hub
<1>4. g = [h EXCEPT !.mempool = M, !.valid_blocks = V, !.leading_block = L,
                    !.valid_ids = R, !.next_blocks = N, !.pending = P]
  BY DEF AddValidBlock
<1>5. /\ \A p \in BlockId : N[p] = IF p = b THEN {} ELSE h.next_blocks[p]
      /\ \A x \in BlockId : P[x] = IF x \in h.next_blocks[b] THEN depth + 1
                                    ELSE h.pending[x]
  BY <1>1 DEF Hub
<1> HIDE DEF g, M, V, L, R, N, P
<1>6. g \in Hub
  BY <1>2, <1>3, <1>4 DEF Hub
<1>7. /\ g.valid_blocks = V /\ g.leading_block = L /\ g.valid_ids = R
      /\ g.next_blocks = N /\ g.pending = P
      /\ g.unconfirmed_blocks = h.unconfirmed_blocks
      /\ g.invalid_blocks = h.invalid_blocks
  BY <1>4 DEF Hub
<1>8. FormsTree(g) /\ Separate(g) /\ ResultOpen(g)
  BY <1>1, <1>3, <1>7 DEF PoolInv, FormsTree, Separate, ResultOpen, V
<1>9. HighestLeads(g)
  <2>1. \A x \in BlockId : Seqno(x) \in Nat
    BY BlockAssumption DEF BlockInner, Seqno
  <2> QED  BY <1>1, <1>7, <2>1 DEF PoolInv, HighestLeads, Hub, V, L
<1>10. Indexed(g)
  <2>1. ASSUME NEW p \in BlockId, NEW x \in g.next_blocks[p]
        PROVE  /\ x \in g.unconfirmed_blocks /\ Prev(x) = p
               /\ x \notin g.invalid_blocks /\ g.pending[x] = 0
               /\ p \notin g.valid_blocks
    <3>1. p # b /\ x \in h.next_blocks[p]
      BY <1>5, <1>7, <2>1
    <3>2. /\ x \in h.unconfirmed_blocks /\ Prev(x) = p
          /\ x \notin h.invalid_blocks /\ h.pending[x] = 0
          /\ p \notin h.valid_blocks
      BY <3>1 DEF PoolInv, Indexed
    <3>3. x \in BlockId /\ x \notin h.next_blocks[b]
      BY <1>1, <3>1, <3>2 DEF PoolInv, Indexed, Hub
    <3> QED  BY <1>5, <1>7, <3>1, <3>2, <3>3 DEF V
  <2>2. ASSUME NEW x \in g.unconfirmed_blocks
        PROVE  \/ x \in g.next_blocks[Prev(x)]
               \/ g.pending[x] > 0
               \/ x \in g.invalid_blocks
    <3>1. x \in BlockId /\ Prev(x) \in BlockId /\ x \in h.unconfirmed_blocks
      BY <1>7, BlockAssumption DEF Hub, PoolInv, FormsTree, Separate, Prev
    <3>2. CASE x \in h.next_blocks[b]
      BY <1>5, <1>7, <3>1, <3>2
    <3>3. CASE x \notin h.next_blocks[b]
      <4>1. \/ x \in h.next_blocks[Prev(x)]
            \/ h.pending[x] > 0
            \/ x \in h.invalid_blocks
        BY <3>1 DEF PoolInv, Indexed
      <4>2. g.pending[x] = h.pending[x]
        BY <1>5, <1>7, <3>1, <3>3
      <4>3. CASE x \in h.next_blocks[Prev(x)]
        BY <1>5, <1>7, <3>1, <3>3, <4>3
      <4> QED  BY <1>7, <4>1, <4>2, <4>3
    <3> QED  BY <3>2, <3>3
  <2> QED  BY <2>1, <2>2 DEF Indexed
<1>11. PendingReady(g)
  <2>1. ASSUME NEW x \in BlockId, g.pending[x] > 0
        PROVE  /\ x \in h.unconfirmed_blocks
               /\ x \notin h.invalid_blocks
               /\ Prev(x) \in V
    <3>1. CASE x \in h.next_blocks[b]
      BY <1>1, <3>1 DEF PoolInv, Indexed, V
    <3>2. CASE x \notin h.next_blocks[b]
      BY <1>5, <1>7, <2>1, <3>2 DEF PoolInv, PendingReady, V
    <3> QED  BY <3>1, <3>2
  <2> QED  BY <1>7, <2>1 DEF PendingReady
<1>12. DoomedByParent(g)
  BY <1>7 DEF PoolInv, DoomedByParent
<1> QED  BY <1>6, <1>8, <1>9, <1>10, <1>11, <1>12 DEF PoolInv, g

\* What does not touch the pools of blocks keeps them in order.
LEMMA SamePools ==
  ASSUME NEW h, NEW g, PoolInv(h),
         g.valid_blocks = h.valid_blocks,
         g.unconfirmed_blocks = h.unconfirmed_blocks,
         g.invalid_blocks = h.invalid_blocks,
         g.next_blocks = h.next_blocks,
         g.leading_block = h.leading_block,
         g.pending = h.pending,
         g.valid_ids = h.valid_ids
  PROVE  PoolInv(g)
<1>1. FormsTree(g) /\ HighestLeads(g) /\ Separate(g)
  BY DEF PoolInv, FormsTree, HighestLeads, Separate
<1>2. Indexed(g)
  BY DEF PoolInv, Indexed
<1>3. PendingReady(g) /\ DoomedByParent(g) /\ ResultOpen(g)
  BY DEF PoolInv, PendingReady, DoomedByParent, ResultOpen
<1> QED  BY <1>1, <1>2, <1>3 DEF PoolInv

\* So does stopping.
LEMMA StopKeepsPools ==
  ASSUME NEW h \in Hub, PoolInv(h)
  PROVE  Stop(h) \in Hub /\ PoolInv(Stop(h))
<1>1. /\ Stop(h) \in Hub
      /\ Stop(h).valid_blocks = h.valid_blocks
      /\ Stop(h).unconfirmed_blocks = h.unconfirmed_blocks
      /\ Stop(h).invalid_blocks = h.invalid_blocks
      /\ Stop(h).next_blocks = h.next_blocks
      /\ Stop(h).leading_block = h.leading_block
      /\ Stop(h).pending = h.pending
      /\ Stop(h).valid_ids = h.valid_ids
  BY DEF Hub, Stop
<1> QED  BY <1>1, SamePools

\* Moving the cash set keeps the pools in order, whatever set is computed.
LEMMA CashSetMoves ==
  ASSUME NEW h \in Hub, PoolInv(h), NEW b
  PROVE  LET g == [h EXCEPT !.cash_set = CashSetAt(h, b)]
         IN /\ g \in Hub /\ PoolInv(g)
            /\ g.valid_blocks = h.valid_blocks
            /\ g.unconfirmed_blocks = h.unconfirmed_blocks
            /\ g.invalid_blocks = h.invalid_blocks
            /\ g.leading_block = h.leading_block
            /\ g.pending = h.pending
<1> DEFINE C == CashSetAt(h, b)
           g == [h EXCEPT !.cash_set = C]
<1>1. C \in SUBSET Cash
  BY DEF CashSetAt
<1> HIDE DEF C
<1>2. /\ g \in Hub
      /\ g.valid_blocks = h.valid_blocks
      /\ g.unconfirmed_blocks = h.unconfirmed_blocks
      /\ g.invalid_blocks = h.invalid_blocks
      /\ g.next_blocks = h.next_blocks
      /\ g.leading_block = h.leading_block
      /\ g.pending = h.pending
      /\ g.valid_ids = h.valid_ids
  BY <1>1 DEF Hub
<1> HIDE DEF g
<1>3. PoolInv(g)
  BY <1>2, SamePools
<1> QED  BY <1>2, <1>3 DEF g, C

\* validate_block, called with a block that is in no pool.
LEMMA ValidateKeepsPools ==
  ASSUME NEW h \in Hub, NEW b, NEW depth \in Nat, PoolInv(h), Fresh(h, b)
  PROVE  /\ ValidateBlock(h, b, depth) \in Hub
         /\ PoolInv(ValidateBlock(h, b, depth))
<1> DEFINE g == [h EXCEPT !.cash_set = CashSetAt(h, Prev(b))]
<1>1. /\ g \in Hub /\ PoolInv(g) /\ Fresh(g, b)
      /\ g.valid_blocks = h.valid_blocks
  BY CashSetMoves DEF Fresh, KnowsBlock
<1> HIDE DEF g
<1>2. CASE Prev(b) \notin h.valid_blocks
  BY <1>2, AddUnconfirmedKeepsPools DEF ValidateBlock
<1>3. CASE Prev(b) \in h.valid_blocks /\ ~FollowsParent(b)
  BY <1>3, AddInvalidKeepsPools DEF ValidateBlock
<1>4. CASE Prev(b) \in h.valid_blocks /\ FollowsParent(b) /\ SpanUnderflows(h, b)
  BY <1>4, StopKeepsPools DEF ValidateBlock
<1>5. CASE /\ Prev(b) \in h.valid_blocks /\ FollowsParent(b) /\ ~SpanUnderflows(h, b)
           /\ Block[b].difficulty # ExpectedDifficulty(h, b)
  BY <1>5, AddInvalidKeepsPools DEF ValidateBlock
<1>6. CASE /\ Prev(b) \in h.valid_blocks /\ FollowsParent(b) /\ ~SpanUnderflows(h, b)
           /\ Block[b].difficulty = ExpectedDifficulty(h, b)
  <2>1. ValidateBlock(h, b, depth) =
          IF InputsAvailable(g, b) /\ RewardIsRight(b)
          THEN AddValidBlock(g, b, depth)
          ELSE AddInvalidBlock(g, b)
    BY <1>6 DEF ValidateBlock, g
  <2>2. /\ AddValidBlock(g, b, depth) \in Hub
        /\ PoolInv(AddValidBlock(g, b, depth))
    BY <1>1, <1>6, AddValidKeepsPools
  <2>3. AddInvalidBlock(g, b) \in Hub /\ PoolInv(AddInvalidBlock(g, b))
    BY <1>1, AddInvalidKeepsPools
  <2> QED  BY <2>1, <2>2, <2>3
<1> QED  BY <1>2, <1>3, <1>4, <1>5, <1>6

\* A block taken out of the loop of add_valid_block and of the unconfirmed pool
\* is in no pool any more, and the rest is in order: this is what the
\* preconditions of validate_block ask for.
LEMMA PendingIsFresh ==
  ASSUME NEW h \in Hub, PoolInv(h), NEW b \in BlockId, h.pending[b] > 0
  PROVE  LET g == [h EXCEPT !.pending[b] = 0, !.unconfirmed_blocks = @ \ {b}]
         IN /\ g \in Hub /\ PoolInv(g) /\ Fresh(g, b)
            /\ g.valid_blocks = h.valid_blocks
            /\ g.invalid_blocks = h.invalid_blocks
            /\ g.unconfirmed_blocks = h.unconfirmed_blocks \ {b}
            /\ g.leading_block = h.leading_block
            /\ b \in h.unconfirmed_blocks
<1> DEFINE P == [h.pending EXCEPT ![b] = 0]
           U == h.unconfirmed_blocks \ {b}
           g == [h EXCEPT !.pending = P, !.unconfirmed_blocks = U]
<1>1. /\ P \in [BlockId -> Nat] /\ U \in SUBSET BlockId
      /\ \A x \in BlockId : P[x] = IF x = b THEN 0 ELSE h.pending[x]
  BY DEF Hub
<1> HIDE DEF P, U
<1>2. g \in Hub /\ g.pending = P /\ g.unconfirmed_blocks = U
  BY <1>1 DEF Hub
<1>3. /\ g.valid_blocks = h.valid_blocks
      /\ g.invalid_blocks = h.invalid_blocks
      /\ g.next_blocks = h.next_blocks
      /\ g.leading_block = h.leading_block
      /\ g.valid_ids = h.valid_ids
  BY DEF Hub
<1> HIDE DEF g
<1>4. /\ b \in h.unconfirmed_blocks /\ b \notin h.invalid_blocks
      /\ b \notin h.valid_blocks
      /\ \A p \in BlockId : b \notin h.next_blocks[p]
  BY DEF PoolInv, PendingReady, Separate, Indexed, Hub
<1>5. FormsTree(g) /\ HighestLeads(g)
  BY <1>3 DEF PoolInv, FormsTree, HighestLeads
<1>6. Separate(g)
  BY <1>2, <1>3 DEF PoolInv, Separate, U
<1>7. Indexed(g)
  <2>1. ASSUME NEW p \in BlockId, NEW x \in g.next_blocks[p]
        PROVE  /\ x \in g.unconfirmed_blocks /\ Prev(x) = p
               /\ x \notin g.invalid_blocks /\ g.pending[x] = 0
               /\ p \notin g.valid_blocks
    <3>1. x \in h.next_blocks[p] /\ x # b
      BY <1>3, <1>4
    <3>2. /\ x \in h.unconfirmed_blocks /\ Prev(x) = p /\ x \in BlockId
          /\ x \notin h.invalid_blocks /\ h.pending[x] = 0
          /\ p \notin h.valid_blocks
      BY <3>1 DEF PoolInv, Indexed, Hub
    <3> QED  BY <1>1, <1>2, <1>3, <3>1, <3>2 DEF U
  <2>2. ASSUME NEW x \in g.unconfirmed_blocks
        PROVE  \/ x \in g.next_blocks[Prev(x)]
               \/ g.pending[x] > 0
               \/ x \in g.invalid_blocks
    <3>1. x \in BlockId /\ x # b /\ x \in h.unconfirmed_blocks
      BY <1>2, <2>2 DEF U, Hub
    <3> QED  BY <1>1, <1>2, <1>3, <3>1 DEF PoolInv, Indexed
  <2> QED  BY <2>1, <2>2 DEF Indexed
<1>8. PendingReady(g)
  BY <1>1, <1>2, <1>3 DEF PoolInv, PendingReady, U
<1>9. DoomedByParent(g)
  BY <1>2, <1>3 DEF PoolInv, DoomedByParent, U
<1>10. ResultOpen(g)
  BY <1>1, <1>2, <1>3 DEF PoolInv, ResultOpen
<1>11. Fresh(g, b)
  BY <1>1, <1>2, <1>3, <1>4 DEF Fresh, KnowsBlock, U
<1>12. g = [h EXCEPT !.pending[b] = 0, !.unconfirmed_blocks = @ \ {b}]
  BY DEF g, P, U
<1> QED
  BY <1>2, <1>3, <1>4, <1>5, <1>6, <1>7, <1>8, <1>9, <1>10, <1>11, <1>12
     DEF PoolInv, U

\* One turn of the loop of add_valid_block.
LEMMA ValidatePendingKeepsPools ==
  ASSUME NEW h \in Hub, PoolInv(h), NEW b \in BlockId, h.pending[b] > 0
  PROVE  ValidatePending(h, b) \in Hub /\ PoolInv(ValidatePending(h, b))
<1> DEFINE g == [h EXCEPT !.pending[b] = 0, !.unconfirmed_blocks = @ \ {b}]
<1>1. g \in Hub /\ PoolInv(g) /\ Fresh(g, b) /\ b \in h.unconfirmed_blocks
  BY PendingIsFresh
<1>2. ValidatePending(h, b) = ValidateBlock(g, b, h.pending[b])
  BY <1>1 DEF ValidatePending, Hub
<1>3. h.pending[b] \in Nat
  BY DEF Hub
<1> HIDE DEF g
<1> QED  BY <1>1, <1>2, <1>3, ValidateKeepsPools

\* A hub starts in order.
LEMMA NewHubInOrder == NewHub \in Hub /\ PoolInv(NewHub)
<1>1. <<>> \in Seq(BlockId)
  OBVIOUS
<1>2. NewHub \in Hub
  BY <1>1, BlockAssumption DEF NewHub, Hub
<1>3. PoolInv(NewHub)
  <2>1. Seqno(Genesis) \in Nat
    BY BlockAssumption DEF Seqno
  <2>2. FormsTree(NewHub) /\ HighestLeads(NewHub) /\ Separate(NewHub)
    BY <2>1 DEF NewHub, FormsTree, HighestLeads, Separate
  <2>3. Indexed(NewHub)
    BY DEF NewHub, Indexed
  <2>4. PendingReady(NewHub) /\ DoomedByParent(NewHub) /\ ResultOpen(NewHub)
    BY DEF NewHub, PendingReady, DoomedByParent, ResultOpen
  <2> QED  BY <2>2, <2>3, <2>4 DEF PoolInv
<1> QED  BY <1>2, <1>3

-----------------------------------------------------------------------------
(***************************************************************************)
(* The handlers: from a hub in order to a hub in order, and well-typed     *)
(* messages.                                                               *)
(***************************************************************************)
InOrder(result) ==
  /\ result.hub \in Hub
  /\ PoolInv(result.hub)
  /\ result.sent \in Outbox

LEMMA SilenceType == Silence \in Outbox
<1>1. <<>> \in Seq(Message)
  OBVIOUS
<1> QED  BY <1>1 DEF Silence, Outbox

LEMMA DoneInOrder ==
  ASSUME NEW h \in Hub, PoolInv(h)
  PROVE  InOrder(Done(h)) /\ InOrder(Fail(h))
BY StopKeepsPools, SilenceType DEF InOrder, Done, Fail

LEMMA SendInOrder ==
  ASSUME NEW h \in Hub, PoolInv(h), NEW n, NEW msg \in Message
  PROVE  InOrder(SendToPeer(h, n, msg))
<1>1. CASE n \in h.peers
  <2>1. n \in Node /\ <<msg>> \in Seq(Message)
    BY <1>1 DEF Hub
  <2>2. [Silence EXCEPT ![n] = <<msg>>] \in Outbox
    BY <2>1, SilenceType DEF Outbox
  <2> QED  BY <1>1, <2>2 DEF SendToPeer, InOrder
<1>2. CASE n \notin h.peers
  BY <1>2, DoneInOrder DEF SendToPeer
<1> QED  BY <1>1, <1>2

LEMMA BroadcastInOrder ==
  ASSUME NEW h \in Hub, PoolInv(h), NEW msgs \in Seq(Message)
  PROVE  InOrder(Broadcast(h, msgs))
<1>1. <<>> \in Seq(Message)
  OBVIOUS
<1>2. [n \in Node |-> IF n \in h.peers THEN msgs ELSE <<>>] \in Outbox
  BY <1>1 DEF Outbox
<1> QED  BY <1>2 DEF Broadcast, InOrder

LEMMA OneMessage == \A msg \in Message : <<msg>> \in Seq(Message)
OBVIOUS

LEMMA BlockMessages ==
  \A b \in BlockId :
    /\ [type |-> "AnnounceBlock", id |-> b] \in Message
    /\ [type |-> "GetBlockRequest", id |-> b] \in Message
    /\ [type |-> "GetBlockResponse", id |-> b] \in Message
BY DEF Message

LEMMA TransactionMessages ==
  \A t \in TxnId :
    /\ [type |-> "AnnounceTransaction", id |-> t] \in Message
    /\ [type |-> "GetTransactionRequest", id |-> t] \in Message
    /\ [type |-> "GetTransactionResponse", id |-> t] \in Message
BY DEF Message

\* A block that the idle hub does not know may be validated.
LEMMA UnknownIsFresh ==
  ASSUME NEW h \in Hub, PoolInv(h), Idle(h), NEW b \in BlockId, ~KnowsBlock(h, b)
  PROVE  Fresh(h, b)
BY DEF PoolInv, ResultOpen, Idle, Fresh

LEMMA NewBlockInOrder ==
  ASSUME NEW h \in Hub, PoolInv(h), Idle(h), NEW from, NEW b \in BlockId, NEW t
  PROVE  InOrder(HandleNewBlock(h, from, b, t))
<1> DEFINE g == ValidateBlock(h, b, 0)
           root == BlockRoot(g, Prev(b))
           request == [type |-> "GetBlockRequest", id |-> root]
<1>1. CASE KnowsBlock(h, b)
  BY <1>1, DoneInOrder DEF HandleNewBlock
<1>2. CASE ~KnowsBlock(h, b)
  <2>1. Fresh(h, b)
    BY <1>2, UnknownIsFresh
  <2>2. InOrder(Done(AddInvalidBlock(h, b)))
    BY <2>1, AddInvalidKeepsPools, DoneInOrder
  <2>3. g \in Hub /\ PoolInv(g)
    BY <2>1, ValidateKeepsPools
  <2>4. root \in BlockId
    <3>1. Genesis \in BlockId /\ Prev(b) \in BlockId
      BY <1>2, BlockAssumption DEF KnowsBlock, PoolInv, FormsTree, Prev
    <3>2. root = Genesis \/ root = Prev(b)
      BY DEF BlockRoot
    <3> QED  BY <3>1, <3>2
  <2> HIDE DEF g, root
  <2>5. InOrder(Done(g)) /\ InOrder(Fail(g)) /\ InOrder(SendToPeer(g, from, request))
    BY <2>3, <2>4, DoneInOrder, SendInOrder, BlockMessages
  <2> HIDE DEF request
  <2>6. \/ HandleNewBlock(h, from, b, t) = Done(AddInvalidBlock(h, b))
        \/ HandleNewBlock(h, from, b, t) = Done(g)
        \/ HandleNewBlock(h, from, b, t) = Fail(g)
        \/ HandleNewBlock(h, from, b, t) = SendToPeer(g, from, request)
    BY <1>2 DEF HandleNewBlock, g, root, request
  <2> QED  BY <2>2, <2>5, <2>6
<1> QED  BY <1>1, <1>2

LEMMA AnnounceInOrder ==
  ASSUME NEW h \in Hub, PoolInv(h), \A b \in BlockId : h.pending[b] = 0
  PROVE  InOrder(AnnounceValid(h))
<1> DEFINE g == [h EXCEPT !.valid_ids = <<>>]
           msgs == [i \in DOMAIN h.valid_ids |->
                      [type |-> "AnnounceBlock", id |-> h.valid_ids[i]]]
<1>1. /\ g \in Hub
      /\ g.valid_blocks = h.valid_blocks
      /\ g.unconfirmed_blocks = h.unconfirmed_blocks
      /\ g.invalid_blocks = h.invalid_blocks
      /\ g.next_blocks = h.next_blocks
      /\ g.leading_block = h.leading_block
      /\ g.pending = h.pending
  <2>1. <<>> \in Seq(BlockId)
    OBVIOUS
  <2> QED  BY <2>1 DEF Hub
<1>2. msgs \in Seq(Message)
  <2>1. /\ h.valid_ids \in Seq(BlockId)
        /\ DOMAIN h.valid_ids = 1 .. Len(h.valid_ids)
        /\ Len(h.valid_ids) \in Nat
    BY DEF Hub
  <2>2. \A i \in 1 .. Len(h.valid_ids) :
          [type |-> "AnnounceBlock", id |-> h.valid_ids[i]] \in Message
    <3>1. \A i \in 1 .. Len(h.valid_ids) : h.valid_ids[i] \in BlockId
      BY <2>1
    <3>2. SUFFICES ASSUME NEW i \in 1 .. Len(h.valid_ids)
                   PROVE  [type |-> "AnnounceBlock", id |-> h.valid_ids[i]] \in Message
      OBVIOUS
    <3> QED  BY <3>1, BlockMessages, Zenon
  <2>3. msgs \in [1 .. Len(h.valid_ids) -> Message]
    BY <2>1, <2>2
  <2> HIDE DEF msgs
  <2> QED  BY <2>1, <2>3, SeqDef
<1> HIDE DEF g, msgs
<1>3. PoolInv(g)
  <2>1. FormsTree(g) /\ HighestLeads(g) /\ Separate(g)
    BY <1>1 DEF PoolInv, FormsTree, HighestLeads, Separate
  <2>2. Indexed(g)
    BY <1>1 DEF PoolInv, Indexed
  <2>3. PendingReady(g) /\ DoomedByParent(g) /\ ResultOpen(g)
    BY <1>1 DEF PoolInv, PendingReady, DoomedByParent, ResultOpen
  <2> QED  BY <2>1, <2>2, <2>3 DEF PoolInv
<1> QED  BY <1>1, <1>2, <1>3, BroadcastInOrder DEF AnnounceValid, g, msgs

\* The handlers of the other messages leave the pools of blocks alone.
LEMMA HubHandlersInOrder ==
  ASSUME NEW h \in Hub, PoolInv(h)
  PROVE  /\ \A n \in Node : InOrder(HandleNewPeer(h, n))
         /\ InOrder(HandleQueryLeadingCashSet(h))
<1>1. ASSUME NEW n \in Node PROVE InOrder(HandleNewPeer(h, n))
  <2> DEFINE p == [h EXCEPT !.peers = @ \cup {n}]
  <2>1. p \in Hub
    BY DEF Hub
  <2>2. PoolInv(p)
    BY SamePools DEF Hub
  <2> QED  BY <2>1, <2>2, DoneInOrder DEF HandleNewPeer
<1>2. InOrder(HandleQueryLeadingCashSet(h))
  BY CashSetMoves, DoneInOrder DEF HandleQueryLeadingCashSet
<1> QED  BY <1>1, <1>2

LEMMA BlockHandlersInOrder ==
  ASSUME NEW h \in Hub, PoolInv(h), NEW n \in Node, NEW b \in BlockId
  PROVE  /\ InOrder(HandleAnnounceBlock(h, n, b))
         /\ InOrder(HandleGetBlock(h, n, b))
BY DoneInOrder, SendInOrder, BlockMessages DEF HandleAnnounceBlock, HandleGetBlock

LEMMA TransactionHandlersInOrder ==
  ASSUME NEW h \in Hub, PoolInv(h), NEW n \in Node, NEW t \in TxnId
  PROVE  /\ InOrder(HandleAnnounceTransaction(h, n, t))
         /\ InOrder(HandleGetTransaction(h, n, t))
<1> DEFINE a == [h EXCEPT !.annoucements = @ \cup {t}]
<1>1. a \in Hub
  BY DEF Hub
<1>2. PoolInv(a)
  BY SamePools DEF Hub
<1>3. InOrder(HandleAnnounceTransaction(h, n, t))
  BY <1>1, <1>2, DoneInOrder, SendInOrder, TransactionMessages
     DEF HandleAnnounceTransaction
<1>4. InOrder(HandleGetTransaction(h, n, t))
  BY DoneInOrder, SendInOrder, TransactionMessages DEF HandleGetTransaction
<1> QED  BY <1>3, <1>4

LEMMA NewTransactionInOrder ==
  ASSUME NEW h \in Hub, PoolInv(h), NEW t \in TxnId
  PROVE  InOrder(HandleNewTransaction(h, t))
<1> DEFINE m == [h EXCEPT !.mempool = @ \cup {t}, !.annoucements = @ \ {t}]
<1>1. m \in Hub
  BY DEF Hub
<1>2. PoolInv(m)
  BY SamePools DEF Hub
<1>3. <<[type |-> "AnnounceTransaction", id |-> t]>> \in Seq(Message)
  BY TransactionMessages, OneMessage
<1> QED  BY <1>1, <1>2, <1>3, DoneInOrder, BroadcastInOrder DEF HandleNewTransaction

-----------------------------------------------------------------------------
(***************************************************************************)
(* What one call of validate_block may do.                                 *)
(***************************************************************************)

\* At most one block is accepted, after its parent, and leads if it is higher.
TreeStep(h, g) ==
  \/ g.valid_blocks = h.valid_blocks /\ g.leading_block = h.leading_block
  \/ \E b \in BlockId :
       /\ b \notin h.valid_blocks /\ Prev(b) \in h.valid_blocks /\ FollowsParent(b)
       /\ g.valid_blocks = h.valid_blocks \cup {b}
       /\ g.leading_block = IF Seqno(b) > Seqno(h.leading_block) THEN b
                            ELSE h.leading_block

\* Verdicts stay, and an invalid block takes those waiting for it along.
VerdictStep(h, g) ==
  /\ h.valid_blocks \subseteq g.valid_blocks
  /\ h.invalid_blocks \subseteq g.invalid_blocks
  /\ \A b \in g.invalid_blocks \ h.invalid_blocks :
       h.next_blocks[b] \subseteq g.invalid_blocks

LEMMA AddInvalidStep ==
  ASSUME NEW h \in Hub, NEW b \in BlockId
  PROVE  LET g == AddInvalidBlock(h, b)
         IN /\ TreeStep(h, g) /\ VerdictStep(h, g)
            /\ g.unconfirmed_blocks = h.unconfirmed_blocks
            /\ KnowsBlock(g, b)
<1> DEFINE g == AddInvalidBlock(h, b)
           D == WaitingOn(h, b)
<1>1. D \subseteq BlockId /\ b \in D /\ \A y \in D : h.next_blocks[y] \subseteq D
  BY WaitingOnCloses
<1>2. /\ g.invalid_blocks = h.invalid_blocks \cup D
      /\ g.valid_blocks = h.valid_blocks
      /\ g.unconfirmed_blocks = h.unconfirmed_blocks
      /\ g.leading_block = h.leading_block
  BY DEF AddInvalidBlock, Hub
<1> HIDE DEF g, D
<1>3. TreeStep(h, g)
  BY <1>2 DEF TreeStep
<1>4. VerdictStep(h, g)
  BY <1>1, <1>2 DEF VerdictStep
<1>5. KnowsBlock(g, b)
  BY <1>1, <1>2 DEF KnowsBlock
<1> QED  BY <1>2, <1>3, <1>4, <1>5 DEF g

\* validate_block of a block that is in no pool: the block ends in one of them,
\* unless the hub stops, and no other block leaves its pool.
ValidateOutcome(h, b, g) ==
  /\ TreeStep(h, g) /\ VerdictStep(h, g)
  /\ h.unconfirmed_blocks \subseteq g.unconfirmed_blocks
  /\ g.running => KnowsBlock(g, b)

LEMMA ValidateStep ==
  ASSUME NEW h \in Hub, NEW b, NEW depth \in Nat, PoolInv(h), Fresh(h, b)
  PROVE  ValidateOutcome(h, b, ValidateBlock(h, b, depth))
<1> DEFINE g == ValidateBlock(h, b, depth)
           c == [h EXCEPT !.cash_set = CashSetAt(h, Prev(b))]
<1> b \in BlockId
  BY DEF Fresh
<1> SUFFICES ValidateOutcome(h, b, g)
  OBVIOUS
<1>1. /\ c \in Hub /\ c.valid_blocks = h.valid_blocks
      /\ c.unconfirmed_blocks = h.unconfirmed_blocks
      /\ c.invalid_blocks = h.invalid_blocks
      /\ c.next_blocks = h.next_blocks
      /\ c.leading_block = h.leading_block
  BY CashSetMoves DEF Hub
<1>2. CASE Prev(b) \notin h.valid_blocks
  <2>1. /\ g.valid_blocks = h.valid_blocks
        /\ g.invalid_blocks = h.invalid_blocks
        /\ g.leading_block = h.leading_block
        /\ g.unconfirmed_blocks = h.unconfirmed_blocks \cup {b}
    BY <1>2 DEF ValidateBlock, AddUnconfirmedBlock, Hub
  <2> HIDE DEF g
  <2>2. TreeStep(h, g) /\ VerdictStep(h, g)
    BY <2>1 DEF TreeStep, VerdictStep
  <2> QED  BY <2>1, <2>2 DEF ValidateOutcome, KnowsBlock
<1>3. CASE g = AddInvalidBlock(h, b)
  BY <1>3, AddInvalidStep DEF ValidateOutcome
<1>4. CASE g = Stop(h)
  <2>1. /\ g.valid_blocks = h.valid_blocks
        /\ g.invalid_blocks = h.invalid_blocks
        /\ g.leading_block = h.leading_block
        /\ g.unconfirmed_blocks = h.unconfirmed_blocks
        /\ ~g.running
    BY <1>4 DEF Stop, Hub
  <2> HIDE DEF g
  <2> QED  BY <2>1 DEF ValidateOutcome, TreeStep, VerdictStep
<1>5. CASE g = AddInvalidBlock(c, b)
  <2>1. /\ TreeStep(c, g) /\ VerdictStep(c, g)
        /\ g.unconfirmed_blocks = c.unconfirmed_blocks
        /\ KnowsBlock(g, b)
    BY <1>1, <1>5, AddInvalidStep
  <2> HIDE DEF c, g
  <2> QED  BY <1>1, <2>1 DEF ValidateOutcome, TreeStep, VerdictStep
<1>6. CASE /\ Prev(b) \in h.valid_blocks /\ FollowsParent(b)
           /\ g = AddValidBlock(c, b, depth)
  <2>1. /\ g.valid_blocks = c.valid_blocks \cup {b}
        /\ g.invalid_blocks = c.invalid_blocks
        /\ g.unconfirmed_blocks = c.unconfirmed_blocks
        /\ g.leading_block = IF Seqno(b) > Seqno(c.leading_block) THEN b
                             ELSE c.leading_block
    <3> HIDE DEF c
    <3> QED  BY <1>1, <1>6 DEF AddValidBlock, Hub
  <2> HIDE DEF c, g
  <2>2. b \notin h.valid_blocks
    BY DEF Fresh, KnowsBlock
  <2>3. TreeStep(h, g)
    BY <1>1, <1>6, <2>1, <2>2 DEF TreeStep
  <2> QED  BY <1>1, <2>1, <2>3 DEF ValidateOutcome, VerdictStep, KnowsBlock
<1> QED  BY <1>2, <1>3, <1>4, <1>5, <1>6 DEF ValidateBlock

\* What a step of the hub may do to its blocks.
BlockStep(h, g) ==
  /\ TreeStep(h, g) /\ VerdictStep(h, g)
  /\ g.running => \A b \in BlockId : KnowsBlock(h, b) => KnowsBlock(g, b)

LEMMA SameBlocksStep ==
  ASSUME NEW h, NEW g,
         g.valid_blocks = h.valid_blocks,
         g.unconfirmed_blocks = h.unconfirmed_blocks,
         g.invalid_blocks = h.invalid_blocks,
         g.leading_block = h.leading_block
  PROVE  BlockStep(h, g)
BY DEF BlockStep, TreeStep, VerdictStep, KnowsBlock

LEMMA NewBlockStep ==
  ASSUME NEW h \in Hub, PoolInv(h), Idle(h), NEW from, NEW b \in BlockId, NEW t
  PROVE  BlockStep(h, HandleNewBlock(h, from, b, t).hub)
<1> DEFINE g == ValidateBlock(h, b, 0)
           i == AddInvalidBlock(h, b)
           r == HandleNewBlock(h, from, b, t).hub
<1>1. CASE KnowsBlock(h, b)
  BY <1>1, SameBlocksStep DEF HandleNewBlock, Done
<1>2. CASE ~KnowsBlock(h, b)
  <2>1. Fresh(h, b)
    BY <1>2, UnknownIsFresh
  <2>2. g \in Hub /\ i \in Hub
    BY <2>1, ValidateKeepsPools, AddInvalidKeepsPools
  <2>3. BlockStep(h, g)
    BY <2>1, ValidateStep DEF ValidateOutcome, BlockStep, VerdictStep, KnowsBlock
  <2>4. BlockStep(h, i)
    BY AddInvalidStep DEF BlockStep, VerdictStep, KnowsBlock
  <2>5. r = i \/ r = g \/ r = Stop(g)
    BY <1>2 DEF HandleNewBlock, Done, Fail, SendToPeer
  <2> HIDE DEF g, i, r
  <2>6. BlockStep(h, Stop(g))
    <3>1. /\ Stop(g).valid_blocks = g.valid_blocks
          /\ Stop(g).invalid_blocks = g.invalid_blocks
          /\ Stop(g).leading_block = g.leading_block
          /\ ~Stop(g).running
      BY <2>2 DEF Stop, Hub
    <3> QED  BY <2>3, <3>1 DEF BlockStep, TreeStep, VerdictStep
  <2> QED  BY <2>3, <2>4, <2>5, <2>6 DEF r
<1> QED  BY <1>1, <1>2

LEMMA PendingStep ==
  ASSUME NEW h \in Hub, PoolInv(h), NEW b \in BlockId, h.pending[b] > 0
  PROVE  BlockStep(h, ValidatePending(h, b))
<1> DEFINE g == [h EXCEPT !.pending[b] = 0, !.unconfirmed_blocks = @ \ {b}]
           r == ValidateBlock(g, b, h.pending[b])
<1>1. /\ g \in Hub /\ PoolInv(g) /\ Fresh(g, b)
      /\ g.valid_blocks = h.valid_blocks
      /\ g.invalid_blocks = h.invalid_blocks
      /\ g.unconfirmed_blocks = h.unconfirmed_blocks \ {b}
      /\ g.leading_block = h.leading_block
      /\ g.next_blocks = h.next_blocks
      /\ b \in h.unconfirmed_blocks
  BY PendingIsFresh DEF Hub
<1>2. ValidatePending(h, b) = r
  BY <1>1 DEF ValidatePending, Hub
<1>3. h.pending[b] \in Nat
  BY DEF Hub
<1> HIDE DEF g
<1>4. /\ TreeStep(g, r) /\ VerdictStep(g, r)
      /\ g.unconfirmed_blocks \subseteq r.unconfirmed_blocks
      /\ r.running => KnowsBlock(r, b)
  BY <1>1, <1>3, ValidateStep DEF ValidateOutcome
<1> HIDE DEF r
<1>5. TreeStep(h, r)
  BY <1>1, <1>4 DEF TreeStep
<1>6. VerdictStep(h, r)
  BY <1>1, <1>4 DEF VerdictStep
<1>7. r.running => \A x \in BlockId : KnowsBlock(h, x) => KnowsBlock(r, x)
  BY <1>1, <1>4, <1>6 DEF VerdictStep, KnowsBlock
<1> QED  BY <1>2, <1>5, <1>6, <1>7 DEF BlockStep

-----------------------------------------------------------------------------
(***************************************************************************)
(* What a call of validate_block does besides the pools of blocks.         *)
(***************************************************************************)

\* Nothing is accepted and the mempool keeps what it holds, or one block is: it
\* is added to the result of the handler, and its transactions leave the mempool.
AcceptStep(h, g) ==
  \/ /\ g.valid_blocks = h.valid_blocks
     /\ g.valid_ids = h.valid_ids
     /\ g.mempool = h.mempool
     /\ g.annoucements = h.annoucements
  \/ \E b \in BlockId :
       /\ b \notin h.valid_blocks
       /\ g.valid_blocks = h.valid_blocks \cup {b}
       /\ g.valid_ids = Append(h.valid_ids, b)
       /\ g.mempool = h.mempool \ Transactions(b)
       /\ g.annoucements = h.annoucements

\* Moving the cash set, taking a block out of a loop, or stopping, is no such step.
SameRecords(h, g) ==
  /\ g.valid_blocks = h.valid_blocks
  /\ g.valid_ids = h.valid_ids
  /\ g.mempool = h.mempool
  /\ g.annoucements = h.annoucements

LEMMA ValidateAccepts ==
  ASSUME NEW h \in Hub, NEW b, NEW depth \in Nat, PoolInv(h), Fresh(h, b)
  PROVE  AcceptStep(h, ValidateBlock(h, b, depth))
<1> DEFINE g == ValidateBlock(h, b, depth)
           c == [h EXCEPT !.cash_set = CashSetAt(h, Prev(b))]
<1> b \in BlockId /\ b \notin h.valid_blocks
  BY DEF Fresh, KnowsBlock
<1> SUFFICES AcceptStep(h, g)
  OBVIOUS
<1>1. c \in Hub /\ SameRecords(h, c)
  BY CashSetMoves DEF Hub, SameRecords
<1>2. CASE g = AddUnconfirmedBlock(h, b)
  BY <1>2 DEF AddUnconfirmedBlock, Hub, AcceptStep
<1>3. ASSUME NEW x \in Hub, SameRecords(h, x), g = AddInvalidBlock(x, b)
      PROVE  AcceptStep(h, g)
  <2> HIDE DEF g
  <2>1. SameRecords(x, g)
    BY <1>3 DEF AddInvalidBlock, Hub, SameRecords
  <2> QED  BY <1>3, <2>1 DEF SameRecords, AcceptStep
<1>4. CASE g = Stop(h)
  BY <1>4 DEF Stop, Hub, AcceptStep
<1>5. CASE g = AddValidBlock(c, b, depth)
  <2> HIDE DEF c, g
  <2>1. /\ g.valid_blocks = c.valid_blocks \cup {b}
        /\ g.valid_ids = Append(c.valid_ids, b)
        /\ g.mempool = c.mempool \ Transactions(b)
        /\ g.annoucements = c.annoucements
    BY <1>1, <1>5 DEF AddValidBlock, Hub
  <2> QED  BY <1>1, <2>1 DEF SameRecords, AcceptStep
<1>6. SameRecords(h, h)
  BY DEF SameRecords
<1>7. \/ g = AddUnconfirmedBlock(h, b) \/ g = AddInvalidBlock(h, b)
      \/ g = Stop(h) \/ g = AddValidBlock(c, b, depth) \/ g = AddInvalidBlock(c, b)
  BY DEF ValidateBlock
<1> HIDE DEF c, g
<1> QED  BY <1>1, <1>2, <1>3, <1>4, <1>5, <1>6, <1>7

LEMMA NewBlockAccepts ==
  ASSUME NEW h \in Hub, PoolInv(h), Idle(h), NEW from, NEW b \in BlockId, NEW t
  PROVE  AcceptStep(h, HandleNewBlock(h, from, b, t).hub)
<1> DEFINE g == ValidateBlock(h, b, 0)
           i == AddInvalidBlock(h, b)
           r == HandleNewBlock(h, from, b, t).hub
<1>1. CASE KnowsBlock(h, b)
  BY <1>1 DEF HandleNewBlock, Done, AcceptStep
<1>2. CASE ~KnowsBlock(h, b)
  <2>1. Fresh(h, b)
    BY <1>2, UnknownIsFresh
  <2>2. g \in Hub /\ AcceptStep(h, g)
    BY <2>1, ValidateKeepsPools, ValidateAccepts
  <2>3. AcceptStep(h, i)
    BY DEF AddInvalidBlock, Hub, AcceptStep
  <2>4. r = i \/ r = g \/ r = Stop(g)
    BY <1>2 DEF HandleNewBlock, Done, Fail, SendToPeer
  <2> HIDE DEF g, i, r
  <2>5. SameRecords(g, Stop(g))
    BY <2>2 DEF Stop, Hub, SameRecords
  <2>6. AcceptStep(h, Stop(g))
    BY <2>2, <2>5 DEF SameRecords, AcceptStep
  <2> QED  BY <2>2, <2>3, <2>4, <2>6 DEF r
<1> QED  BY <1>1, <1>2

LEMMA PendingAccepts ==
  ASSUME NEW h \in Hub, PoolInv(h), NEW b \in BlockId, h.pending[b] > 0
  PROVE  AcceptStep(h, ValidatePending(h, b))
<1> DEFINE g == [h EXCEPT !.pending[b] = 0, !.unconfirmed_blocks = @ \ {b}]
           r == ValidateBlock(g, b, h.pending[b])
<1>1. /\ g \in Hub /\ PoolInv(g) /\ Fresh(g, b) /\ SameRecords(h, g)
      /\ b \in h.unconfirmed_blocks
  BY PendingIsFresh DEF Hub, SameRecords
<1>2. ValidatePending(h, b) = r
  BY <1>1 DEF ValidatePending, Hub
<1>3. h.pending[b] \in Nat
  BY DEF Hub
<1> HIDE DEF g
<1>4. AcceptStep(g, r)
  BY <1>1, <1>3, ValidateAccepts
<1> HIDE DEF r
<1> QED  BY <1>1, <1>2, <1>4 DEF SameRecords, AcceptStep

-----------------------------------------------------------------------------
(***************************************************************************)
(* Which block a call of validate_block may move, and where to.            *)
(***************************************************************************)

\* No block but b is accepted or starts to wait, b does not wait for a valid
\* parent, and the table of peers is left alone.
MovesOnly(h, b, g) ==
  /\ g.peers = h.peers
  /\ g.valid_blocks \subseteq h.valid_blocks \cup {b}
  /\ g.unconfirmed_blocks \subseteq h.unconfirmed_blocks \cup {b}
  /\ Prev(b) \in h.valid_blocks => g.unconfirmed_blocks \subseteq h.unconfirmed_blocks

LEMMA ValidateMovesOnly ==
  ASSUME NEW h \in Hub, NEW b, NEW depth
  PROVE  MovesOnly(h, b, ValidateBlock(h, b, depth))
<1> DEFINE g == ValidateBlock(h, b, depth)
           C == CashSetAt(h, Prev(b))
           c == [h EXCEPT !.cash_set = C]
<1> SUFFICES MovesOnly(h, b, g)
  OBVIOUS
<1>1. C \in SUBSET Cash
  BY DEF CashSetAt
<1>2. \/ g = AddUnconfirmedBlock(h, b) /\ Prev(b) \notin h.valid_blocks
      \/ g = AddInvalidBlock(h, b) \/ g = Stop(h)
      \/ g = AddValidBlock(c, b, depth) \/ g = AddInvalidBlock(c, b)
  BY DEF ValidateBlock
<1> HIDE DEF C, g
<1>3. /\ c \in Hub
      /\ c.peers = h.peers
      /\ c.valid_blocks = h.valid_blocks
      /\ c.unconfirmed_blocks = h.unconfirmed_blocks
  BY <1>1 DEF Hub
<1> HIDE DEF c
<1>4. CASE g = AddUnconfirmedBlock(h, b) /\ Prev(b) \notin h.valid_blocks
  BY <1>4 DEF AddUnconfirmedBlock, Hub, MovesOnly
<1>5. CASE g = AddInvalidBlock(h, b)
  BY <1>5 DEF AddInvalidBlock, Hub, MovesOnly
<1>6. CASE g = Stop(h)
  BY <1>6 DEF Stop, Hub, MovesOnly
<1>7. CASE g = AddValidBlock(c, b, depth)
  BY <1>3, <1>7 DEF AddValidBlock, Hub, MovesOnly
<1>8. CASE g = AddInvalidBlock(c, b)
  BY <1>3, <1>8 DEF AddInvalidBlock, Hub, MovesOnly
<1> QED  BY <1>2, <1>4, <1>5, <1>6, <1>7, <1>8

LEMMA NewBlockMovesOnly ==
  ASSUME NEW h \in Hub, PoolInv(h), Idle(h), NEW from, NEW b \in BlockId, NEW t
  PROVE  MovesOnly(h, b, HandleNewBlock(h, from, b, t).hub)
<1> DEFINE g == ValidateBlock(h, b, 0)
           i == AddInvalidBlock(h, b)
           r == HandleNewBlock(h, from, b, t).hub
<1>1. CASE KnowsBlock(h, b)
  BY <1>1 DEF HandleNewBlock, Done, MovesOnly
<1>2. CASE ~KnowsBlock(h, b)
  <2>1. g \in Hub /\ MovesOnly(h, b, g)
    BY <1>2, UnknownIsFresh, ValidateKeepsPools, ValidateMovesOnly
  <2>2. MovesOnly(h, b, i)
    BY DEF AddInvalidBlock, Hub, MovesOnly
  <2>3. r = i \/ r = g \/ r = Stop(g)
    BY <1>2 DEF HandleNewBlock, Done, Fail, SendToPeer
  <2> HIDE DEF g, i, r
  <2>4. MovesOnly(h, b, Stop(g))
    BY <2>1 DEF Stop, Hub, MovesOnly
  <2> QED  BY <2>1, <2>2, <2>3, <2>4 DEF r
<1> QED  BY <1>1, <1>2

LEMMA PendingMovesOnly ==
  ASSUME NEW h \in Hub, PoolInv(h), NEW b \in BlockId, h.pending[b] > 0
  PROVE  /\ b \in h.unconfirmed_blocks
         /\ MovesOnly(h, b, ValidatePending(h, b))
<1> DEFINE g == [h EXCEPT !.pending[b] = 0, !.unconfirmed_blocks = @ \ {b}]
           r == ValidateBlock(g, b, h.pending[b])
<1>1. /\ g \in Hub
      /\ g.valid_blocks = h.valid_blocks
      /\ g.unconfirmed_blocks = h.unconfirmed_blocks \ {b}
      /\ g.peers = h.peers
      /\ b \in h.unconfirmed_blocks
  BY PendingIsFresh DEF Hub
<1>2. ValidatePending(h, b) = r
  BY <1>1 DEF ValidatePending, Hub
<1> HIDE DEF g
<1>3. MovesOnly(g, b, r)
  BY <1>1, ValidateMovesOnly
<1> HIDE DEF r
<1> QED  BY <1>1, <1>2, <1>3 DEF MovesOnly

-----------------------------------------------------------------------------
(***************************************************************************)
(* Chains in the pools of a hub: ancestors_id, confirmed_chain, block_root.*)
(***************************************************************************)

\* The pool of valid blocks is a tree.
LEMMA ValidIsTree ==
  ASSUME NEW h \in Hub, FormsTree(h)
  PROVE  IsTree(h.valid_blocks) /\ NoBlock \notin h.valid_blocks
BY BlockTypes DEF Hub, FormsTree, IsTree

\* ancestors_id of a valid block is the path to it.
LEMMA AncestryIsPath ==
  ASSUME NEW h \in Hub, FormsTree(h), NEW b \in h.valid_blocks
  PROVE  Ancestry(h, b) = PathTo[b]
<1> DEFINE S == BlockId \cup {NoBlock}
           V == h.valid_blocks
           Base == S \ V
           parent == [x \in S |-> Prev(x)]
           base == [x \in Base |-> <<>>]
           next == [x \in S |-> [v \in Seq(BlockId) |-> Append(v, x)]]
           Equation(f) ==
             f = [x \in S |-> IF x \in V THEN Append(f[Prev(x)], x) ELSE <<>>]
<1>1. IsTree(V) /\ NoBlock \notin V /\ V \subseteq BlockId
  BY ValidIsTree DEF IsTree
<1> HIDE DEF V
<1>2. \A x \in V : Prev(x) \in S /\ (x # Genesis => Prev(x) \in V)
  BY <1>1, BlockTypes DEF IsTree
<1>3. Descends(S, Base, parent)
  <2>1. ASSUME NEW U \in SUBSET S, U # {}
        PROVE  \E x \in U : x \in Base \/ parent[x] \notin U
    <3>1. CASE U \subseteq V
      <4>1. PICK x \in U : x \in {Genesis} \/ [y \in BlockId |-> Prev(y)][x] \notin U
        BY <1>1, <2>1, <3>1, BlocksDescend DEF Descends
      <4>2. CASE x = Genesis
        BY <1>1, <3>1, <4>2, BlockTypes
      <4>3. CASE x # Genesis
        BY <1>1, <3>1, <4>1, <4>3
      <4> QED  BY <4>2, <4>3
    <3>2. CASE ~(U \subseteq V)
      BY <3>2
    <3> QED  BY <3>1, <3>2
  <2> QED  BY <1>2, <2>1 DEF Descends
<1>4. PICK f \in [S -> Seq(BlockId)] : Solves(f, S, Base, parent, base, next)
  <2>1. \A x \in S \cap Base : base[x] \in Seq(BlockId)
    OBVIOUS
  <2>2. \A x \in S \ Base : \A v \in Seq(BlockId) : next[x][v] \in Seq(BlockId)
    BY <1>1
  <2> HIDE DEF parent, base, next, Base, S
  <2> QED  BY <1>3, <2>1, <2>2, ParentRecursion
<1>5. ASSUME NEW x \in S
      PROVE  f[x] = IF x \in V THEN Append(f[Prev(x)], x) ELSE <<>>
  <2>1. f[x] = IF x \in Base THEN base[x] ELSE next[x][f[parent[x]]]
    BY <1>4 DEF Solves
  <2>2. x \in V => f[Prev(x)] \in Seq(BlockId)
    BY <1>2
  <2> QED  BY <2>1, <2>2
<1>6. Equation(f)
  BY <1>5
<1> DEFINE walk == CHOOSE g : Equation(g)
<1>7. Ancestry(h, b) = walk[b]
  BY DEF Ancestry, V
<1> HIDE DEF Equation
<1>8. Equation(walk)
  BY <1>6
<1> HIDE DEF walk
<1>9. \A x \in S : walk[x] = IF x \in V THEN Append(walk[Prev(x)], x) ELSE <<>>
  BY <1>8 DEF Equation
<1> DEFINE P == {x \in BlockId : x \in V => walk[x] = PathTo[x]}
<1>10. Genesis \in P
  <2>1. walk[Genesis] = Append(walk[NoBlock], Genesis) /\ walk[NoBlock] = <<>>
    BY <1>1, <1>9, BlockTypes DEF IsTree
  <2>2. Append(<<>>, Genesis) = <<Genesis>>
    OBVIOUS
  <2> QED  BY <2>1, <2>2, PathToEquation, BlockTypes
<1>11. \A x \in BlockId \ {Genesis} : Prev(x) \in P => x \in P
  BY <1>2, <1>9, PathToEquation
<1> HIDE DEF P
<1>12. b \in P
  BY <1>10, <1>11, BlockInduction, <1>1 DEF V
<1> QED  BY <1>7, <1>12 DEF P, V

\* confirmed_chain fills every slot, with the path to the leading block.
LEMMA ConfirmedChainIsPath ==
  ASSUME NEW h \in Hub, FormsTree(h), h.leading_block \in h.valid_blocks,
         NEW s \in 0 .. Seqno(h.leading_block)
  PROVE  ConfirmedChain(h)[s] = PathTo[h.leading_block][s + 1]
<1> DEFINE l == h.leading_block
<1>1. IsTree(h.valid_blocks) /\ l \in BlockId /\ Seqno(l) \in Nat
  BY ValidIsTree, BlockTypes DEF Hub
<1>2. PathTo[l] \in Seq(BlockId) /\ Len(PathTo[l]) = Seqno(l) + 1
  BY <1>1, PathToEquation, TreePath
<1>3. ASSUME NEW i \in DOMAIN PathTo[l], Seqno(PathTo[l][i]) = s PROVE i = s + 1
  <2>1. i \in 1 .. Seqno(l) + 1
    BY <1>1, <1>2
  <2>2. i - 1 \in 0 .. Seqno(l) /\ (i - 1) + 1 = i
    BY <1>1, <2>1
  <2>3. Seqno(PathTo[l][(i - 1) + 1]) = i - 1
    BY <1>1, <2>2, TreePath
  <2> QED  BY <1>3, <2>1, <2>2, <2>3
<1>4. s + 1 \in DOMAIN PathTo[l] /\ Seqno(PathTo[l][s + 1]) = s
  BY <1>1, <1>2, TreePath
<1>5. (CHOOSE i \in DOMAIN PathTo[l] : Seqno(PathTo[l][i]) = s) = s + 1
  BY <1>3, <1>4
<1> QED  BY <1>5, AncestryIsPath DEF ConfirmedChain

\* The walk of block_root from a block that is not valid does not end at a valid
\* block, if nobody waits for a valid block; so it does not end at genesis.
LEMMA RootIsMissing ==
  ASSUME NEW h \in Hub, FormsTree(h),
         \A x \in h.unconfirmed_blocks : Prev(x) \notin h.valid_blocks,
         NEW b \in BlockId, b \notin h.valid_blocks
  PROVE  BlockRoot(h, b) = b
<1> DEFINE U == h.unconfirmed_blocks
           Base == {x \in BlockId : x = Genesis \/ x \notin U}
           parent == [x \in BlockId |-> Prev(x)]
           base == [x \in Base |-> x]
           next == [x \in BlockId |-> [v \in BlockId |-> v]]
           Equation(f) ==
             f = [x \in BlockId |-> IF x = Genesis \/ x \notin U THEN x ELSE f[Prev(x)]]
<1>1. Descends(BlockId, Base, parent)
  BY BlocksDescend DEF Descends
<1>2. PICK f \in [BlockId -> BlockId] : Solves(f, BlockId, Base, parent, base, next)
  <2>1. \A x \in BlockId \cap Base : base[x] \in BlockId
    OBVIOUS
  <2>2. \A x \in BlockId \ Base : \A v \in BlockId : next[x][v] \in BlockId
    OBVIOUS
  <2> HIDE DEF parent, base, next, Base
  <2> QED  BY <1>1, <2>1, <2>2, ParentRecursion
<1>3. ASSUME NEW x \in BlockId
      PROVE  f[x] = IF x = Genesis \/ x \notin U THEN x ELSE f[Prev(x)]
  <2>1. f[x] = IF x \in Base THEN base[x] ELSE next[x][f[parent[x]]]
    BY <1>2 DEF Solves
  <2>2. x # Genesis => f[Prev(x)] \in BlockId
    BY BlockTypes
  <2> QED  BY <2>1, <2>2
<1>4. Equation(f)
  BY <1>3
<1> DEFINE end == CHOOSE g : Equation(g)
<1>5. BlockRoot(h, b) = IF end[b] = Genesis THEN Genesis ELSE b
  BY DEF BlockRoot
<1> HIDE DEF Equation
<1>6. Equation(end)
  BY <1>4
<1> HIDE DEF end
<1>7. \A x \in BlockId : end[x] = IF x = Genesis \/ x \notin U THEN x ELSE end[Prev(x)]
  BY <1>6 DEF Equation
<1> DEFINE P == {x \in BlockId : x \notin h.valid_blocks => end[x] \notin h.valid_blocks}
<1>8. Genesis \in P
  BY BlockTypes DEF FormsTree
<1>9. \A x \in BlockId \ {Genesis} : Prev(x) \in P => x \in P
  BY <1>7
<1> HIDE DEF P
<1>10. b \in P
  BY <1>8, <1>9, BlockInduction
<1>11. end[b] # Genesis
  BY <1>10 DEF P, FormsTree
<1> QED  BY <1>5, <1>11

-----------------------------------------------------------------------------
(***************************************************************************)
(* The cash set at a valid block.                                          *)
(***************************************************************************)

\* The lists of a transaction name cash.
LEMMA ListsOfCash ==
  ASSUME NEW t \in TxnId
  PROVE  /\ Txn[t].inputs \in Seq(Cash) /\ Txn[t].outputs \in Seq(Cash)
         /\ Inputs(t) \subseteq Cash /\ Outputs(t) \subseteq Cash
<1>1. Txn[t].inputs \in Seq(Cash) /\ Txn[t].outputs \in Seq(Cash)
  BY MoneyAssumption DEF TransactionInner
<1>2. /\ \A i \in DOMAIN Txn[t].inputs : Txn[t].inputs[i] \in Cash
      /\ \A i \in DOMAIN Txn[t].outputs : Txn[t].outputs[i] \in Cash
  BY <1>1
<1> QED  BY <1>1, <1>2 DEF Inputs, Outputs

\* What a block spends and leaves is cash.
LEMMA MovesCash ==
  ASSUME NEW b \in BlockId
  PROVE  Leaves(b) \subseteq Cash /\ Spends(b) \subseteq Cash
<1>1. Block[b].transactions \in Seq(TxnId) /\ Block[b].reward \in Cash
  BY BlockTypes
<1>2. \A i \in DOMAIN Block[b].transactions : Block[b].transactions[i] \in TxnId
  BY <1>1
<1>3. \A t \in TxnId : Inputs(t) \subseteq Cash /\ Outputs(t) \subseteq Cash
  BY ListsOfCash
<1> QED  BY <1>1, <1>2, <1>3 DEF Leaves, Spends, Transactions

\* It holds the cash that is unspent on the chain to the block, whatever it held
\* before; and nothing that was neither there before nor left by that chain.
LEMMA CashSetCovers ==
  ASSUME NEW h \in Hub, FormsTree(h), NEW b \in h.valid_blocks
  PROVE  /\ Unspent(b) \subseteq CashSetAt(h, b)
         /\ CashSetAt(h, b) \subseteq h.cash_set \cup UNION {Leaves(x) : x \in OnPath(b)}
         /\ CashSetAt(h, b) \cap UNION {Spends(x) : x \in OnPath(b)}
              \subseteq UNION {Leaves(x) : x \in OnPath(b)}
<1> DEFINE path == Append(Ancestry(h, b), b)
<1>1. b \in BlockId /\ PathTo[b] \in Seq(BlockId) /\ path = Append(PathTo[b], b)
  BY AncestryIsPath, PathToEquation DEF Hub
<1>2. CashSetAt(h, b) =
        {c \in Cash :
           \/ \E i \in DOMAIN path :
                /\ c \in Leaves(path[i])
                /\ \A j \in DOMAIN path : j > i => c \notin Spends(path[j])
           \/ /\ c \in h.cash_set
              /\ \A i \in DOMAIN path : c \notin Spends(path[i])}
  BY DEF CashSetAt
<1> HIDE DEF path
<1>3. OnPath(b) = {path[i] : i \in DOMAIN path}
  <2>1. /\ DOMAIN path = DOMAIN PathTo[b] \cup {Len(PathTo[b]) + 1}
        /\ path[Len(PathTo[b]) + 1] = b
        /\ \A i \in DOMAIN PathTo[b] : path[i] = PathTo[b][i]
    BY <1>1
  <2>2. {path[i] : i \in DOMAIN path} = OnPath(b) \cup {b}
    BY <2>1 DEF OnPath
  <2> QED  BY <1>1, <2>2, OnPathHolds
<1>4. ASSUME NEW c \in Unspent(b) PROVE c \in CashSetAt(h, b)
  <2>1. PICK x \in OnPath(b) : c \in Leaves(x)
    BY <1>4 DEF Unspent
  <2>2. c \notin UNION {Spends(y) : y \in OnPath(b)}
    BY <1>4 DEF Unspent
  <2>3. PICK i \in DOMAIN path : x = path[i]
    BY <1>3, <2>1
  <2>4. \A j \in DOMAIN path : c \notin Spends(path[j])
    BY <1>3, <2>2
  <2>5. c \in Cash
    BY <1>1, <2>1, OnPathHolds, MovesCash
  <2> QED  BY <1>2, <2>1, <2>3, <2>4, <2>5
<1>5. CashSetAt(h, b) \subseteq h.cash_set \cup UNION {Leaves(x) : x \in OnPath(b)}
  BY <1>3, <1>2
<1>6. ASSUME NEW c \in CashSetAt(h, b), NEW x \in OnPath(b), c \in Spends(x)
      PROVE  c \in UNION {Leaves(y) : y \in OnPath(b)}
  <2>1. PICK i \in DOMAIN path : x = path[i]
    BY <1>3
  <2>2. PICK j \in DOMAIN path : c \in Leaves(path[j])
    BY <1>2, <1>6, <2>1
  <2> QED  BY <1>3, <2>2
<1> QED  BY <1>4, <1>5, <1>6

-----------------------------------------------------------------------------
(***************************************************************************)
(* The adjustment block, when the branches agree about it.                 *)
(***************************************************************************)

\* No block is disputed: branches agree about the adjustment blocks below the
\* blocks that are judged.
AgreeOnAdjustments(h) == \A b \in BlockId : ~Disputed(h, b)

\* A dispute does not end.
LEMMA DisputesStay ==
  ASSUME NEW h, NEW g, h.valid_blocks \subseteq g.valid_blocks
  PROVE  /\ \A b : Disputed(h, b) => Disputed(g, b)
         /\ AgreeOnAdjustments(g) => AgreeOnAdjustments(h)
BY DEF Disputed, Rival, AgreeOnAdjustments

\* A period before an adjustment there was one.
LEMMA PeriodBefore ==
  ASSUME NEW s \in Nat, s > 0, IsAdjustment(s)
  PROVE  /\ RewindNumber(s) = Period
         /\ s - Period \in 0 .. s - 1
         /\ IsAdjustment(s - Period)
<1>1. Period \in Nat /\ Period > 0
  BY PeriodAssumption
<1>2. RewindNumber(s) = Period /\ Period \in 1 .. s
  BY RewindStaysOnChain DEF RewindNumber
<1> DEFINE q == s \div Period
<1>3. q \in Int /\ s = Period * q
  BY <1>1, Z3 DEF IsAdjustment
<1>4. s - Period = Period * (q - 1)
  BY <1>1, <1>3, Z3
<1>5. (s - Period) % Period = 0
  <2> DEFINE q2 == (s - Period) \div Period
             r2 == (s - Period) % Period
  <2>1. q2 \in Int /\ r2 \in 0 .. Period - 1 /\ s - Period = Period * q2 + r2
    BY <1>1, <1>2, Z3
  <2> HIDE DEF q2, r2
  <2>2. Period * (q - 1 - q2) = r2
    BY <1>1, <1>3, <1>4, <2>1, Z3
  <2>3. q - 1 - q2 < 1 /\ q - 1 - q2 > -1
    BY <1>1, <1>3, <2>1, <2>2, Z3
  <2>4. r2 = 0
    BY <1>1, <1>3, <2>1, <2>2, <2>3, Z3
  <2> QED  BY <2>4 DEF r2
<1> QED  BY <1>1, <1>2, <1>5 DEF IsAdjustment

\* A valid block a period below b which is on its chain is its adjustment block.
LEMMA StartOfPeriod ==
  ASSUME NEW h \in Hub, FormsTree(h),
         NEW b \in BlockId \ {Genesis}, Prev(b) \in h.valid_blocks,
         Seqno(b) = Seqno(Prev(b)) + 1, IsAdjustment(Seqno(b)), ~Rival(h, b),
         NEW v \in h.valid_blocks, Seqno(v) = Seqno(b) - RewindNumber(Seqno(b))
  PROVE  /\ v = PathTo[Prev(b)][Seqno(b) - Period + 1]
         /\ v \in OnPath(Prev(b))
<1> DEFINE p == Prev(b)
           s == Seqno(b)
<1>1. /\ IsTree(h.valid_blocks) /\ p \in BlockId /\ b \in BlockId /\ v \in BlockId
      /\ Seqno(p) \in Nat /\ s \in Nat /\ s > 0 /\ Seqno(v) \in Nat
  <2>1. p \in BlockId /\ v \in BlockId
    BY DEF Hub
  <2>2. Seqno(p) \in Nat /\ s \in Nat /\ Seqno(v) \in Nat
    BY <2>1, BlockTypes
  <2>3. s > 0
    BY <2>2
  <2> QED  BY <2>1, <2>2, <2>3, ValidIsTree
<1>2. RewindNumber(s) = Period /\ s - Period \in 0 .. s - 1
  BY <1>1, PeriodBefore
<1>3. v \in OnPath(b)
  BY DEF Rival
<1>4. v # b
  BY <1>1, <1>2
<1>5. v \in OnPath(p)
  BY <1>3, <1>4, OnPathSteps
<1>6. PathTo[p][Seqno(v) + 1] = v
  BY <1>1, <1>5, PathIndex
<1> QED  BY <1>2, <1>5, <1>6

\* So the target validate_block expects of b is that of its own chain.
LEMMA ExpectedWithoutRival ==
  ASSUME NEW h \in Hub, FormsTree(h), HighestLeads(h),
         NEW b \in BlockId \ {Genesis}, Prev(b) \in h.valid_blocks, FollowsParent(b),
         ~Rival(h, b)
  PROVE  /\ ~SpanUnderflows(h, b)
         /\ ExpectedDifficulty(h, b) = OwnChainDifficulty(b)
<1> DEFINE p == Prev(b)
           s == Seqno(b)
           l == h.leading_block
           a == PrevAdjustedBlock(h, s)
<1>1. /\ IsTree(h.valid_blocks) /\ p \in BlockId /\ l \in h.valid_blocks /\ l \in BlockId
      /\ Seqno(p) \in Nat /\ Seqno(l) \in Nat /\ Seqno(p) <= Seqno(l)
      /\ s = Seqno(p) + 1 /\ Timestamp(p) <= Timestamp(b)
      /\ Timestamp(b) \in Nat /\ Timestamp(p) \in Nat
  BY ValidIsTree, BlockTypes DEF Hub, HighestLeads, FollowsParent
<1>2. CASE IsAdjustment(s)
  <2>1. s - RewindNumber(s) \in 0 .. Seqno(l)
    BY <1>1, <1>2, PeriodBefore
  <2>2. a = PathTo[l][(s - RewindNumber(s)) + 1]
    BY <1>1, <2>1, ConfirmedChainIsPath DEF PrevAdjustedBlock
  <2>3. a \in h.valid_blocks /\ Seqno(a) = s - RewindNumber(s)
    BY <1>1, <2>1, <2>2, PathMember, TreePath
  <2>4. a = PathTo[p][s - Period + 1] /\ a \in OnPath(p)
    BY <1>1, <1>2, <2>3, StartOfPeriod
  <2>5. Timestamp(a) <= Timestamp(p) /\ Timestamp(a) \in Nat
    BY <1>1, <2>4, TreePath, OnPathHolds, BlockTypes
  <2>6. ~(Timestamp(b) < Timestamp(a))
    BY <1>1, <2>5
  <2> QED
    BY <1>2, <2>4, <2>6 DEF SpanUnderflows, ExpectedDifficulty, OwnChainDifficulty
<1>3. CASE ~IsAdjustment(s)
  BY <1>3 DEF SpanUnderflows, ExpectedDifficulty, OwnChainDifficulty
<1> QED  BY <1>2, <1>3

\* Every block that waits for b, directly or not, descends from it.
LEMMA WaitersDescend ==
  ASSUME NEW h \in Hub, Indexed(h), NEW b \in BlockId, NEW x \in WaitingOn(h, b)
  PROVE  b \in OnPath(x)
<1> DEFINE waiting == {b} \cup UNION {h.next_blocks[p] : p \in BlockId}
           S == {y \in waiting : b \in OnPath(y)}
<1>1. h.next_blocks \in [BlockId -> SUBSET BlockId]
  BY DEF Hub
<1>2. b \in S
  BY OnPathHolds
<1>3. ASSUME NEW y \in S, NEW z \in h.next_blocks[y] PROVE z \in S
  <2>1. y \in BlockId /\ z \in BlockId /\ z \in waiting
    BY <1>1, <1>3
  <2>2. Prev(z) = y
    BY <2>1 DEF Indexed
  <2>3. OnPath(y) \subseteq OnPath(z)
    BY <2>1, <2>2, OnPathSteps, BlockTypes
  <2> QED  BY <2>1, <2>3
<1>4. \A y \in S : h.next_blocks[y] \subseteq S
  BY <1>3
<1>5. S \subseteq waiting
  OBVIOUS
<1> HIDE DEF S
<1>6. x \in S
  BY <1>2, <1>4, <1>5 DEF WaitingOn
<1> QED  BY <1>6 DEF S

-----------------------------------------------------------------------------
(***************************************************************************)
(* Why a block becomes valid or invalid.                                   *)
(***************************************************************************)

\* Unless b is disputed: b is accepted only if it extends its own chain well, but for
\* whether its inputs are its chain's; what turns invalid descends from b, and b
\* does not extend its chain well or came `early`.  The hub stops only where b is
\* disputed and the span of its period underflows.
JudgeStep(h, b, early, g) ==
  /\ \A x \in g.valid_blocks \ h.valid_blocks :
       /\ x = b /\ Prev(b) \in h.valid_blocks /\ FollowsParent(b)
       /\ Disputed(h, b) \/ Block[b].difficulty = OwnChainDifficulty(b)
       /\ RewardIsRight(b)
  /\ \A x \in g.invalid_blocks \ h.invalid_blocks :
       b \in OnPath(x) /\ (early \/ Disputed(h, b) \/ ~ExtendsWell(b))
  /\ (Disputed(h, b) /\ SpanUnderflows(h, b)) \/ g.running = h.running

LEMMA ValidateJudges ==
  ASSUME NEW h \in Hub, PoolInv(h), NEW b \in BlockId \ {Genesis}, NEW depth
  PROVE  JudgeStep(h, b, FALSE, ValidateBlock(h, b, depth))
<1> DEFINE g == ValidateBlock(h, b, depth)
           c == [h EXCEPT !.cash_set = CashSetAt(h, Prev(b))]
<1> SUFFICES JudgeStep(h, b, FALSE, g)
  OBVIOUS
<1>1. FormsTree(h) /\ HighestLeads(h) /\ Indexed(h)
  BY DEF PoolInv
<1>2. /\ c.valid_blocks = h.valid_blocks /\ c.invalid_blocks = h.invalid_blocks
      /\ c.next_blocks = h.next_blocks /\ c.running = h.running
      /\ c.cash_set = CashSetAt(h, Prev(b))
      /\ c \in Hub
  BY CashSetMoves DEF Hub
<1>3. ASSUME NEW x, x = h \/ x = c, g = AddInvalidBlock(x, b),
             Disputed(h, b) \/ ~ExtendsWell(b)
      PROVE  JudgeStep(h, b, FALSE, g)
  <2> HIDE DEF g, c
  <2>1. /\ x.valid_blocks = h.valid_blocks /\ x.invalid_blocks = h.invalid_blocks
        /\ x.running = h.running /\ WaitingOn(x, b) = WaitingOn(h, b) /\ x \in Hub
    BY <1>2, <1>3 DEF WaitingOn
  <2>2. /\ g.valid_blocks = h.valid_blocks /\ g.running = h.running
        /\ g.invalid_blocks = h.invalid_blocks \cup WaitingOn(h, b)
    BY <1>3, <2>1 DEF AddInvalidBlock, Hub
  <2> QED  BY <1>1, <1>3, <2>2, WaitersDescend DEF JudgeStep
<1>4. ASSUME g = AddValidBlock(c, b, depth), Prev(b) \in h.valid_blocks, FollowsParent(b),
             Disputed(h, b) \/ Block[b].difficulty = OwnChainDifficulty(b),
             RewardIsRight(b)
      PROVE  JudgeStep(h, b, FALSE, g)
  <2> HIDE DEF g, c
  <2>1. /\ g.valid_blocks = h.valid_blocks \cup {b}
        /\ g.invalid_blocks = h.invalid_blocks /\ g.running = h.running
    BY <1>2, <1>4 DEF AddValidBlock, Hub
  <2> QED  BY <1>4, <2>1 DEF JudgeStep
<1>5. CASE Prev(b) \notin h.valid_blocks
  <2>1. g = AddUnconfirmedBlock(h, b)
    BY <1>5 DEF ValidateBlock
  <2> HIDE DEF g
  <2> QED  BY <2>1 DEF AddUnconfirmedBlock, JudgeStep, Hub
<1>6. CASE Prev(b) \in h.valid_blocks /\ ~FollowsParent(b)
  <2>1. ~ExtendsWell(b)
    BY <1>6 DEF ExtendsWell, FollowsParent
  <2>2. g = AddInvalidBlock(h, b)
    BY <1>6 DEF ValidateBlock
  <2> HIDE DEF g, c
  <2> QED  BY <1>3, <2>1, <2>2
<1>7. CASE Prev(b) \in h.valid_blocks /\ FollowsParent(b) /\ Rival(h, b)
  <2>1. Disputed(h, b)
    BY <1>7 DEF Disputed
  <2>2. \/ g = Stop(h) /\ SpanUnderflows(h, b)
        \/ g = AddInvalidBlock(h, b) \/ g = AddInvalidBlock(c, b)
        \/ g = AddValidBlock(c, b, depth) /\ RewardIsRight(b)
    BY <1>7 DEF ValidateBlock
  <2> HIDE DEF g, c
  <2>3. CASE g = Stop(h) /\ SpanUnderflows(h, b)
    BY <2>1, <2>3 DEF Stop, JudgeStep, Hub
  <2> QED  BY <1>3, <1>4, <1>7, <2>1, <2>2, <2>3
<1>8. CASE Prev(b) \in h.valid_blocks /\ FollowsParent(b) /\ ~Rival(h, b)
  <2>1. ~SpanUnderflows(h, b) /\ ExpectedDifficulty(h, b) = OwnChainDifficulty(b)
    BY <1>1, <1>8, ExpectedWithoutRival
  <2>2. CASE Block[b].difficulty # OwnChainDifficulty(b)
    <3>1. g = AddInvalidBlock(h, b)
      BY <1>8, <2>1, <2>2 DEF ValidateBlock
    <3> HIDE DEF g, c
    <3> QED  BY <1>3, <2>2, <3>1 DEF ExtendsWell
  <2>3. CASE /\ Block[b].difficulty = OwnChainDifficulty(b)
             /\ ~(InputsAvailable(c, b) /\ RewardIsRight(b))
    <3>1. g = AddInvalidBlock(c, b)
      BY <1>8, <2>1, <2>3 DEF ValidateBlock
    <3> HIDE DEF g, c
    <3>2. Unspent(Prev(b)) \subseteq CashSetAt(h, Prev(b))
      BY <1>1, <1>8, CashSetCovers
    <3>3. ~ExtendsWell(b)
      BY <1>2, <2>3, <3>2 DEF ExtendsWell, InputsAvailable, RewardIsRight
    <3> QED  BY <1>3, <3>1, <3>3
  <2>4. CASE /\ Block[b].difficulty = OwnChainDifficulty(b)
             /\ InputsAvailable(c, b) /\ RewardIsRight(b)
    <3>1. g = AddValidBlock(c, b, depth)
      BY <1>8, <2>1, <2>4 DEF ValidateBlock
    <3> HIDE DEF g, c
    <3> QED  BY <1>4, <1>8, <2>4, <3>1
  <2> QED  BY <2>2, <2>3, <2>4
<1> QED  BY <1>5, <1>6, <1>7, <1>8

\* Between two messages nobody waits for a valid block.
LEMMA NoneStranded ==
  ASSUME NEW h \in Hub, PoolInv(h), Idle(h), NEW b \in h.unconfirmed_blocks
  PROVE  Prev(b) \notin h.valid_blocks
<1> SUFFICES ASSUME Prev(b) \in h.valid_blocks PROVE FALSE
  OBVIOUS
<1>1. b \in BlockId /\ Prev(b) \in BlockId
  BY DEF Hub
<1>2. h.pending[b] = 0
  BY <1>1 DEF PoolInv, ResultOpen, Idle
<1>3. b \notin h.next_blocks[Prev(b)]
  BY <1>1 DEF PoolInv, Indexed
<1>4. b \in h.invalid_blocks
  BY <1>2, <1>3 DEF PoolInv, Indexed
<1> QED  BY <1>4 DEF PoolInv, DoomedByParent, Separate

\* The NewBlock handler up to its loops: the missing block that an orphan asks for
\* is never genesis, and the peer that sent it is in the table.
LEMMA NewBlockJudges ==
  ASSUME NEW h \in Hub, PoolInv(h), Idle(h),
         NEW from \in h.peers \cup {NoNode}, NEW b \in BlockId, NEW t
  PROVE  JudgeStep(h, b, Timestamp(b) > t, HandleNewBlock(h, from, b, t).hub)
<1> DEFINE early == Timestamp(b) > t
           g == ValidateBlock(h, b, 0)
           i == AddInvalidBlock(h, b)
           root == BlockRoot(g, Prev(b))
           request == [type |-> "GetBlockRequest", id |-> root]
           r == HandleNewBlock(h, from, b, t).hub
<1> SUFFICES JudgeStep(h, b, early, r)
  OBVIOUS
<1>1. CASE KnowsBlock(h, b)
  BY <1>1 DEF HandleNewBlock, Done, JudgeStep
<1>2. CASE ~KnowsBlock(h, b) /\ early
  <2>1. r = i
    BY <1>2 DEF HandleNewBlock, Done
  <2>2. /\ i.valid_blocks = h.valid_blocks /\ i.running = h.running
        /\ i.invalid_blocks = h.invalid_blocks \cup WaitingOn(h, b)
    BY DEF AddInvalidBlock, Hub
  <2> HIDE DEF i, r, early
  <2>3. \A x \in WaitingOn(h, b) : b \in OnPath(x)
    BY WaitersDescend DEF PoolInv
  <2> QED  BY <1>2, <2>1, <2>2, <2>3 DEF JudgeStep
<1>3. CASE ~KnowsBlock(h, b) /\ ~early
  <2>1. b # Genesis /\ Prev(b) \in BlockId
    BY <1>3, BlockTypes DEF KnowsBlock, PoolInv, FormsTree
  <2>2. JudgeStep(h, b, FALSE, g)
    BY <2>1, ValidateJudges
  <2>3. g.peers = h.peers
    BY ValidateMovesOnly DEF MovesOnly
  <2>4. CASE b \notin g.unconfirmed_blocks
    <3>1. r = g
      BY <1>3, <2>4 DEF HandleNewBlock, Done
    <3> HIDE DEF g, r, early
    <3> QED  BY <2>2, <3>1 DEF JudgeStep
  <2>5. CASE b \in g.unconfirmed_blocks
    <3>1. Prev(b) \notin h.valid_blocks
      BY <1>3, <2>5, ValidateMovesOnly DEF MovesOnly, KnowsBlock
    <3>2. g = AddUnconfirmedBlock(h, b)
      BY <3>1 DEF ValidateBlock
    <3>3. /\ g \in Hub /\ g.valid_blocks = h.valid_blocks
          /\ g.unconfirmed_blocks = h.unconfirmed_blocks \cup {b}
      <4>1. Fresh(h, b)
        BY <1>3, UnknownIsFresh
      <4>2. g \in Hub
        BY <4>1, ValidateKeepsPools
      <4> HIDE DEF g
      <4> QED  BY <3>2, <4>2 DEF AddUnconfirmedBlock, Hub
    <3> HIDE DEF g
    <3>4. FormsTree(g)
      BY <3>3 DEF PoolInv, FormsTree
    <3>5. \A x \in g.unconfirmed_blocks : Prev(x) \notin g.valid_blocks
      BY <3>1, <3>3, NoneStranded
    <3>6. root = Prev(b)
      BY <2>1, <3>1, <3>3, <3>4, <3>5, RootIsMissing
    <3>7. root # Genesis
      BY <3>1, <3>6 DEF PoolInv, FormsTree
    <3> HIDE DEF root
    <3>8. r = g \/ (from \in h.peers /\ r = SendToPeer(g, from, request).hub)
      BY <1>3, <2>5, <3>7 DEF HandleNewBlock, Done, root, g
    <3>9. r = g
      BY <2>3, <3>8 DEF SendToPeer
    <3> HIDE DEF r, early
    <3> QED  BY <2>2, <3>9 DEF JudgeStep
  <2> QED  BY <2>4, <2>5
<1> QED  BY <1>1, <1>2, <1>3

\* One turn of the loop of add_valid_block.
LEMMA PendingJudges ==
  ASSUME NEW h \in Hub, PoolInv(h), NEW b \in BlockId, h.pending[b] > 0
  PROVE  JudgeStep(h, b, FALSE, ValidatePending(h, b))
<1> DEFINE g == [h EXCEPT !.pending[b] = 0, !.unconfirmed_blocks = @ \ {b}]
           r == ValidateBlock(g, b, h.pending[b])
<1>1. /\ g \in Hub /\ PoolInv(g) /\ Fresh(g, b)
      /\ g.valid_blocks = h.valid_blocks
      /\ g.invalid_blocks = h.invalid_blocks
      /\ g.leading_block = h.leading_block
      /\ b \in h.unconfirmed_blocks
  BY PendingIsFresh
<1>2. g.running = h.running
  BY DEF Hub
<1>3. ValidatePending(h, b) = r
  BY <1>1 DEF ValidatePending, Hub
<1> HIDE DEF g
<1>4. /\ Disputed(g, b) <=> Disputed(h, b)
      /\ SpanUnderflows(g, b) <=> SpanUnderflows(h, b)
  <2>1. Ancestry(g, g.leading_block) = Ancestry(h, h.leading_block)
        /\ g.leading_block = h.leading_block
    BY <1>1 DEF Ancestry
  <2> QED
    BY <1>1, <2>1
       DEF Disputed, Rival, SpanUnderflows, PrevAdjustedBlock, ConfirmedChain
<1>5. b # Genesis
  BY <1>1 DEF PoolInv, FormsTree, Separate
<1>6. JudgeStep(g, b, FALSE, r)
  BY <1>1, <1>5, ValidateJudges
<1> HIDE DEF r
<1> QED  BY <1>1, <1>2, <1>3, <1>4, <1>6 DEF JudgeStep

-----------------------------------------------------------------------------
(***************************************************************************)
(* The cash set, and the cash of a chain.                                  *)
(***************************************************************************)

\* What validation does to the cash set: it may move to a valid block.
CashStep(h, g) ==
  \/ g.cash_set = h.cash_set
  \/ \E p \in h.valid_blocks : g.cash_set = CashSetAt(h, p)

LEMMA ValidateCash ==
  ASSUME NEW h \in Hub, NEW b \in BlockId, NEW depth
  PROVE  CashStep(h, ValidateBlock(h, b, depth))
<1> DEFINE g == ValidateBlock(h, b, depth)
           C == CashSetAt(h, Prev(b))
           c == [h EXCEPT !.cash_set = C]
<1> SUFFICES CashStep(h, g)
  OBVIOUS
<1>1. C \in SUBSET Cash
  BY DEF CashSetAt
<1>2. \/ g = AddUnconfirmedBlock(h, b) \/ g = AddInvalidBlock(h, b) \/ g = Stop(h)
      \/ /\ Prev(b) \in h.valid_blocks
         /\ g = AddValidBlock(c, b, depth) \/ g = AddInvalidBlock(c, b)
  BY DEF ValidateBlock
<1> HIDE DEF g
<1>3. c \in Hub /\ c.cash_set = C
  BY <1>1 DEF Hub
<1> HIDE DEF c, C
<1>4. CASE g = AddUnconfirmedBlock(h, b) \/ g = AddInvalidBlock(h, b) \/ g = Stop(h)
  BY <1>4 DEF AddUnconfirmedBlock, AddInvalidBlock, Stop, Hub, CashStep
<1>5. CASE /\ Prev(b) \in h.valid_blocks
           /\ g = AddValidBlock(c, b, depth) \/ g = AddInvalidBlock(c, b)
  <2>1. g.cash_set = C
    BY <1>3, <1>5 DEF AddValidBlock, AddInvalidBlock, Hub
  <2> QED  BY <1>5, <2>1 DEF CashStep, C
<1> QED  BY <1>2, <1>4, <1>5

LEMMA NewBlockCash ==
  ASSUME NEW h \in Hub, PoolInv(h), Idle(h), NEW from, NEW b \in BlockId, NEW t
  PROVE  CashStep(h, HandleNewBlock(h, from, b, t).hub)
<1> DEFINE g == ValidateBlock(h, b, 0)
           i == AddInvalidBlock(h, b)
           r == HandleNewBlock(h, from, b, t).hub
<1> SUFFICES CashStep(h, r)
  OBVIOUS
<1>1. CASE KnowsBlock(h, b)
  BY <1>1 DEF HandleNewBlock, Done, CashStep
<1>2. CASE ~KnowsBlock(h, b)
  <2>1. g \in Hub /\ CashStep(h, g)
    BY <1>2, UnknownIsFresh, ValidateKeepsPools, ValidateCash
  <2>2. i.cash_set = h.cash_set
    BY DEF AddInvalidBlock, Hub
  <2>3. r = i \/ r = g \/ r = Stop(g)
    BY <1>2 DEF HandleNewBlock, Done, Fail, SendToPeer
  <2> HIDE DEF g, i, r
  <2>4. Stop(g).cash_set = g.cash_set
    BY <2>1 DEF Stop, Hub
  <2> QED  BY <2>1, <2>2, <2>3, <2>4 DEF CashStep
<1> QED  BY <1>1, <1>2

LEMMA PendingCash ==
  ASSUME NEW h \in Hub, PoolInv(h), NEW b \in BlockId, h.pending[b] > 0
  PROVE  CashStep(h, ValidatePending(h, b))
<1> DEFINE g == [h EXCEPT !.pending[b] = 0, !.unconfirmed_blocks = @ \ {b}]
           r == ValidateBlock(g, b, h.pending[b])
<1>1. /\ g \in Hub /\ g.valid_blocks = h.valid_blocks /\ b \in h.unconfirmed_blocks
      /\ g.cash_set = h.cash_set
  BY PendingIsFresh DEF Hub
<1>2. ValidatePending(h, b) = r
  BY <1>1 DEF ValidatePending, Hub
<1> HIDE DEF g
<1>3. \A p : CashSetAt(g, p) = CashSetAt(h, p)
  BY <1>1 DEF CashSetAt, Ancestry
<1>4. CashStep(g, r)
  BY <1>1, ValidateCash
<1> HIDE DEF r
<1> QED  BY <1>1, <1>2, <1>3, <1>4 DEF CashStep

\* The cash in the set was left by valid blocks.
CashWasLeft(h) == h.cash_set \subseteq UNION {Leaves(x) : x \in h.valid_blocks}

LEMMA CashStepKeeps ==
  ASSUME NEW h \in Hub, FormsTree(h), CashWasLeft(h), NEW g, CashStep(h, g),
         h.valid_blocks \subseteq g.valid_blocks
  PROVE  CashWasLeft(g)
<1>1. ASSUME NEW p \in h.valid_blocks, g.cash_set = CashSetAt(h, p)
      PROVE  CashWasLeft(g)
  <2>1. OnPath(p) \subseteq h.valid_blocks
    BY ValidIsTree, TreePath
  <2>2. CashSetAt(h, p) \subseteq h.cash_set \cup UNION {Leaves(x) : x \in OnPath(p)}
    BY CashSetCovers
  <2> QED  BY <1>1, <2>1, <2>2 DEF CashWasLeft
<1>2. CASE g.cash_set = h.cash_set
  BY <1>2 DEF CashWasLeft
<1> QED  BY <1>1, <1>2 DEF CashStep

\* No piece of cash is created twice on the chain of a valid block.
CreatedOnce(h) ==
  \A b \in h.valid_blocks : \A x, y \in OnPath(b) :
    Leaves(x) \cap Leaves(y) # {} => x = y

\* Each valid block spends cash that is unspent on its own chain.
SpendOwn(h) ==
  \A b \in h.valid_blocks \ {Genesis} : Spends(b) \subseteq Unspent(Prev(b))

\* Then the cash set at b holds no cash that was spent on the chain to b.
LEMMA SpentIsGone ==
  ASSUME NEW h \in Hub, FormsTree(h), CreatedOnce(h), SpendOwn(h),
         NEW b \in h.valid_blocks, NEW x \in OnPath(b), NEW c \in Spends(x)
  PROVE  c \notin CashSetAt(h, b)
<1> SUFFICES ASSUME c \in CashSetAt(h, b) PROVE FALSE
  OBVIOUS
<1> DEFINE path == Append(PathTo[b], b)
           n == Seqno(b) + 1
<1>1. IsTree(h.valid_blocks) /\ b \in BlockId /\ Seqno(b) \in Nat
  BY ValidIsTree, BlockTypes DEF IsTree
<1>2. PathTo[b] \in Seq(BlockId) /\ Len(PathTo[b]) = n
  BY <1>1, PathToEquation, TreePath
<1>3. /\ DOMAIN path = 1 .. n + 1 /\ path[n + 1] = b
      /\ \A i \in 1 .. n : path[i] = PathTo[b][i]
  BY <1>1, <1>2
<1>4. \/ \E i \in DOMAIN path :
           /\ c \in Leaves(path[i])
           /\ \A j \in DOMAIN path : j > i => c \notin Spends(path[j])
      \/ \A i \in DOMAIN path : c \notin Spends(path[i])
  BY AncestryIsPath DEF CashSetAt
<1> HIDE DEF path
\* x stands at j on the path.
<1>5. /\ x \in h.valid_blocks /\ x \in BlockId
      /\ Seqno(x) \in 0 .. Seqno(b) /\ PathTo[b][Seqno(x) + 1] = x
  BY <1>1, TreePath, PathIndex DEF IsTree
<1>6. Seqno(x) + 1 \in DOMAIN path /\ path[Seqno(x) + 1] = x
  BY <1>1, <1>3, <1>5
<1>7. PICK i \in DOMAIN path :
        /\ c \in Leaves(path[i])
        /\ \A j \in DOMAIN path : j > i => c \notin Spends(path[j])
  BY <1>4, <1>6
<1>8. x # Genesis
  BY BlockAssumption DEF Spends, Transactions
\* Its cash was left below it, by the block z.
<1>9. c \in Unspent(Prev(x)) /\ Prev(x) \in h.valid_blocks /\ Seqno(x) = Seqno(Prev(x)) + 1
  BY <1>5, <1>8 DEF SpendOwn, FormsTree, FollowsParent
<1>10. PICK z \in OnPath(Prev(x)) : c \in Leaves(z)
  BY <1>9 DEF Unspent
<1>11. Seqno(z) \in 0 .. Seqno(Prev(x)) /\ z \in OnPath(b)
  BY <1>1, <1>5, <1>8, <1>9, <1>10, PathIndex, OnPathSteps, OnPathHolds
<1>12. path[i] \in OnPath(b)
  <2>1. CASE i = n + 1
    BY <1>1, <1>3, <2>1, OnPathHolds
  <2>2. CASE i \in 1 .. n
    <3>1. path[i] = PathTo[b][i] /\ i \in DOMAIN PathTo[b]
      BY <1>2, <1>3, <2>2
    <3> QED  BY <3>1 DEF OnPath
  <2> QED  BY <1>1, <1>3, <1>7, <2>1, <2>2
<1>13. path[i] = z
  BY <1>7, <1>10, <1>11, <1>12 DEF CreatedOnce
<1>14. Seqno(z) < Seqno(x)
  BY <1>5, <1>9, <1>11, BlockTypes DEF Hub
<1>15. i \in 1 .. n
  BY <1>3, <1>5, <1>13, <1>14, <1>1
<1>16. i - 1 \in 0 .. Seqno(b) /\ (i - 1) + 1 = i
  BY <1>1, <1>15
<1>17. Seqno(PathTo[b][(i - 1) + 1]) = i - 1
  BY <1>1, <1>16, TreePath
<1>18. Seqno(z) = i - 1
  BY <1>3, <1>13, <1>15, <1>16, <1>17
<1> QED  BY <1>5, <1>6, <1>7, <1>14, <1>15, <1>18

-----------------------------------------------------------------------------
(***************************************************************************)
(* Money: what a block does to the cash unspent on its chain, and the      *)
(* subsidies that cash is worth.                                           *)
(***************************************************************************)

\* The subsidy is a number: halving ends.  Genesis has the whole of it.
LEMMA SubsidyType ==
  /\ \A s \in Nat : Subsidy(s) \in Nat
  /\ Subsidy(0) = InitialSubsidy
<1> DEFINE parent == [n \in Nat |-> n - 1]
           base == [n \in {0} |-> InitialSubsidy]
           next == [n \in Nat |-> [v \in Nat |-> v \div 2]]
           Equation(f) ==
             f = [n \in Nat |-> IF n = 0 THEN InitialSubsidy ELSE f[n - 1] \div 2]
<1>1. PICK f \in [Nat -> Nat] : Solves(f, Nat, {0}, parent, base, next)
  <2>1. Descends(Nat, {0}, parent)
    BY NatDescends
  <2>2. \A n \in Nat \cap {0} : base[n] \in Nat
    BY MoneyAssumption
  <2>3. \A n \in Nat \ {0} : \A v \in Nat : next[n][v] \in Nat
    OBVIOUS
  <2> HIDE DEF parent, base, next
  <2> QED  BY <2>1, <2>2, <2>3, ParentRecursion
<1>2. ASSUME NEW n \in Nat
      PROVE  f[n] = IF n = 0 THEN InitialSubsidy ELSE f[n - 1] \div 2
  <2>1. f[n] = IF n \in {0} THEN base[n] ELSE next[n][f[parent[n]]]
    BY <1>1 DEF Solves
  <2>2. n # 0 => n - 1 \in Nat /\ f[n - 1] \in Nat
    OBVIOUS
  <2> QED  BY <2>1, <2>2
<1>3. Equation(f)
  BY <1>2
<1>4. Shifted = CHOOSE g : Equation(g)
  BY DEF Shifted
<1> HIDE DEF Equation
<1>5. Equation(Shifted)
  BY <1>3, <1>4
<1> DEFINE P == {n \in Nat : Shifted[n] \in Nat}
<1>6. Shifted = [n \in Nat |-> IF n = 0 THEN InitialSubsidy ELSE Shifted[n - 1] \div 2]
  BY <1>5 DEF Equation
<1>7. 0 \in P
  BY <1>6, MoneyAssumption
<1>8. \A n \in Nat : n \in P => n + 1 \in P
  BY <1>6
<1> HIDE DEF P
<1>9. \A n \in Nat : n \in P
  BY <1>7, <1>8, NatSetInduction
<1>10. \A s \in Nat : s \div HalfPeriod \in Nat
  BY PeriodAssumption
<1>11. 0 \div HalfPeriod = 0 /\ Shifted[0] = InitialSubsidy
  BY <1>6, PeriodAssumption
<1> QED  BY <1>9, <1>10, <1>11 DEF P, Subsidy

\* The amount of a set of cash is a sum as in Recursion.
LEMMA TotalIsSum == \A C : TotalAmount(C) = SumFunctionOnSet(Amount, C)
BY DEF TotalAmount, MapThenSumSet, SumFunctionOnSet, FoldFunctionOnSet

\* The fees of a block, as a sum over its transactions.
FeeAt(b) == [i \in DOMAIN Block[b].transactions |-> Fee(Block[b].transactions[i])]

LEMMA FeesIsSum ==
  ASSUME NEW b \in BlockId
  PROVE  Fees(b) = SumFunctionOnSet(FeeAt(b), DOMAIN Block[b].transactions)
<1> DEFINE txns == Block[b].transactions
           D == DOMAIN txns
           Q(it) == it = [s \in SUBSET D |->
                            IF s = {} THEN 0
                            ELSE Fee(txns[CHOOSE x \in s : TRUE])
                                   + it[s \ {CHOOSE x \in s : TRUE}]]
<1>1. Fees(b) = (CHOOSE it : Q(it))[D]
  BY DEF Fees, MapThenSumSet, MapThenFoldSet
<1>2. ASSUME NEW it, NEW s \in SUBSET D
      PROVE  (IF s = {} THEN 0 ELSE Fee(txns[CHOOSE x \in s : TRUE])
                                      + it[s \ {CHOOSE x \in s : TRUE}])
           = (IF s = {} THEN 0 ELSE FeeAt(b)[CHOOSE x \in s : TRUE]
                                      + it[s \ {CHOOSE x \in s : TRUE}])
  BY DEF FeeAt
<1>3. \A it : Q(it) <=> Adds(it, FeeAt(b), D)
  BY <1>2 DEF Adds
<1> HIDE DEF Q
<1>4. (CHOOSE it : Q(it)) = (CHOOSE it : Adds(it, FeeAt(b), D))
  BY <1>3
<1> QED  BY <1>1, <1>4, SumIsRecursion

\* The worth of a list, as a sum over its places.
AmountAt(s) == [i \in DOMAIN s |-> Amount[s[i]]]

LEMMA WorthIsSum ==
  ASSUME NEW s
  PROVE  Worth(s) = SumFunctionOnSet(AmountAt(s), DOMAIN s)
<1> DEFINE D == DOMAIN s
           Q(it) == it = [r \in SUBSET D |->
                            IF r = {} THEN 0
                            ELSE Amount[s[CHOOSE x \in r : TRUE]]
                                   + it[r \ {CHOOSE x \in r : TRUE}]]
<1>1. Worth(s) = (CHOOSE it : Q(it))[D]
  BY DEF Worth, MapThenSumSet, MapThenFoldSet
<1>2. ASSUME NEW it, NEW r \in SUBSET D
      PROVE  (IF r = {} THEN 0 ELSE Amount[s[CHOOSE x \in r : TRUE]]
                                      + it[r \ {CHOOSE x \in r : TRUE}])
           = (IF r = {} THEN 0 ELSE AmountAt(s)[CHOOSE x \in r : TRUE]
                                      + it[r \ {CHOOSE x \in r : TRUE}])
  BY DEF AmountAt
<1>3. \A it : Q(it) <=> Adds(it, AmountAt(s), D)
  BY <1>2 DEF Adds
<1> HIDE DEF Q
<1>4. (CHOOSE it : Q(it)) = (CHOOSE it : Adds(it, AmountAt(s), D))
  BY <1>3
<1> QED  BY <1>1, <1>4, SumIsRecursion

\* The worth of the cash of a transaction is a number, and so is its fee.
LEMMA FeeType ==
  ASSUME NEW t \in TxnId
  PROVE  Fee(t) \in Int
<1>1. ASSUME NEW s \in Seq(Cash) PROVE Worth(s) \in Int
  <2>1. DOMAIN s = 1 .. Len(s) /\ Len(s) \in Nat
    OBVIOUS
  <2>2. IsFiniteSet(DOMAIN s)
    BY <2>1, FS_Interval
  <2>3. \A i \in DOMAIN s : AmountAt(s)[i] \in Int
    BY MoneyAssumption DEF AmountAt
  <2>4. SumFunctionOnSet(AmountAt(s), DOMAIN s) \in Int
    BY <2>2, <2>3, SumStep
  <2> QED  BY <2>4, WorthIsSum
<1>2. Worth(Txn[t].inputs) \in Int /\ Worth(Txn[t].outputs) \in Int
  BY <1>1, ListsOfCash
<1> QED  BY <1>2 DEF Fee

\* A list that names nothing twice is worth the cash it names.
LEMMA WorthIsTotal ==
  ASSUME NEW s, IsFiniteSet(DOMAIN s), Distinct(s),
         \A i \in DOMAIN s : Amount[s[i]] \in Int
  PROVE  LET C == {s[i] : i \in DOMAIN s}
         IN /\ IsFiniteSet(C)
            /\ Worth(s) = TotalAmount(C) /\ TotalAmount(C) \in Int
<1> DEFINE D == DOMAIN s
           at == AmountAt(s)
           C == {s[i] : i \in D}
<1>1. Worth(s) = SumFunctionOnSet(at, D)
  BY WorthIsSum
<1>2. \A i, j \in D : s[i] = s[j] => i = j
  BY DEF Distinct
<1>3. \A i \in D : at[i] = Amount[s[i]] /\ Amount[s[i]] \in Int
  BY DEF AmountAt
<1>4. IsFiniteSet(D) /\ \A c \in C : Amount[c] \in Int
  OBVIOUS
<1> HIDE DEF D, at
<1>5. IsFiniteSet(C) /\ SumFunctionOnSet(Amount, C) = SumFunctionOnSet(at, D)
  <2>1. /\ \A i \in D : Amount[s[i]] \in Int
        /\ \A i \in D : at[i] = Amount[s[i]]
    BY <1>3
  <2>2. \A c : c \in C <=> \E i \in D : c = s[i]
    OBVIOUS
  <2> HIDE DEF C
  <2> QED  BY <1>2, <1>4, <2>1, <2>2, SumImage
<1> HIDE DEF C
<1>6. SumFunctionOnSet(Amount, C) \in Int
  BY <1>4, <1>5, SumStep
<1>7. IsFiniteSet(C) /\ Worth(s) = TotalAmount(C) /\ TotalAmount(C) \in Int
  BY <1>1, <1>5, <1>6, TotalIsSum
<1> QED  BY <1>7 DEF C, D

\* What a block leaves it has made.
LEMMA LeavesAreMade == \A b : Leaves(b) \subseteq Makes(b)
BY DEF Leaves, Makes, Transactions

\* Of a block that spends only cash unspent on the chain of its parent, each piece
\* once, and makes new cash, on a chain of such blocks: what it spends and leaves is
\* that of its transactions, and the unspent cash changes by that.
LEMMA BlockMoves ==
  ASSUME NEW V, IsTree(V), NEW b \in V \ {Genesis},
         \A x \in OnPath(b) \ {Genesis} : Spends(x) \subseteq Unspent(Prev(x)),
         NoDoubleSpend(b), MakesNewCash(b)
  PROVE  LET p == Prev(b)
             D == DOMAIN Block[b].transactions
             In(i) == Inputs(Block[b].transactions[i])
             Out(i) == Outputs(Block[b].transactions[i])
         IN /\ Spends(b) = UNION {In(i) : i \in D}
            /\ Leaves(b) = {Block[b].reward} \cup UNION {Out(i) : i \in D}
            /\ \A i, j \in D : i # j => In(i) \cap In(j) = {} /\ Out(i) \cap Out(j) = {}
            /\ \A i \in D : Block[b].reward \notin Out(i)
            /\ Spends(b) \subseteq Unspent(p)
            /\ Leaves(b) \cap Unspent(p) = {}
            /\ Unspent(b) = (Unspent(p) \ Spends(b)) \cup Leaves(b)
<1> DEFINE p == Prev(b)
           txns == Block[b].transactions
           r == Block[b].reward
           D == DOMAIN txns
           In(i) == Inputs(txns[i])
           Out(i) == Outputs(txns[i])
<1>1. /\ b \in BlockId /\ p \in V /\ p \in BlockId
      /\ OnPath(b) = OnPath(p) \cup {b} /\ OnPath(p) \subseteq V
  <2>1. b \in BlockId /\ p \in V /\ p \in BlockId
    BY BlockTypes DEF IsTree
  <2> QED  BY <2>1, OnPathSteps, TreePath
<1>2. Spends(b) \subseteq Unspent(p)
  BY <1>1
<1>3. Spends(b) = UNION {In(i) : i \in D}
  BY DEF Spends, Transactions
<1>4. \A i, j \in D : i # j => In(i) \cap In(j) = {} /\ Out(i) \cap Out(j) = {}
  BY DEF NoDoubleSpend, MakesNewCash
<1>5. \A i \in D : r \notin Out(i)
  BY DEF MakesNewCash
<1>6. r \in Makes(b) /\ \A i \in D : Out(i) \subseteq Makes(b)
  BY DEF Makes, Transactions
\* No block below b leaves, or spends, cash that b makes.
<1>7. ASSUME NEW z \in OnPath(p) PROVE Leaves(z) \cap Makes(b) = {}
  BY LeavesAreMade DEF MakesNewCash
<1>8. Unspent(p) \cap Makes(b) = {}
  BY <1>7 DEF Unspent
<1>9. ASSUME NEW z \in OnPath(p), NEW c \in Spends(z) PROVE c \notin Makes(b)
  <2>1. z \in V /\ z \in OnPath(b)
    BY <1>1
  <2>2. z # Genesis
    BY BlockAssumption DEF Spends, Transactions
  <2>3. c \in Unspent(Prev(z)) /\ OnPath(z) = OnPath(Prev(z)) \cup {z} /\ z \in BlockId
    BY <2>1, <2>2, OnPathSteps DEF IsTree
  <2>4. PICK y \in OnPath(Prev(z)) : c \in Leaves(y)
    BY <2>3 DEF Unspent
  <2>5. y \in OnPath(p)
    BY <1>1, <2>3, <2>4, OnPathHolds
  <2> QED  BY <1>7, <2>4, <2>5
\* Nor does b spend what it makes.
<1>10. Spends(b) \cap Makes(b) = {}
  BY <1>2, <1>8
<1>11. Leaves(b) = {r} \cup UNION {Out(i) : i \in D}
  <2>1. ASSUME NEW i \in D
        PROVE  {c \in Out(i) : \A j \in D : j > i => c \notin In(j)} = Out(i)
    BY <1>3, <1>6, <1>10
  <2> QED  BY <2>1 DEF Leaves
<1>12. Leaves(b) \subseteq Makes(b)
  BY LeavesAreMade
<1> HIDE DEF p, r, In, Out
<1>13. Unspent(b) = (Unspent(p) \ Spends(b)) \cup Leaves(b)
  <2> DEFINE L == UNION {Leaves(x) : x \in OnPath(p)}
             S == UNION {Spends(x) : x \in OnPath(p)}
  <2>1. Unspent(p) = L \ S
    BY DEF Unspent
  <2>2. Unspent(b) = (L \cup Leaves(b)) \ (S \cup Spends(b))
    BY <1>1 DEF Unspent
  <2>3. \A c \in Leaves(b) : c \notin S /\ c \notin Spends(b)
    BY <1>9, <1>10, <1>12
  <2> HIDE DEF L, S
  <2> QED  BY <2>1, <2>2, <2>3
<1>14. Leaves(b) \cap Unspent(p) = {}
  BY <1>8, <1>12
<1> QED
  BY <1>2, <1>3, <1>4, <1>5, <1>11, <1>13, <1>14 DEF p, r, In, Out

\* What a step accepts claims the right reward.
RewardStep(h, g) == \A b \in g.valid_blocks \ h.valid_blocks : RewardIsRight(b)

LEMMA ValidateRewards ==
  ASSUME NEW h \in Hub, NEW b, NEW depth
  PROVE  RewardStep(h, ValidateBlock(h, b, depth))
<1> DEFINE g == ValidateBlock(h, b, depth)
           C == CashSetAt(h, Prev(b))
           c == [h EXCEPT !.cash_set = C]
<1> SUFFICES RewardStep(h, g)
  OBVIOUS
<1>1. C \in SUBSET Cash
  BY DEF CashSetAt
<1>2. \/ g = AddUnconfirmedBlock(h, b) \/ g = AddInvalidBlock(h, b) \/ g = Stop(h)
      \/ g = AddValidBlock(c, b, depth) /\ RewardIsRight(b)
      \/ g = AddInvalidBlock(c, b)
  BY DEF ValidateBlock
<1> HIDE DEF C, g
<1>3. c \in Hub /\ c.valid_blocks = h.valid_blocks
  BY <1>1 DEF Hub
<1> HIDE DEF c
<1>4. CASE g = AddUnconfirmedBlock(h, b) \/ g = AddInvalidBlock(h, b) \/ g = Stop(h)
  BY <1>4 DEF AddUnconfirmedBlock, AddInvalidBlock, Stop, Hub, RewardStep
<1>5. CASE g = AddValidBlock(c, b, depth) /\ RewardIsRight(b)
  BY <1>3, <1>5 DEF AddValidBlock, Hub, RewardStep
<1>6. CASE g = AddInvalidBlock(c, b)
  BY <1>3, <1>6 DEF AddInvalidBlock, Hub, RewardStep
<1> QED  BY <1>2, <1>4, <1>5, <1>6

LEMMA NewBlockRewards ==
  ASSUME NEW h \in Hub, PoolInv(h), Idle(h), NEW from, NEW b \in BlockId, NEW t
  PROVE  RewardStep(h, HandleNewBlock(h, from, b, t).hub)
<1> DEFINE g == ValidateBlock(h, b, 0)
           i == AddInvalidBlock(h, b)
           r == HandleNewBlock(h, from, b, t).hub
<1> SUFFICES RewardStep(h, r)
  OBVIOUS
<1>1. CASE KnowsBlock(h, b)
  BY <1>1 DEF HandleNewBlock, Done, RewardStep
<1>2. CASE ~KnowsBlock(h, b)
  <2>1. g \in Hub /\ RewardStep(h, g)
    BY <1>2, UnknownIsFresh, ValidateKeepsPools, ValidateRewards
  <2>2. RewardStep(h, i)
    BY DEF AddInvalidBlock, Hub, RewardStep
  <2>3. r = i \/ r = g \/ r = Stop(g)
    BY <1>2 DEF HandleNewBlock, Done, Fail, SendToPeer
  <2> HIDE DEF g, i, r
  <2>4. Stop(g).valid_blocks = g.valid_blocks
    BY <2>1 DEF Stop, Hub
  <2> QED  BY <2>1, <2>2, <2>3, <2>4 DEF RewardStep
<1> QED  BY <1>1, <1>2

LEMMA PendingRewards ==
  ASSUME NEW h \in Hub, PoolInv(h), NEW b \in BlockId, h.pending[b] > 0
  PROVE  RewardStep(h, ValidatePending(h, b))
<1> DEFINE g == [h EXCEPT !.pending[b] = 0, !.unconfirmed_blocks = @ \ {b}]
           r == ValidateBlock(g, b, h.pending[b])
<1>1. g \in Hub /\ g.valid_blocks = h.valid_blocks /\ b \in h.unconfirmed_blocks
  BY PendingIsFresh DEF Hub
<1>2. ValidatePending(h, b) = r
  BY <1>1 DEF ValidatePending, Hub
<1> HIDE DEF g
<1>3. RewardStep(g, r)
  BY <1>1, ValidateRewards
<1> HIDE DEF r
<1> QED  BY <1>1, <1>2, <1>3 DEF RewardStep

\* The subsidies of the blocks on the chain to b.
SubsidyAt(b) == [x \in OnPath(b) |-> Subsidy(Seqno(x))]

\* A fold of a function is the sum over its domain.
LEMMA FoldIsSum ==
  ASSUME NEW b
  PROVE  FoldFunction(+, 0, SubsidyAt(b)) = SumFunctionOnSet(SubsidyAt(b), OnPath(b))
<1>1. DOMAIN SubsidyAt(b) = OnPath(b)
  BY DEF SubsidyAt
<1> QED  BY <1>1 DEF FoldFunction, FoldFunctionOnSet, SumFunctionOnSet

\* A transaction that names nothing twice moves, by its fee, what its inputs are worth
\* more than its outputs.
LEMMA FeeOf ==
  ASSUME NEW t \in TxnId, Distinct(Txn[t].inputs), Distinct(Txn[t].outputs)
  PROVE  /\ TotalAmount(Inputs(t)) \in Int /\ TotalAmount(Outputs(t)) \in Int
         /\ Fee(t) = TotalAmount(Inputs(t)) - TotalAmount(Outputs(t))
         /\ IsFiniteSet(Inputs(t)) /\ IsFiniteSet(Outputs(t))
         /\ \A c \in Inputs(t) \cup Outputs(t) : Amount[c] \in Int
<1> DEFINE ins == Txn[t].inputs
           outs == Txn[t].outputs
<1>1. /\ ins \in Seq(Cash) /\ outs \in Seq(Cash)
      /\ \A c \in Inputs(t) \cup Outputs(t) : Amount[c] \in Int
  BY ListsOfCash, MoneyAssumption
<1>2. /\ DOMAIN ins = 1 .. Len(ins) /\ Len(ins) \in Nat
      /\ DOMAIN outs = 1 .. Len(outs) /\ Len(outs) \in Nat
  BY <1>1
<1>3. /\ IsFiniteSet(DOMAIN ins) /\ IsFiniteSet(DOMAIN outs)
      /\ \A i \in DOMAIN ins : Amount[ins[i]] \in Int
      /\ \A i \in DOMAIN outs : Amount[outs[i]] \in Int
  <2>1. IsFiniteSet(DOMAIN ins) /\ IsFiniteSet(DOMAIN outs)
    BY <1>2, FS_Interval
  <2> QED  BY <1>1, <2>1 DEF Inputs, Outputs
<1>4. /\ IsFiniteSet(Inputs(t)) /\ Worth(ins) = TotalAmount(Inputs(t))
      /\ TotalAmount(Inputs(t)) \in Int
  BY <1>3, WorthIsTotal DEF Inputs
<1>5. /\ IsFiniteSet(Outputs(t)) /\ Worth(outs) = TotalAmount(Outputs(t))
      /\ TotalAmount(Outputs(t)) \in Int
  BY <1>3, WorthIsTotal DEF Outputs
<1> QED  BY <1>1, <1>4, <1>5 DEF Fee

\* What is unspent is cash.
LEMMA UnspentIsCash ==
  ASSUME NEW b \in BlockId
  PROVE  Unspent(b) \subseteq Cash
<1>1. ASSUME NEW x \in OnPath(b) PROVE Leaves(x) \subseteq Cash
  BY OnPathHolds, MovesCash
<1> QED  BY <1>1 DEF Unspent

\* A block whose reward is right adds its subsidy to what is unspent.
LEMMA BlockMoney ==
  ASSUME NEW V, IsTree(V), NEW b \in V \ {Genesis},
         \A x \in OnPath(b) \ {Genesis} : Spends(x) \subseteq Unspent(Prev(x)),
         NoDoubleSpend(b), MakesNewCash(b), RewardIsRight(b),
         IsFiniteSet(Unspent(Prev(b)))
  PROVE  /\ IsFiniteSet(Unspent(b))
         /\ TotalAmount(Unspent(b)) = TotalAmount(Unspent(Prev(b))) + Subsidy(Seqno(b))
<1> DEFINE p == Prev(b)
           txns == Block[b].transactions
           r == Block[b].reward
           D == DOMAIN txns
           In == [i \in D |-> Inputs(txns[i])]
           Out == [i \in D |-> Outputs(txns[i])]
           total(C) == SumFunctionOnSet(Amount, C)
           ins == [i \in D |-> total(In[i])]
           outs == [i \in D |-> total(Out[i])]
           fees == FeeAt(b)
           U == Unspent(p)
           S == Spends(b)
           O == UNION {Out[i] : i \in D}
<1>1. /\ b \in BlockId /\ txns \in Seq(TxnId) /\ r \in Cash /\ Seqno(b) \in Nat
      /\ \A i \in D : txns[i] \in TxnId
  <2>1. b \in BlockId /\ txns \in Seq(TxnId) /\ r \in Cash /\ Seqno(b) \in Nat
    BY BlockTypes DEF IsTree
  <2> QED  BY <2>1
<1>2. /\ S = UNION {In[i] : i \in D}
      /\ Leaves(b) = {r} \cup O
      /\ \A i, j \in D : i # j => In[i] \cap In[j] = {} /\ Out[i] \cap Out[j] = {}
      /\ r \notin O
      /\ S \subseteq U
      /\ Leaves(b) \cap U = {}
      /\ Unspent(b) = (U \ S) \cup Leaves(b)
  <2> DEFINE In1(i) == Inputs(txns[i])
             Out1(i) == Outputs(txns[i])
  <2>1. /\ S = UNION {In1(i) : i \in D}
        /\ Leaves(b) = {r} \cup UNION {Out1(i) : i \in D}
        /\ \A i, j \in D : i # j => In1(i) \cap In1(j) = {} /\ Out1(i) \cap Out1(j) = {}
        /\ \A i \in D : r \notin Out1(i)
        /\ S \subseteq U
        /\ Leaves(b) \cap U = {}
        /\ Unspent(b) = (U \ S) \cup Leaves(b)
    BY BlockMoves
  <2>2. \A i \in D : In[i] = In1(i) /\ Out[i] = Out1(i)
    OBVIOUS
  <2> HIDE DEF In, Out, In1, Out1, U, S, r
  <2> QED  BY <2>1, <2>2
<1>3. IsFiniteSet(D)
  <2>1. D = 1 .. Len(txns) /\ Len(txns) \in Nat
    BY <1>1
  <2> QED  BY <2>1, FS_Interval
<1>4. \A i \in D : /\ In[i] = Inputs(txns[i]) /\ Out[i] = Outputs(txns[i])
                   /\ ins[i] = total(In[i]) /\ outs[i] = total(Out[i])
                   /\ fees[i] = Fee(txns[i])
  BY DEF FeeAt
<1>5. \A c \in Cash : Amount[c] \in Int
  BY MoneyAssumption
<1>6. \A c \in U \cup S \cup O \cup {r} : c \in Cash
  <2>1. \A i \in D : In[i] \subseteq Cash /\ Out[i] \subseteq Cash
    BY <1>1, ListsOfCash
  <2>2. U \subseteq Cash
    BY <1>1, UnspentIsCash, BlockTypes
  <2>3. U \cup S \cup O \cup {r} = U \cup O \cup {r}
    BY <1>2
  <2>4. O \subseteq Cash
    BY <2>1
  <2> HIDE DEF U, S, O
  <2> QED  BY <1>1, <2>2, <2>3, <2>4
<1>7. \A i \in D : /\ IsFiniteSet(In[i]) /\ IsFiniteSet(Out[i])
                   /\ ins[i] \in Int /\ outs[i] \in Int /\ fees[i] = ins[i] - outs[i]
                   /\ \A c \in In[i] \cup Out[i] : Amount[c] \in Int
  <2>1. \A i \in D : Distinct(Txn[txns[i]].inputs) /\ Distinct(Txn[txns[i]].outputs)
    BY DEF NoDoubleSpend, MakesNewCash
  <2> QED  BY <1>1, <1>4, <2>1, FeeOf, TotalIsSum
<1>8. Subsidy(Seqno(b)) \in Nat /\ Fees(b) = SumFunctionOnSet(fees, D)
  BY <1>1, SubsidyType, FeesIsSum
<1>9. Amount[r] = Fees(b) + Subsidy(Seqno(b))
  BY DEF RewardIsRight
<1> HIDE DEF p, txns, r, D, In, Out, ins, outs, fees, U, S, O, total
<1>10. IsFiniteSet(S) /\ total(S) = SumFunctionOnSet(ins, D)
  <2>1. /\ \A i \in D : IsFiniteSet(In[i])
        /\ \A i, j \in D : i # j => In[i] \cap In[j] = {}
        /\ \A i \in D : \A c \in In[i] : Amount[c] \in Int
        /\ \A i \in D : ins[i] = SumFunctionOnSet(Amount, In[i])
    BY <1>2, <1>4, <1>7 DEF total
  <2>2. IsFamily(D, In, Amount, ins)
    BY <1>3, <2>1 DEF IsFamily
  <2>3. InFamily(D, In) = S
    BY <1>2 DEF InFamily
  <2> QED  BY <2>2, <2>3, SumFamily DEF total
<1>11. IsFiniteSet(O) /\ total(O) = SumFunctionOnSet(outs, D)
  <2>1. /\ \A i \in D : IsFiniteSet(Out[i])
        /\ \A i, j \in D : i # j => Out[i] \cap Out[j] = {}
        /\ \A i \in D : \A c \in Out[i] : Amount[c] \in Int
        /\ \A i \in D : outs[i] = SumFunctionOnSet(Amount, Out[i])
    BY <1>2, <1>4, <1>7 DEF total
  <2>2. IsFamily(D, Out, Amount, outs)
    BY <1>3, <2>1 DEF IsFamily
  <2>3. InFamily(D, Out) = O
    BY DEF InFamily, O
  <2> QED  BY <2>2, <2>3, SumFamily DEF total
<1>12. Fees(b) = total(S) - total(O)
  BY <1>3, <1>7, <1>8, <1>10, <1>11, SumMinus
<1>13. IsFiniteSet(U) /\ IsFiniteSet(U \ S) /\ IsFiniteSet({r}) /\ IsFiniteSet({r} \cup O)
  <2>1. IsFiniteSet(U) /\ IsFiniteSet({r})
    BY FS_Singleton DEF U, p
  <2> QED  BY <1>11, <2>1, FS_Subset, FS_Union
<1>14. total(U) = total(U \ S) + total(S) /\ total(U \ S) \in Int
       /\ total(S) \in Int
  <2>1. (U \ S) \cup S = U /\ (U \ S) \cap S = {}
    BY <1>2
  <2>2. \A c \in (U \ S) \cup S : Amount[c] \in Int
    BY <1>5, <1>6
  <2>3. total((U \ S) \cup S) = total(U \ S) + total(S)
    BY <1>10, <1>13, <2>1, <2>2, SumUnion DEF total
  <2> QED  BY <1>10, <1>13, <2>1, <2>2, <2>3, SumStep DEF total
<1>15. total({r} \cup O) = Amount[r] + total(O) /\ total(O) \in Int
  <2>1. \A c \in {r} \cup O : Amount[c] \in Int
    BY <1>5, <1>6
  <2>2. ({r} \cup O) \ {r} = O /\ r \in {r} \cup O /\ O \in SUBSET ({r} \cup O)
        /\ {r} \cup O \in SUBSET ({r} \cup O)
    BY <1>2
  <2>3. total({r} \cup O) = Amount[r] + total(({r} \cup O) \ {r})
    BY <1>13, <2>1, <2>2, SumStep DEF total
  <2> QED  BY <1>13, <2>1, <2>2, <2>3, SumStep DEF total
<1>16. IsFiniteSet(Unspent(b)) /\ total(Unspent(b)) = total(U \ S) + total({r} \cup O)
  <2>1. (U \ S) \cap ({r} \cup O) = {} /\ Unspent(b) = (U \ S) \cup ({r} \cup O)
    BY <1>2
  <2>2. \A c \in (U \ S) \cup ({r} \cup O) : Amount[c] \in Int
    BY <1>5, <1>6
  <2> DEFINE A == U \ S
             B == {r} \cup O
  <2>3. IsFiniteSet(A) /\ IsFiniteSet(B) /\ A \cap B = {}
        /\ \A c \in A \cup B : Amount[c] \in Int
    BY <1>13, <2>1, <2>2
  <2> HIDE DEF A, B
  <2>4. total(A \cup B) = total(A) + total(B) /\ IsFiniteSet(A \cup B)
    BY <2>3, SumUnion, FS_Union DEF total
  <2> QED  BY <2>1, <2>4 DEF A, B
<1>17. total(Unspent(b)) = total(U) + Subsidy(Seqno(b))
  BY <1>8, <1>9, <1>12, <1>14, <1>15, <1>16
<1> QED  BY <1>16, <1>17, TotalIsSum DEF total, U, p

\* So the cash unspent on a chain is worth the subsidies of its blocks.
LEMMA ChainMoney ==
  ASSUME NEW V, IsTree(V), NEW b \in V,
         \A x \in OnPath(b) \ {Genesis} : /\ Spends(x) \subseteq Unspent(Prev(x))
                                         /\ NoDoubleSpend(x) /\ MakesNewCash(x)
                                         /\ RewardIsRight(x)
  PROVE  TotalAmount(Unspent(b)) = FoldFunction(+, 0, SubsidyAt(b))
<1> DEFINE sum(x) == SumFunctionOnSet(SubsidyAt(x), OnPath(x))
           Good(x) == /\ IsFiniteSet(OnPath(x)) /\ IsFiniteSet(Unspent(x))
                      /\ TotalAmount(Unspent(x)) = sum(x)
           P == {x \in BlockId : x \in OnPath(b) => Good(x)}
<1>1. Good(Genesis)
  <2> DEFINE r == Block[Genesis].reward
  <2>1. OnPath(Genesis) = {Genesis} /\ Unspent(Genesis) = {r}
    <3>1. Leaves(Genesis) = {r} /\ Spends(Genesis) = {}
      BY BlockAssumption DEF Leaves, Spends, Transactions
    <3> QED  BY <3>1, OnPathSteps DEF Unspent
  <2>2. IsFiniteSet({Genesis}) /\ IsFiniteSet({r})
    BY FS_Singleton
  <2>3. Amount[r] = InitialSubsidy /\ InitialSubsidy \in Int
        /\ SubsidyAt(Genesis)[Genesis] = InitialSubsidy
    BY <2>1, MoneyAssumption, SubsidyType, BlockTypes DEF SubsidyAt
  <2> HIDE DEF r
  <2>5. SumFunctionOnSet(Amount, {r}) = InitialSubsidy
    BY <2>3, SumOfOne
  <2>6. SumFunctionOnSet(SubsidyAt(Genesis), {Genesis}) = InitialSubsidy
    BY <2>3, SumOfOne
  <2>7. TotalAmount({r}) = SumFunctionOnSet(Amount, {r})
    BY TotalIsSum
  <2> QED  BY <2>1, <2>2, <2>5, <2>6, <2>7
<1>2. ASSUME NEW x \in OnPath(b) \ {Genesis}, Good(Prev(x)) PROVE Good(x)
  <2> DEFINE p == Prev(x)
  <2>1. /\ x \in BlockId /\ p \in BlockId /\ p \in V /\ Seqno(x) = Seqno(p) + 1
        /\ Seqno(p) \in Nat /\ Seqno(x) \in Nat
        /\ OnPath(x) = OnPath(p) \cup {x} /\ OnPath(p) \subseteq BlockId
        /\ x \in V /\ OnPath(x) \subseteq OnPath(b)
    <3>1. x \in V /\ x \in BlockId /\ OnPath(x) \subseteq OnPath(b)
      BY TreePath, OnPathHolds DEF IsTree
    <3> QED  BY <3>1, BlockTypes, OnPathSteps, OnPathHolds DEF IsTree, FollowsParent
  <2>2. x \notin OnPath(p)
    <3>1. \A y \in OnPath(p) : Seqno(y) \in 0 .. Seqno(p)
      BY <2>1, PathIndex
    <3> QED  BY <2>1, <3>1
  <2>3. /\ IsFiniteSet(Unspent(x))
        /\ TotalAmount(Unspent(x)) = TotalAmount(Unspent(p)) + Subsidy(Seqno(x))
    BY <1>2, <2>1, BlockMoney
  <2>4. IsFiniteSet(OnPath(p)) /\ IsFiniteSet({x}) /\ IsFiniteSet(OnPath(p) \cup {x})
    BY <1>2, FS_Singleton, FS_Union
  <2>5. /\ \A y \in OnPath(x) : SubsidyAt(x)[y] \in Int
        /\ \A y \in OnPath(p) : SubsidyAt(p)[y] \in Int /\ SubsidyAt(p)[y] = SubsidyAt(x)[y]
        /\ SubsidyAt(x)[x] = Subsidy(Seqno(x)) /\ Subsidy(Seqno(x)) \in Int
    <3>1. \A y \in BlockId : Subsidy(Seqno(y)) \in Int
      BY SubsidyType, BlockTypes
    <3>2. /\ \A y \in OnPath(x) : SubsidyAt(x)[y] = Subsidy(Seqno(y)) /\ y \in BlockId
          /\ \A y \in OnPath(p) : SubsidyAt(p)[y] = Subsidy(Seqno(y)) /\ y \in OnPath(x)
      BY <2>1 DEF SubsidyAt
    <3> QED  BY <2>1, <3>1, <3>2
  <2> DEFINE f == SubsidyAt(x)
             e == SubsidyAt(p)
             A == OnPath(p)
  <2>6. A \cup {x} = OnPath(x) /\ (A \cup {x}) \ {x} = A /\ x \in A \cup {x}
        /\ A \in SUBSET (A \cup {x}) /\ A \cup {x} \in SUBSET (A \cup {x})
    BY <2>1, <2>2
  <2>7. /\ \A y \in A \cup {x} : f[y] \in Int
        /\ \A y \in A : e[y] \in Int /\ e[y] = f[y]
        /\ f[x] = Subsidy(Seqno(x))
    BY <2>1, <2>5
  <2>8. TotalAmount(Unspent(p)) = SumFunctionOnSet(e, A)
    BY <1>2
  <2>9. IsFiniteSet(A) /\ IsFiniteSet(A \cup {x})
    BY <2>4
  <2> HIDE DEF f, e, A
  <2>10. SumFunctionOnSet(f, A \cup {x}) = f[x] + SumFunctionOnSet(f, A)
         /\ SumFunctionOnSet(f, A) \in Int
    <3>1. SumFunctionOnSet(f, A \cup {x})
            = f[x] + SumFunctionOnSet(f, (A \cup {x}) \ {x})
      BY <2>6, <2>7, <2>9, SumStep
    <3>2. SumFunctionOnSet(f, A) \in Int
      BY <2>6, <2>7, <2>9, SumStep
    <3> QED  BY <2>6, <3>1, <3>2
  <2>11. SumFunctionOnSet(e, A) = SumFunctionOnSet(f, A)
    BY <2>7, <2>9, SumAgree
  <2>12. TotalAmount(Unspent(x)) = SumFunctionOnSet(f, A \cup {x})
    BY <2>3, <2>5, <2>7, <2>8, <2>10, <2>11
  <2> QED  BY <2>1, <2>3, <2>4, <2>6, <2>12 DEF f, A
<1> HIDE DEF Good
<1>3. Genesis \in P /\ \A x \in BlockId \ {Genesis} : Prev(x) \in P => x \in P
  <2>1. ASSUME NEW x \in BlockId \ {Genesis}, x \in OnPath(b)
        PROVE  Prev(x) \in OnPath(b)
    BY <2>1, BlockTypes, OnPathSteps, OnPathHolds DEF IsTree
  <2> QED  BY <1>1, <1>2, <2>1, BlockTypes DEF IsTree
<1> HIDE DEF P
<1>4. b \in P /\ b \in OnPath(b)
  BY <1>3, BlockInduction, OnPathHolds DEF IsTree
<1> QED  BY <1>4, FoldIsSum DEF P, Good
=============================================================================
