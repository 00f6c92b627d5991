---------------------------- MODULE NetworkProofs ----------------------------
(***************************************************************************)
(* Theorems about a network of any number of hubs, with any links: its     *)
(* types, that a transaction a hub waits for is on its way, why the first  *)
(* hub stops, and that the network implements Gossip.                      *)
(*                                                                         *)
(* Each step of a hub is a handler, whose result `Handle` applies: the     *)
(* lemmas say what Handle does to the streams, then what each handler      *)
(* sends and keeps (from HubProofs), and the invariants follow from both.  *)
(***************************************************************************)
EXTENDS Network, HubProofs

Elems(s) == {s[i] : i \in DOMAIN s}

-----------------------------------------------------------------------------
(***************************************************************************)
(* Sequences of messages.                                                  *)
(***************************************************************************)
LEMMA ElemsOfPrefix ==
  ASSUME NEW s \in Seq(Message), NEW k \in 0 .. Len(s)
  PROVE  SubSeq(s, 1, k) \in Seq(Message) /\ Elems(SubSeq(s, 1, k)) \subseteq Elems(s)
<1>1. Len(s) \in Nat /\ DOMAIN s = 1 .. Len(s) /\ \A i \in 1 .. Len(s) : s[i] \in Message
  OBVIOUS
<1>2. /\ SubSeq(s, 1, k) \in Seq(Message)
      /\ Len(SubSeq(s, 1, k)) = k
      /\ \A i \in 1 .. k : SubSeq(s, 1, k)[i] = s[i]
  BY <1>1, SubSeqProperties
<1>3. DOMAIN SubSeq(s, 1, k) = 1 .. k
  BY <1>2
<1> QED  BY <1>1, <1>2, <1>3 DEF Elems

\* What is left when at most the first element has been read.
LEMMA ElemsOfRest ==
  ASSUME NEW s \in Seq(Message), NEW read \in {0, 1}, read <= Len(s)
  PROVE  /\ SubSeq(s, read + 1, Len(s)) \in Seq(Message)
         /\ Elems(SubSeq(s, read + 1, Len(s))) \subseteq Elems(s)
         /\ Elems(s) \subseteq Elems(SubSeq(s, read + 1, Len(s))) \cup
              (IF read = 1 THEN {Head(s)} ELSE {})
<1> DEFINE rest == SubSeq(s, read + 1, Len(s))
<1>1. Len(s) \in Nat /\ DOMAIN s = 1 .. Len(s) /\ \A i \in 1 .. Len(s) : s[i] \in Message
  OBVIOUS
<1>2. /\ rest \in Seq(Message)
      /\ Len(rest) = Len(s) - read
      /\ \A i \in 1 .. Len(s) - read : rest[i] = s[read + i]
  <2>1. \A i \in read + 1 .. Len(s) : s[i] \in Message
    BY <1>1
  <2>2. /\ rest \in Seq(Message)
        /\ Len(rest) = IF read + 1 <= Len(s) THEN Len(s) - (read + 1) + 1 ELSE 0
        /\ \A i \in 1 .. Len(s) - (read + 1) + 1 : rest[i] = s[read + 1 + i - 1]
    BY <1>1, <2>1, SubSeqProperties
  <2> HIDE DEF rest
  <2>3. ASSUME NEW l \in Nat, NEW r \in Int, r <= l
        PROVE  /\ l - (r + 1) + 1 = l - r
               /\ (IF r + 1 <= l THEN l - (r + 1) + 1 ELSE 0) = l - r
    BY <2>3
  <2>4. read \in Int
    OBVIOUS
  <2>5. Len(rest) = Len(s) - read
    BY <1>1, <2>2, <2>3, <2>4
  <2>6. ASSUME NEW i \in 1 .. Len(s) - read PROVE rest[i] = s[read + i]
    <3>1. i \in 1 .. Len(s) - (read + 1) + 1 /\ i \in Int
      BY <1>1, <2>3, <2>4
    <3>2. read + 1 + i - 1 = read + i
      BY <2>4, <3>1
    <3> QED  BY <2>2, <3>1, <3>2
  <2> QED  BY <2>2, <2>5, <2>6
<1> HIDE DEF rest
<1>3. DOMAIN rest = 1 .. Len(s) - read
  BY <1>2
<1>4. ASSUME NEW x \in Elems(rest) PROVE x \in Elems(s)
  <2>1. PICK i \in 1 .. Len(s) - read : x = rest[i]
    BY <1>3, <1>4 DEF Elems
  <2>2. read + i \in 1 .. Len(s)
    BY <1>1
  <2> QED  BY <1>1, <1>2, <2>1, <2>2 DEF Elems
<1>5. ASSUME NEW x \in Elems(s), x \notin Elems(rest)
      PROVE  read = 1 /\ x = Head(s)
  <2>1. PICK i \in 1 .. Len(s) : x = s[i]
    BY <1>1 DEF Elems
  <2>2. CASE read = 0
    <3>1. rest[i] = x /\ i \in DOMAIN rest
      BY <1>1, <1>2, <1>3, <2>1, <2>2
    <3> QED  BY <1>5, <3>1 DEF Elems
  <2>3. CASE read = 1 /\ i = 1
    BY <2>1, <2>3
  <2>4. CASE read = 1 /\ i > 1
    <3>1. i - 1 \in 1 .. Len(s) - read /\ read + (i - 1) = i
      BY <1>1, <2>4
    <3>2. rest[i - 1] = x
      BY <1>2, <2>1, <3>1
    <3> QED  BY <1>3, <1>5, <3>1, <3>2 DEF Elems
  <2> QED  BY <2>2, <2>3, <2>4
<1> QED  BY <1>2, <1>4, <1>5 DEF rest

LEMMA ElemsOfConcat ==
  ASSUME NEW a \in Seq(Message), NEW b \in Seq(Message)
  PROVE  a \o b \in Seq(Message) /\ Elems(a \o b) = Elems(a) \cup Elems(b)
<1>1. /\ Len(a) \in Nat /\ Len(b) \in Nat
      /\ DOMAIN a = 1 .. Len(a) /\ DOMAIN b = 1 .. Len(b)
  OBVIOUS
<1>2. /\ a \o b \in Seq(Message)
      /\ Len(a \o b) = Len(a) + Len(b)
      /\ \A i \in 1 .. Len(a) + Len(b) :
           (a \o b)[i] = IF i <= Len(a) THEN a[i] ELSE b[i - Len(a)]
  BY ConcatProperties
<1>3. DOMAIN (a \o b) = 1 .. Len(a) + Len(b)
  BY <1>2
<1>4. ASSUME NEW x \in Elems(a \o b) PROVE x \in Elems(a) \cup Elems(b)
  <2>1. PICK i \in 1 .. Len(a) + Len(b) : x = (a \o b)[i]
    BY <1>3 DEF Elems
  <2>2. CASE i <= Len(a)
    <3>1. x = a[i] /\ i \in DOMAIN a
      BY <1>1, <1>2, <2>1, <2>2
    <3> QED  BY <3>1 DEF Elems
  <2>3. CASE i > Len(a)
    <3>1. x = b[i - Len(a)] /\ i - Len(a) \in DOMAIN b
      BY <1>1, <1>2, <2>1, <2>3
    <3> QED  BY <3>1 DEF Elems
  <2> QED  BY <1>1, <2>2, <2>3
<1>5. ASSUME NEW x \in Elems(a) PROVE x \in Elems(a \o b)
  <2>1. PICK i \in 1 .. Len(a) : x = a[i]
    BY <1>1 DEF Elems
  <2>2. i \in 1 .. Len(a) + Len(b) /\ (a \o b)[i] = x
    BY <1>1, <1>2, <2>1
  <2> QED  BY <1>3, <2>2 DEF Elems
<1>6. ASSUME NEW x \in Elems(b) PROVE x \in Elems(a \o b)
  <2>1. PICK i \in 1 .. Len(b) : x = b[i]
    BY <1>1 DEF Elems
  <2>2. i + Len(a) \in 1 .. Len(a) + Len(b) /\ (i + Len(a)) - Len(a) = i
        /\ ~(i + Len(a) <= Len(a))
    BY <1>1
  <2>3. (a \o b)[i + Len(a)] = x
    BY <1>2, <2>1, <2>2
  <2> QED  BY <1>3, <2>2, <2>3 DEF Elems
<1> QED  BY <1>2, <1>4, <1>5, <1>6

-----------------------------------------------------------------------------
(***************************************************************************)
(* What a step of a hub does to the streams.                               *)
(***************************************************************************)

\* A well-typed way to read from m and to send.
Reads(n, m, read) ==
  /\ n \in Node /\ m \in Node
  /\ read \in {0, 1} /\ read <= Len(stream[m][n])

\* Between x and y nothing appears but what n sends, nothing vanishes but what n
\* has read, and what it sends to a running hub is there.
Moved(n, m, read, sent, after) ==
  /\ after \in [Node -> [Node -> Seq(Message)]]
  /\ \A x, y \in Node :
       /\ Elems(after[x][y]) \subseteq
            Messages(x, y) \cup (IF x = n THEN Elems(sent[y]) ELSE {})
       /\ Messages(x, y) \subseteq Elems(after[x][y]) \cup
            (IF x = m /\ y = n /\ read = 1 THEN {Head(stream[m][n])} ELSE {})

LEMMA StreamsMove ==
  ASSUME TypeOK, NEW n, NEW m, NEW read, Reads(n, m, read), NEW sent \in Outbox
  PROVE  /\ Moved(n, m, read, sent, Streams(n, m, read, sent))
         /\ \A y \in Node : hub[y].running =>
              Elems(sent[y]) \subseteq Elems(Streams(n, m, read, sent)[n][y])
<1> DEFINE after == Streams(n, m, read, sent)
           left(x, y) == IF x = m /\ y = n
                         THEN SubSeq(stream[x][y], read + 1, Len(stream[x][y]))
                         ELSE stream[x][y]
<1>1. ASSUME NEW x \in Node, NEW y \in Node
      PROVE  /\ after[x][y] = IF x = n /\ hub[y].running THEN left(x, y) \o sent[y]
                              ELSE left(x, y)
             /\ stream[x][y] \in Seq(Message)
             /\ sent[y] \in Seq(Message)
  BY DEF Streams, TypeOK, Outbox
<1>2. ASSUME NEW x \in Node, NEW y \in Node
      PROVE  /\ left(x, y) \in Seq(Message)
             /\ Elems(left(x, y)) \subseteq Messages(x, y)
             /\ Messages(x, y) \subseteq Elems(left(x, y)) \cup
                  (IF x = m /\ y = n /\ read = 1 THEN {Head(stream[m][n])} ELSE {})
  <2>1. Messages(x, y) = Elems(stream[x][y])
    BY DEF Messages, Elems
  <2>2. CASE x = m /\ y = n
    <3> DEFINE q == stream[x][y]
    <3>1. /\ q \in Seq(Message) /\ read \in {0, 1} /\ read <= Len(q)
          /\ left(x, y) = SubSeq(q, read + 1, Len(q))
          /\ Messages(x, y) = Elems(q)
          /\ (IF x = m /\ y = n /\ read = 1 THEN {Head(stream[m][n])} ELSE {})
               = (IF read = 1 THEN {Head(q)} ELSE {})
      BY <1>1, <2>1, <2>2 DEF Reads
    <3> HIDE DEF q, left
    <3>2. /\ SubSeq(q, read + 1, Len(q)) \in Seq(Message)
          /\ Elems(SubSeq(q, read + 1, Len(q))) \subseteq Elems(q)
          /\ Elems(q) \subseteq Elems(SubSeq(q, read + 1, Len(q))) \cup
               (IF read = 1 THEN {Head(q)} ELSE {})
      BY <3>1, ElemsOfRest, Z3
    <3> QED  BY <3>1, <3>2
  <2>3. CASE ~(x = m /\ y = n)
    BY <1>1, <2>1, <2>3
  <2> QED  BY <2>2, <2>3
<1>3. after = [x \in Node |-> [y \in Node |-> after[x][y]]]
  BY DEF Streams
<1> HIDE DEF after, left
<1>4. ASSUME NEW x \in Node, NEW y \in Node
      PROVE  /\ after[x][y] \in Seq(Message)
             /\ Elems(after[x][y]) = Elems(left(x, y)) \cup
                  (IF x = n /\ hub[y].running THEN Elems(sent[y]) ELSE {})
  <2>1. CASE x = n /\ hub[y].running
    <3>1. left(x, y) \in Seq(Message) /\ sent[y] \in Seq(Message)
      BY <1>1, <1>2
    <3>2. /\ left(x, y) \o sent[y] \in Seq(Message)
          /\ Elems(left(x, y) \o sent[y]) = Elems(left(x, y)) \cup Elems(sent[y])
      BY <3>1, ElemsOfConcat
    <3>3. after[x][y] = left(x, y) \o sent[y]
      BY <1>1, <2>1
    <3> QED  BY <2>1, <3>2, <3>3
  <2>2. CASE ~(x = n /\ hub[y].running)
    BY <1>1, <1>2, <2>2
  <2> QED  BY <2>1, <2>2
<1>5. after \in [Node -> [Node -> Seq(Message)]]
  <2>1. \A x \in Node : after[x] \in [Node -> Seq(Message)]
    BY <1>3, <1>4
  <2> QED  BY <1>3, <2>1
<1>6. Moved(n, m, read, sent, after)
  BY <1>2, <1>4, <1>5 DEF Moved
<1>7. ASSUME NEW y \in Node, hub[y].running
      PROVE  Elems(sent[y]) \subseteq Elems(after[n][y])
  BY <1>4, <1>7 DEF Reads
<1> QED  BY <1>6, <1>7 DEF after

\* All targets are sent the same messages.
Uniform(sent) ==
  /\ sent \in Outbox
  /\ \E msgs \in Seq(Message) : \A y \in Node : sent[y] = msgs \/ sent[y] = <<>>

\* What is written of them when a write fails is a part of them.
Part(sent, k, before) ==
  [y \in Node |->
     IF y \in before THEN SubSeq(sent[y], 1, k + 1)
     ELSE SubSeq(sent[y], 1, IF y \in Targets(sent) THEN k ELSE 0)]

LEMMA PartSent ==
  ASSUME NEW sent, Uniform(sent), NEW dead \in Targets(sent),
         NEW k \in 0 .. Len(sent[dead]) - 1, NEW before \in SUBSET Targets(sent)
  PROVE  /\ Part(sent, k, before) \in Outbox
         /\ \A y \in Node : Elems(Part(sent, k, before)[y]) \subseteq Elems(sent[y])
<1> DEFINE j(y) == IF y \in before THEN k + 1
                   ELSE IF y \in Targets(sent) THEN k ELSE 0
           part == Part(sent, k, before)
<1>1. PICK msgs \in Seq(Message) : \A y \in Node : sent[y] = msgs \/ sent[y] = <<>>
  BY DEF Uniform
<1>2. \A y \in Targets(sent) : y \in Node /\ sent[y] = msgs
  BY <1>1 DEF Targets
<1>3. k \in Nat /\ k + 1 <= Len(msgs) /\ Len(msgs) \in Nat
  BY <1>1, <1>2
<1>4. ASSUME NEW y \in Node
      PROVE  /\ sent[y] \in Seq(Message)
             /\ j(y) \in 0 .. Len(sent[y])
             /\ part[y] = SubSeq(sent[y], 1, j(y))
  <2>1. sent[y] \in Seq(Message)
    BY DEF Uniform, Outbox
  <2>2. j(y) \in 0 .. Len(sent[y])
    <3>1. CASE y \in Targets(sent)
      BY <1>2, <1>3, <3>1
    <3>2. CASE y \notin Targets(sent)
      BY <2>1, <3>2
    <3> QED  BY <3>1, <3>2
  <2> QED  BY <2>1, <2>2 DEF Part
<1>5. part = [y \in Node |-> part[y]]
  BY DEF Part
<1> HIDE DEF part, j
<1>6. \A y \in Node : part[y] \in Seq(Message) /\ Elems(part[y]) \subseteq Elems(sent[y])
  BY <1>4, ElemsOfPrefix
<1>7. part \in Outbox
  BY <1>5, <1>6 DEF Outbox
<1> QED  BY <1>6, <1>7 DEF part

\* The step of a hub: the others stay as they are, this one becomes what the
\* handler made of it, or that and stopped, and the messages move.
LEMMA HandleEffect ==
  ASSUME TypeOK, NEW n, NEW m, NEW read, Reads(n, m, read), NEW result,
         result.hub \in Hub, Uniform(result.sent), Handle(n, m, read, result)
  PROVE  /\ hub'[n] = result.hub \/ (hub'[n] = Stop(result.hub) /\ SomeStopped)
         /\ \A x \in Node \ {n} : hub'[x] = hub[x]
         /\ hub' \in [Node -> Hub]
         /\ Moved(n, m, read, result.sent, stream')
         /\ hub'[n].running => \A y \in Node : hub[y].running =>
              Elems(result.sent[y]) \subseteq Elems(stream'[n][y])
<1>1. n \in Node /\ hub \in [Node -> Hub] /\ result.sent \in Outbox
  BY DEF TypeOK, Reads, Uniform
<1>2. CASE Deliver(n, m, read, result)
  BY <1>1, <1>2, StreamsMove DEF Deliver
<1>3. CASE DeliverFails(n, m, read, result)
  <2>1. PICK dead \in Targets(result.sent) :
          /\ \E k \in 0 .. Len(result.sent[dead]) - 1 :
             \E before \in SUBSET Targets(result.sent) :
               stream' = Streams(n, m, read,
                 [y \in Node |->
                    IF y \in before THEN SubSeq(result.sent[y], 1, k + 1)
                    ELSE SubSeq(result.sent[y], 1,
                                IF y \in Targets(result.sent) THEN k ELSE 0)])
          /\ hub' = [hub EXCEPT ![n] = Stop(result.hub)]
    BY <1>3 DEF DeliverFails
  <2>2. PICK k \in 0 .. Len(result.sent[dead]) - 1, before \in SUBSET Targets(result.sent) :
          stream' = Streams(n, m, read,
            [y \in Node |->
               IF y \in before THEN SubSeq(result.sent[y], 1, k + 1)
               ELSE SubSeq(result.sent[y], 1, IF y \in Targets(result.sent) THEN k ELSE 0)])
    BY <2>1
  <2> DEFINE part == Part(result.sent, k, before)
  <2>3. /\ part \in Outbox
        /\ stream' = Streams(n, m, read, part)
        /\ \A y \in Node : Elems(part[y]) \subseteq Elems(result.sent[y])
    <3>1. stream' = Streams(n, m, read, part)
      BY <2>2 DEF Part
    <3> HIDE DEF part
    <3> QED  BY <3>1, PartSent DEF part
  <2> HIDE DEF part
  <2>4. /\ Stop(result.hub) \in Hub /\ ~Stop(result.hub).running
        /\ SomeStopped
    BY <1>3 DEF Stop, Hub, DeliverFails, Targets, SomeStopped
  <2>5. Moved(n, m, read, part, stream')
    BY <2>3, StreamsMove
  <2>6. Moved(n, m, read, result.sent, stream')
    BY <2>3, <2>5 DEF Moved
  <2> QED  BY <1>1, <2>1, <2>4, <2>6
<1> QED  BY <1>2, <1>3 DEF Handle

-----------------------------------------------------------------------------
(***************************************************************************)
(* What a handler's result is like: as to transactions, and as to blocks.  *)
(***************************************************************************)
Request(t) == [type |-> "GetTransactionRequest", id |-> t]
Response(t) == [type |-> "GetTransactionResponse", id |-> t]

\* The invariant every hub of the network keeps by itself.
HubInv(h) ==
  /\ h \in Hub
  /\ PoolInv(h)
  /\ h.annoucements \cap h.mempool = {}

\* n's hub has run a handler, for the message it has read from m if `read` is 1.
\* What it waits for it waited for before, and has not just read, or it has asked
\* m for; and if m has asked for a transaction it is answered.
AskOutcome(n, m, read, result) ==
  /\ Reads(n, m, read)
  /\ hub[n].running
  /\ HubInv(result.hub)
  /\ Uniform(result.sent)
  /\ hub[n].peers \subseteq result.hub.peers
  /\ \A y \in result.hub.peers : y \in hub[n].peers \/ {n, y} \in link
  /\ \A t \in result.hub.annoucements :
       \/ /\ t \in hub[n].annoucements
          /\ ~(read = 1 /\ Head(stream[m][n]) = Response(t))
       \/ /\ m \in hub[n].peers
          /\ result.hub.running => Request(t) \in Elems(result.sent[m])
  /\ \A t : (read = 1 /\ Head(stream[m][n]) = Request(t) /\ result.hub.running) =>
              Response(t) \in Elems(result.sent[m])

\* A node linked with n has accepted b; n's user or miner has just submitted it.
HasSource(n, b) == \E k \in Node : {k, n} \in link /\ b \in hub[k].valid_blocks
MinedHere(n, b) ==
  todo[n] # <<>> /\ b = Head(todo[n]) /\ todo' = [todo EXCEPT ![n] = Tail(@)]

\* n's hub sends only blocks it has accepted, and accepts one at a time, after its
\* parent; what it accepts or lets wait comes from where blocks come from.
BlockOutcome(n, result) ==
  /\ TreeStep(hub[n], result.hub)
  /\ \A y \in Node : \A msg \in Elems(result.sent[y]) :
       msg.type = "GetBlockResponse" => msg.id \in hub[n].valid_blocks
  /\ \A b \in result.hub.valid_blocks \ hub[n].valid_blocks :
       HasSource(n, b) \/ MinedHere(n, b)
  /\ \A b \in result.hub.unconfirmed_blocks \ hub[n].unconfirmed_blocks :
       HasSource(n, b)

\* A message that is about no transaction asked for.
NoAnswer(n, m, read) ==
  read = 1 => Head(stream[m][n]).type \notin
                {"GetTransactionRequest", "GetTransactionResponse"}

\* A hub that stops keeps what it has.
LEMMA StopKeepsHub ==
  ASSUME NEW h, HubInv(h)
  PROVE  /\ HubInv(Stop(h)) /\ ~Stop(h).running
         /\ Stop(h).peers = h.peers /\ Stop(h).annoucements = h.annoucements
         /\ Stop(h).mempool = h.mempool
         /\ Stop(h).valid_ids = h.valid_ids
         /\ Stop(h).valid_blocks = h.valid_blocks
         /\ Stop(h).leading_block = h.leading_block
         /\ Stop(h).unconfirmed_blocks = h.unconfirmed_blocks
<1>1. Stop(h) \in Hub /\ PoolInv(Stop(h))
  BY StopKeepsPools DEF HubInv
<1>2. /\ ~Stop(h).running
      /\ Stop(h).peers = h.peers /\ Stop(h).annoucements = h.annoucements
      /\ Stop(h).mempool = h.mempool
      /\ Stop(h).valid_ids = h.valid_ids
      /\ Stop(h).valid_blocks = h.valid_blocks
      /\ Stop(h).leading_block = h.leading_block
      /\ Stop(h).unconfirmed_blocks = h.unconfirmed_blocks
  BY DEF HubInv, Stop, Hub
<1> QED  BY <1>1, <1>2 DEF HubInv

LEMMA AskQuiet ==
  ASSUME NEW n, NEW m, NEW read, Reads(n, m, read), NoAnswer(n, m, read),
         HubInv(hub[n]), hub[n].running,
         NEW result, result.hub \in Hub, PoolInv(result.hub), Uniform(result.sent),
         result.hub.peers = hub[n].peers,
         result.hub.annoucements = hub[n].annoucements,
         result.hub.mempool \subseteq hub[n].mempool
  PROVE  AskOutcome(n, m, read, result)
<1>1. HubInv(result.hub)
  BY DEF HubInv
<1>2. \A t : Request(t).type = "GetTransactionRequest"
             /\ Response(t).type = "GetTransactionResponse"
  BY DEF Request, Response
<1>3. \A t : read = 1 => Head(stream[m][n]) # Request(t) /\ Head(stream[m][n]) # Response(t)
  BY <1>2 DEF NoAnswer
<1> QED  BY <1>1, <1>3 DEF AskOutcome

LEMMA BlockQuiet ==
  ASSUME NEW n, NEW result,
         result.hub.valid_blocks = hub[n].valid_blocks,
         result.hub.leading_block = hub[n].leading_block,
         result.hub.unconfirmed_blocks = hub[n].unconfirmed_blocks,
         \A y \in Node : \A msg \in Elems(result.sent[y]) : msg.type # "GetBlockResponse"
  PROVE  BlockOutcome(n, result)
BY DEF BlockOutcome, TreeStep

\* What the three ways to end a handler send.
LEMMA NothingSent ==
  ASSUME NEW h
  PROVE  /\ Uniform(Done(h).sent) /\ Uniform(Fail(h).sent)
         /\ \A y \in Node : Elems(Done(h).sent[y]) = {} /\ Elems(Fail(h).sent[y]) = {}
<1>1. <<>> \in Seq(Message) /\ DOMAIN <<>> = {}
  OBVIOUS
<1>2. \A y \in Node : Silence[y] = <<>>
  BY DEF Silence
<1>3. Elems(<<>>) = {}
  BY <1>1 DEF Elems
<1> QED  BY <1>1, <1>2, <1>3, SilenceType DEF Uniform, Done, Fail

LEMMA OneSent ==
  ASSUME NEW h \in Hub, NEW n, NEW msg \in Message,
         NEW result, result = SendToPeer(h, n, msg)
  PROVE  /\ Uniform(result.sent)
         /\ \A y \in Node : Elems(result.sent[y]) \subseteq {msg}
         /\ \A y \in Node \ {n} : Elems(result.sent[y]) = {}
         /\ result.hub = h \/ result.hub = Stop(h)
         /\ n \in h.peers => msg \in Elems(result.sent[n]) /\ result.hub = h
<1>1. /\ <<>> \in Seq(Message) /\ <<msg>> \in Seq(Message)
      /\ DOMAIN <<msg>> = {1} /\ <<msg>>[1] = msg /\ DOMAIN <<>> = {}
  OBVIOUS
<1>2. Elems(<<msg>>) = {msg} /\ Elems(<<>>) = {}
  BY <1>1 DEF Elems
<1>3. CASE n \in h.peers
  <2>1. n \in Node
    BY <1>3 DEF Hub
  <2>2. /\ result.hub = h
        /\ result.sent = [Silence EXCEPT ![n] = <<msg>>]
    BY <1>3 DEF SendToPeer
  <2>3. \A y \in Node : result.sent[y] = IF y = n THEN <<msg>> ELSE <<>>
    BY <2>2 DEF Silence
  <2>4. result.sent \in Outbox
    BY <1>1, <2>1, <2>2, SilenceType DEF Outbox
  <2>5. Uniform(result.sent)
    BY <1>1, <2>3, <2>4 DEF Uniform
  <2> QED  BY <1>2, <2>1, <2>2, <2>3, <2>5
<1>4. CASE n \notin h.peers
  BY <1>4, NothingSent DEF SendToPeer, Fail, Done
<1> QED  BY <1>3, <1>4

LEMMA AllSent ==
  ASSUME NEW h \in Hub, NEW msgs \in Seq(Message)
  PROVE  /\ Uniform(Broadcast(h, msgs).sent)
         /\ \A y \in Node : Elems(Broadcast(h, msgs).sent[y]) \subseteq Elems(msgs)
         /\ Broadcast(h, msgs).hub = h
<1> DEFINE out == Broadcast(h, msgs).sent
<1>1. <<>> \in Seq(Message) /\ DOMAIN <<>> = {}
  OBVIOUS
<1>2. out = [y \in Node |-> IF y \in h.peers THEN msgs ELSE <<>>]
  BY DEF Broadcast
<1> HIDE DEF out
<1>3. \A y \in Node : out[y] = msgs \/ out[y] = <<>>
  BY <1>2
<1>4. out \in Outbox
  BY <1>1, <1>2 DEF Outbox
<1>5. Elems(<<>>) = {}
  BY <1>1 DEF Elems
<1>6. Uniform(out) /\ \A y \in Node : Elems(out[y]) \subseteq Elems(msgs)
  BY <1>3, <1>4, <1>5 DEF Uniform
<1> QED  BY <1>6 DEF out, Broadcast

-----------------------------------------------------------------------------
(***************************************************************************)
(* The outcome of each handler.                                            *)
(***************************************************************************)
LEMMA NewBlockSends ==
  ASSUME NEW h \in Hub, PoolInv(h), Idle(h), NEW from, NEW b \in BlockId, NEW t
  PROVE  LET result == HandleNewBlock(h, from, b, t)
         IN /\ Uniform(result.sent)
            /\ \A y \in Node : \A msg \in Elems(result.sent[y]) :
                 /\ msg.type = "GetBlockRequest" /\ msg.id = Prev(b)
                 /\ y = from /\ ~KnowsBlock(h, b)
<1> DEFINE g == ValidateBlock(h, b, 0)
           i == AddInvalidBlock(h, b)
           root == BlockRoot(g, Prev(b))
           request == [type |-> "GetBlockRequest", id |-> root]
           result == HandleNewBlock(h, from, b, t)
<1>1. CASE KnowsBlock(h, b)
  BY <1>1, NothingSent DEF HandleNewBlock
<1>2. CASE ~KnowsBlock(h, b)
  <2>1. g \in Hub
    BY <1>2, UnknownIsFresh, ValidateKeepsPools
  <2>2. root \in BlockId
    <3>1. Genesis \in BlockId /\ Prev(b) \in BlockId
      BY <1>2, BlockAssumption DEF KnowsBlock, PoolInv, FormsTree, Prev
    <3>2. root = Genesis \/ root = Prev(b)
      BY DEF BlockRoot
    <3> QED  BY <3>1, <3>2
  <2>3. \/ result = Done(i) \/ result = Done(g) \/ result = Fail(g)
        \/ root = Prev(b) /\ result = SendToPeer(g, from, request)
    BY <1>2 DEF HandleNewBlock, BlockRoot
  <2> HIDE DEF g, i, root, result
  <2>4. /\ request \in Message
        /\ request.type = "GetBlockRequest" /\ request.id = root
    BY <2>2, BlockMessages
  <2> HIDE DEF request
  <2>5. CASE root = Prev(b) /\ result = SendToPeer(g, from, request)
    <3>1. /\ Uniform(result.sent)
          /\ \A y \in Node : Elems(result.sent[y]) \subseteq {request}
          /\ \A y \in Node \ {from} : Elems(result.sent[y]) = {}
      BY <2>1, <2>4, <2>5, OneSent
    <3> QED  BY <1>2, <2>4, <2>5, <3>1 DEF result
  <2>6. CASE result = Done(i) \/ result = Done(g) \/ result = Fail(g)
    BY <2>6, NothingSent DEF result
  <2> QED  BY <2>3, <2>5, <2>6
<1> QED  BY <1>1, <1>2

\* A NewBlock call, for the message it came with or for none.
LEMMA NewBlockOutcome ==
  ASSUME NEW n, NEW m, NEW read, Reads(n, m, read), NoAnswer(n, m, read),
         HubInv(hub[n]), Idle(hub[n]), NEW from, NEW b \in BlockId, NEW t
  PROVE  LET result == HandleNewBlock(hub[n], from, b, t)
         IN /\ AskOutcome(n, m, read, result)
            /\ HasSource(n, b) \/ (MinedHere(n, b) /\ Prev(b) \in hub[n].valid_blocks)
                 => BlockOutcome(n, result)
<1> DEFINE result == HandleNewBlock(hub[n], from, b, t)
<1>1. hub[n] \in Hub /\ PoolInv(hub[n]) /\ hub[n].running
  BY DEF HubInv, Idle
<1>2. /\ result.hub \in Hub /\ PoolInv(result.hub)
      /\ AcceptStep(hub[n], result.hub)
      /\ MovesOnly(hub[n], b, result.hub)
      /\ TreeStep(hub[n], result.hub)
  BY <1>1, NewBlockInOrder, NewBlockAccepts, NewBlockMovesOnly, NewBlockStep
     DEF InOrder, BlockStep
<1>3. /\ Uniform(result.sent)
      /\ \A y \in Node : \A msg \in Elems(result.sent[y]) :
           msg.type # "GetBlockResponse"
  BY <1>1, NewBlockSends
<1> HIDE DEF result
<1>4. AskOutcome(n, m, read, result)
  <2>1. /\ result.hub.annoucements = hub[n].annoucements
        /\ result.hub.mempool \subseteq hub[n].mempool
        /\ result.hub.peers = hub[n].peers
    BY <1>2 DEF AcceptStep, MovesOnly
  <2> QED  BY <1>1, <1>2, <1>3, <2>1, AskQuiet
<1>5. ASSUME HasSource(n, b) PROVE BlockOutcome(n, result)
  BY <1>2, <1>3, <1>5 DEF BlockOutcome, MovesOnly
<1>6. ASSUME MinedHere(n, b), Prev(b) \in hub[n].valid_blocks
      PROVE  BlockOutcome(n, result)
  BY <1>2, <1>3, <1>6 DEF BlockOutcome, MovesOnly
<1> QED  BY <1>4, <1>5, <1>6 DEF result

\* One turn of the loop of add_valid_block: the block was waiting.
LEMMA PendingOutcome ==
  ASSUME NEW n, Reads(n, n, 0), HubInv(hub[n]), hub[n].running,
         NEW b \in BlockId, hub[n].pending[b] > 0
  PROVE  LET result == Done(ValidatePending(hub[n], b))
         IN /\ b \in hub[n].unconfirmed_blocks
            /\ AskOutcome(n, n, 0, result)
            /\ HasSource(n, b) => BlockOutcome(n, result)
<1> DEFINE g == ValidatePending(hub[n], b)
           result == Done(g)
<1>1. hub[n] \in Hub /\ PoolInv(hub[n])
  BY DEF HubInv
<1>2. /\ g \in Hub /\ PoolInv(g)
      /\ AcceptStep(hub[n], g)
      /\ MovesOnly(hub[n], b, g)
      /\ TreeStep(hub[n], g)
      /\ b \in hub[n].unconfirmed_blocks
  BY <1>1, ValidatePendingKeepsPools, PendingAccepts, PendingMovesOnly, PendingStep
     DEF BlockStep
<1>3. /\ result.hub = g
      /\ Uniform(result.sent)
      /\ \A y \in Node : \A msg \in Elems(result.sent[y]) :
           msg.type # "GetBlockResponse"
  BY NothingSent DEF Done
<1> HIDE DEF g, result
<1>4. NoAnswer(n, n, 0)
  BY DEF NoAnswer
<1>5. AskOutcome(n, n, 0, result)
  <2>1. /\ result.hub.annoucements = hub[n].annoucements
        /\ result.hub.mempool \subseteq hub[n].mempool
        /\ result.hub.peers = hub[n].peers
    BY <1>2, <1>3 DEF AcceptStep, MovesOnly
  <2> QED  BY <1>2, <1>3, <1>4, <2>1, AskQuiet
<1>6. ASSUME HasSource(n, b) PROVE BlockOutcome(n, result)
  BY <1>2, <1>3, <1>6 DEF BlockOutcome, MovesOnly
<1> QED  BY <1>2, <1>5, <1>6 DEF result, g

\* The end of the NewBlock handler.
LEMMA AnnounceOutcome ==
  ASSUME NEW n, Reads(n, n, 0), HubInv(hub[n]), hub[n].running,
         \A b \in BlockId : hub[n].pending[b] = 0
  PROVE  LET result == AnnounceValid(hub[n])
         IN AskOutcome(n, n, 0, result) /\ BlockOutcome(n, result)
<1> DEFINE h == hub[n]
           g == [h EXCEPT !.valid_ids = <<>>]
           msgs == [i \in DOMAIN h.valid_ids |->
                      [type |-> "AnnounceBlock", id |-> h.valid_ids[i]]]
           result == AnnounceValid(h)
<1>1. h \in Hub /\ PoolInv(h)
  BY DEF HubInv
<1>2. result.hub \in Hub /\ PoolInv(result.hub) /\ result.sent \in Outbox
  BY <1>1, AnnounceInOrder DEF InOrder
<1>3. result = Broadcast(g, msgs) /\ result.hub = g
  BY DEF AnnounceValid, Broadcast
<1>4. /\ g.peers = h.peers /\ g.annoucements = h.annoucements
      /\ g.mempool = h.mempool /\ g.valid_blocks = h.valid_blocks
      /\ g.leading_block = h.leading_block
      /\ g.unconfirmed_blocks = h.unconfirmed_blocks
  BY <1>1 DEF Hub
<1>5. ASSUME NEW msg \in Elems(msgs) PROVE msg.type = "AnnounceBlock"
  <2>1. PICK i \in DOMAIN h.valid_ids : msg = msgs[i]
    BY DEF Elems
  <2>2. msgs[i] = [type |-> "AnnounceBlock", id |-> h.valid_ids[i]]
    BY <2>1
  <2> QED  BY <2>1, <2>2
<1>6. result.sent = [y \in Node |-> IF y \in g.peers THEN msgs ELSE <<>>]
  BY <1>3 DEF Broadcast
<1> HIDE DEF h, g, msgs, result
<1>7. Elems(<<>>) = {} /\ <<>> \in Seq(Message)
  BY DEF Elems
<1>8. \A y \in Node : result.sent[y] = msgs \/ result.sent[y] = <<>>
  BY <1>6
<1>9. Uniform(result.sent)
  <2>1. CASE \E y \in Node : result.sent[y] = msgs
    BY <1>2, <1>8, <2>1 DEF Uniform, Outbox
  <2>2. CASE ~\E y \in Node : result.sent[y] = msgs
    BY <1>2, <1>7, <1>8, <2>2 DEF Uniform
  <2> QED  BY <2>1, <2>2
<1>10. \A y \in Node : \A msg \in Elems(result.sent[y]) : msg.type # "GetBlockResponse"
  <2> SUFFICES ASSUME NEW y \in Node, NEW msg \in Elems(result.sent[y])
               PROVE  msg.type # "GetBlockResponse"
    OBVIOUS
  <2>1. msg \in Elems(msgs)
    BY <1>7, <1>8
  <2> QED  BY <1>5, <2>1
<1>11. NoAnswer(n, n, 0)
  BY DEF NoAnswer
<1>12. /\ result.hub.peers = hub[n].peers
       /\ result.hub.annoucements = hub[n].annoucements
       /\ result.hub.mempool = hub[n].mempool
       /\ result.hub.valid_blocks = hub[n].valid_blocks
       /\ result.hub.leading_block = hub[n].leading_block
       /\ result.hub.unconfirmed_blocks = hub[n].unconfirmed_blocks
  BY <1>3, <1>4 DEF h
<1>13. AskOutcome(n, n, 0, result)
  BY <1>2, <1>9, <1>11, <1>12, AskQuiet
<1>14. BlockOutcome(n, result)
  BY <1>10, <1>12, BlockQuiet
<1> QED  BY <1>13, <1>14 DEF result, h

LEMMA NewPeerOutcome ==
  ASSUME NEW n, Reads(n, n, 0), HubInv(hub[n]), hub[n].running,
         NEW p \in Node, {n, p} \in link
  PROVE  LET result == HandleNewPeer(hub[n], p)
         IN AskOutcome(n, n, 0, result) /\ BlockOutcome(n, result)
<1> DEFINE h == hub[n]
           g == [h EXCEPT !.peers = @ \cup {p}]
           result == HandleNewPeer(h, p)
<1>1. h \in Hub /\ PoolInv(h)
  BY DEF HubInv
<1>2. /\ g \in Hub /\ g.peers = h.peers \cup {p}
      /\ g.annoucements = h.annoucements /\ g.mempool = h.mempool
      /\ g.valid_blocks = h.valid_blocks /\ g.leading_block = h.leading_block
      /\ g.unconfirmed_blocks = h.unconfirmed_blocks
  BY <1>1 DEF Hub
<1>3. InOrder(result)
  BY <1>1, HubHandlersInOrder
<1>4. result = Done(h) \/ result = Done(g)
  BY DEF HandleNewPeer
<1>5. /\ Uniform(result.sent)
      /\ \A y \in Node : Elems(result.sent[y]) = {}
      /\ result.hub = h \/ result.hub = g
  <2> HIDE DEF g, result
  <2>1. result.hub = h \/ result.hub = g
    BY <1>4 DEF Done
  <2> QED  BY <1>4, <2>1, NothingSent
<1> HIDE DEF g, result
<1>6. /\ result.hub.peers = h.peers \/ result.hub.peers = h.peers \cup {p}
      /\ result.hub.annoucements = h.annoucements
      /\ result.hub.mempool = h.mempool
      /\ result.hub.valid_blocks = h.valid_blocks
      /\ result.hub.leading_block = h.leading_block
      /\ result.hub.unconfirmed_blocks = h.unconfirmed_blocks
  BY <1>2, <1>5
<1>7. HubInv(result.hub)
  BY <1>3, <1>6 DEF InOrder, HubInv
<1>8. AskOutcome(n, n, 0, result)
  BY <1>5, <1>6, <1>7 DEF AskOutcome
<1>9. BlockOutcome(n, result)
  BY <1>5, <1>6, BlockQuiet
<1> QED  BY <1>8, <1>9 DEF result

\* A transaction arrives: as an answer from m, or from a user.
LEMMA NewTransactionOutcome ==
  ASSUME NEW n, NEW m, NEW read, Reads(n, m, read), HubInv(hub[n]), hub[n].running,
         NEW t \in TxnId,
         read = 1 => /\ Head(stream[m][n]).type = "GetTransactionResponse"
                     /\ Head(stream[m][n]).id = t
  PROVE  LET result == HandleNewTransaction(hub[n], t)
         IN AskOutcome(n, m, read, result) /\ BlockOutcome(n, result)
<1> DEFINE h == hub[n]
           g == [h EXCEPT !.mempool = @ \cup {t}, !.annoucements = @ \ {t}]
           note == <<[type |-> "AnnounceTransaction", id |-> t]>>
           result == HandleNewTransaction(h, t)
<1>1. h \in Hub /\ PoolInv(h) /\ h.annoucements \cap h.mempool = {}
  BY DEF HubInv
<1>2. InOrder(result)
  BY <1>1, NewTransactionInOrder
<1>3. /\ g \in Hub /\ g.peers = h.peers
      /\ g.annoucements = h.annoucements \ {t} /\ g.mempool = h.mempool \cup {t}
      /\ g.valid_blocks = h.valid_blocks /\ g.leading_block = h.leading_block
      /\ g.unconfirmed_blocks = h.unconfirmed_blocks
  BY <1>1 DEF Hub
<1>4. /\ note \in Seq(Message)
      /\ \A msg \in Elems(note) : msg.type = "AnnounceTransaction"
  <2>1. [type |-> "AnnounceTransaction", id |-> t] \in Message
    BY TransactionMessages
  <2> QED  BY <2>1 DEF Elems
<1>5. \/ t \in h.mempool /\ result = Done(h)
      \/ t \notin h.mempool /\ result = Broadcast(g, note)
  BY DEF HandleNewTransaction
<1> HIDE DEF g, note, result
<1>6. /\ Uniform(result.sent)
      /\ \A y \in Node : \A msg \in Elems(result.sent[y]) : msg.type # "GetBlockResponse"
      /\ \/ t \in h.mempool /\ result.hub = h
         \/ t \notin h.mempool /\ result.hub = g
  <2>1. CASE t \in h.mempool /\ result = Done(h)
    <3>1. result.hub = h
      BY <2>1 DEF Done
    <3> QED  BY <2>1, <3>1, NothingSent
  <2>2. CASE t \notin h.mempool /\ result = Broadcast(g, note)
    BY <1>3, <1>4, <2>2, AllSent
  <2> QED  BY <1>5, <2>1, <2>2
<1>7. /\ result.hub.peers = h.peers
      /\ result.hub.annoucements = h.annoucements \ {t}
      /\ result.hub.annoucements \cap result.hub.mempool = {}
      /\ result.hub.valid_blocks = h.valid_blocks
      /\ result.hub.leading_block = h.leading_block
      /\ result.hub.unconfirmed_blocks = h.unconfirmed_blocks
  BY <1>1, <1>3, <1>6
<1>8. HubInv(result.hub)
  BY <1>2, <1>7 DEF InOrder, HubInv
<1>9. \A x : read = 1 => /\ Head(stream[m][n]) # Request(x)
                         /\ Head(stream[m][n]) = Response(x) => x = t
  <2>1. \A x : /\ Request(x).type = "GetTransactionRequest"
               /\ Response(x).id = x
    BY DEF Request, Response
  <2> QED  BY <2>1
<1>10. AskOutcome(n, m, read, result)
  BY <1>6, <1>7, <1>8, <1>9 DEF AskOutcome
<1>11. BlockOutcome(n, result)
  BY <1>6, <1>7, BlockQuiet
<1> QED  BY <1>10, <1>11 DEF result

\* m announces a transaction: it is asked for, unless it is known.
LEMMA AnnounceTransactionOutcome ==
  ASSUME NEW n, NEW m, Reads(n, m, 1), HubInv(hub[n]), hub[n].running,
         m \in hub[n].peers, NEW t \in TxnId,
         Head(stream[m][n]).type = "AnnounceTransaction"
  PROVE  LET result == HandleAnnounceTransaction(hub[n], m, t)
         IN AskOutcome(n, m, 1, result) /\ BlockOutcome(n, result)
<1> DEFINE h == hub[n]
           g == [h EXCEPT !.annoucements = @ \cup {t}]
           result == HandleAnnounceTransaction(h, m, t)
<1>1. h \in Hub /\ PoolInv(h) /\ h.annoucements \cap h.mempool = {} /\ m \in Node
  BY DEF HubInv, Reads
<1>2. InOrder(result)
  BY <1>1, TransactionHandlersInOrder
<1>3. /\ g \in Hub /\ g.peers = h.peers
      /\ g.annoucements = h.annoucements \cup {t} /\ g.mempool = h.mempool
      /\ g.valid_blocks = h.valid_blocks /\ g.leading_block = h.leading_block
      /\ g.unconfirmed_blocks = h.unconfirmed_blocks
  BY <1>1 DEF Hub
<1>4. Request(t) \in Message /\ Request(t).type = "GetTransactionRequest"
  BY TransactionMessages DEF Request
<1>5. NoAnswer(n, m, 1)
  BY DEF NoAnswer
<1>6. \/ result = Done(h)
      \/ t \notin h.mempool /\ result = SendToPeer(g, m, Request(t))
  BY DEF HandleAnnounceTransaction, Request
<1> HIDE DEF g, result
<1>7. ASSUME result = Done(h)
      PROVE  AskOutcome(n, m, 1, result) /\ BlockOutcome(n, result)
  <2>1. result.hub = h
    BY <1>7 DEF Done
  <2>2. /\ Uniform(result.sent)
        /\ \A y \in Node : \A msg \in Elems(result.sent[y]) : msg.type # "GetBlockResponse"
    BY <1>7, NothingSent
  <2> QED  BY <1>1, <1>5, <2>1, <2>2, AskQuiet, BlockQuiet
<1>8. ASSUME t \notin h.mempool, result = SendToPeer(g, m, Request(t))
      PROVE  AskOutcome(n, m, 1, result) /\ BlockOutcome(n, result)
  <2>1. /\ Uniform(result.sent)
        /\ \A y \in Node : Elems(result.sent[y]) \subseteq {Request(t)}
        /\ Request(t) \in Elems(result.sent[m])
        /\ result.hub = g
    BY <1>3, <1>4, <1>8, OneSent
  <2>2. HubInv(result.hub)
    BY <1>1, <1>2, <1>3, <1>8, <2>1 DEF InOrder, HubInv
  <2>3. \A x : Head(stream[m][n]) # Request(x) /\ Head(stream[m][n]) # Response(x)
    BY DEF Request, Response
  <2>4. AskOutcome(n, m, 1, result)
    BY <1>3, <2>1, <2>2, <2>3 DEF AskOutcome
  <2>5. BlockOutcome(n, result)
    BY <1>3, <1>4, <2>1, BlockQuiet
  <2> QED  BY <2>4, <2>5
<1> QED  BY <1>6, <1>7, <1>8 DEF result

\* m asks for a transaction: it is answered, or the hub stops.
LEMMA GetTransactionOutcome ==
  ASSUME NEW n, NEW m, Reads(n, m, 1), HubInv(hub[n]), hub[n].running,
         m \in hub[n].peers, NEW t \in TxnId,
         Head(stream[m][n]).type = "GetTransactionRequest",
         Head(stream[m][n]).id = t
  PROVE  LET result == HandleGetTransaction(hub[n], m, t)
         IN AskOutcome(n, m, 1, result) /\ BlockOutcome(n, result)
<1> DEFINE h == hub[n]
           result == HandleGetTransaction(h, m, t)
<1>1. h \in Hub /\ PoolInv(h) /\ h.annoucements \cap h.mempool = {}
  BY DEF HubInv
<1>2. /\ Response(t) \in Message /\ Response(t).type = "GetTransactionResponse"
      /\ \A x : /\ Request(x).id = x
                /\ Response(x).type = "GetTransactionResponse"
  BY TransactionMessages DEF Request, Response
<1>3. result = Fail(h) \/ result = SendToPeer(h, m, Response(t))
  BY DEF HandleGetTransaction, Response
<1> HIDE DEF result
<1>4. /\ Uniform(result.sent)
      /\ \A y \in Node : Elems(result.sent[y]) \subseteq {Response(t)}
      /\ \/ result.hub = Stop(h)
         \/ result.hub = h /\ Response(t) \in Elems(result.sent[m])
  <2>1. CASE result = Fail(h)
    <3>1. result.hub = Stop(h)
      BY <2>1 DEF Fail, Done
    <3> QED  BY <2>1, <3>1, NothingSent
  <2>2. CASE result = SendToPeer(h, m, Response(t))
    <3>1. h \in Hub /\ Response(t) \in Message /\ m \in h.peers
      BY <1>1, <1>2
    <3> HIDE DEF h
    <3>2. /\ Uniform(result.sent)
          /\ \A y \in Node : Elems(result.sent[y]) \subseteq {Response(t)}
          /\ m \in h.peers => Response(t) \in Elems(result.sent[m]) /\ result.hub = h
      BY <2>2, <3>1, OneSent
    <3> QED  BY <3>1, <3>2
  <2> QED  BY <1>3, <2>1, <2>2
<1>5. /\ ~Stop(h).running
      /\ HubInv(Stop(h))
      /\ Stop(h).peers = h.peers /\ Stop(h).annoucements = h.annoucements
      /\ Stop(h).valid_blocks = h.valid_blocks
      /\ Stop(h).leading_block = h.leading_block
      /\ Stop(h).unconfirmed_blocks = h.unconfirmed_blocks
  BY StopKeepsHub DEF h
<1>6. HubInv(result.hub)
  BY <1>4, <1>5
<1>7. /\ result.hub.peers = h.peers /\ result.hub.annoucements = h.annoucements
      /\ result.hub.valid_blocks = h.valid_blocks
      /\ result.hub.leading_block = h.leading_block
      /\ result.hub.unconfirmed_blocks = h.unconfirmed_blocks
      /\ result.hub.running => Response(t) \in Elems(result.sent[m])
  BY <1>4, <1>5
<1>8. /\ \A x : Head(stream[m][n]) # Response(x)
      /\ \A x : Head(stream[m][n]) = Request(x) => x = t
  BY <1>2
<1>9. AskOutcome(n, m, 1, result)
  BY <1>4, <1>6, <1>7, <1>8 DEF AskOutcome
<1>10. BlockOutcome(n, result)
  BY <1>2, <1>4, <1>7, BlockQuiet
<1> QED  BY <1>9, <1>10 DEF result

\* m announces a block, or asks for one.
LEMMA BlockRequestOutcome ==
  ASSUME NEW n, NEW m, Reads(n, m, 1), HubInv(hub[n]), hub[n].running,
         NEW b \in BlockId, NoAnswer(n, m, 1),
         NEW result,
         result \in {HandleAnnounceBlock(hub[n], m, b), HandleGetBlock(hub[n], m, b)}
  PROVE  AskOutcome(n, m, 1, result) /\ BlockOutcome(n, result)
<1> DEFINE h == hub[n]
           ask == [type |-> "GetBlockRequest", id |-> b]
           give == [type |-> "GetBlockResponse", id |-> b]
<1>1. h \in Hub /\ PoolInv(h)
  BY DEF HubInv
<1>2. /\ ask \in Message /\ ask.type = "GetBlockRequest"
      /\ give \in Message /\ give.id = b
  BY BlockMessages
<1>3. \/ result = Done(h)
      \/ result = Fail(h)
      \/ result = SendToPeer(h, m, ask)
      \/ b \in h.valid_blocks /\ result = SendToPeer(h, m, give)
  BY DEF HandleAnnounceBlock, HandleGetBlock
<1>4. /\ Stop(h) \in Hub /\ PoolInv(Stop(h))
      /\ Stop(h).peers = h.peers /\ Stop(h).annoucements = h.annoucements
      /\ Stop(h).mempool = h.mempool
      /\ Stop(h).valid_blocks = h.valid_blocks
      /\ Stop(h).leading_block = h.leading_block
      /\ Stop(h).unconfirmed_blocks = h.unconfirmed_blocks
  BY StopKeepsHub DEF HubInv, h
<1> HIDE DEF ask, give
<1>5. /\ Uniform(result.sent)
      /\ \A y \in Node : \A msg \in Elems(result.sent[y]) :
           msg.type = "GetBlockResponse" => msg.id \in h.valid_blocks
      /\ result.hub = h \/ result.hub = Stop(h)
  <2>1. ASSUME result = Done(h) \/ result = Fail(h)
        PROVE  result.hub = h \/ result.hub = Stop(h)
    BY <2>1 DEF Done, Fail
  <2>2. CASE result = Done(h) \/ result = Fail(h)
    BY <2>1, <2>2, NothingSent
  <2>3. CASE result = SendToPeer(h, m, ask)
    <3>1. h \in Hub /\ ask \in Message /\ result = SendToPeer(h, m, ask)
      BY <1>1, <1>2, <2>3
    <3> HIDE DEF h
    <3>2. /\ Uniform(result.sent)
          /\ \A y \in Node : Elems(result.sent[y]) \subseteq {ask}
          /\ result.hub = h \/ result.hub = Stop(h)
      BY <3>1, OneSent
    <3> QED  BY <1>2, <2>3, <3>2
  <2>4. CASE b \in h.valid_blocks /\ result = SendToPeer(h, m, give)
    <3>1. h \in Hub /\ give \in Message /\ result = SendToPeer(h, m, give)
      BY <1>1, <1>2, <2>4
    <3> HIDE DEF h
    <3>2. /\ Uniform(result.sent)
          /\ \A y \in Node : Elems(result.sent[y]) \subseteq {give}
          /\ result.hub = h \/ result.hub = Stop(h)
      BY <3>1, OneSent
    <3> QED  BY <1>2, <2>4, <3>2
  <2> QED  BY <1>3, <2>2, <2>3, <2>4
<1>6. /\ result.hub \in Hub /\ PoolInv(result.hub)
      /\ result.hub.peers = h.peers
      /\ result.hub.annoucements = h.annoucements
      /\ result.hub.mempool = h.mempool
      /\ result.hub.valid_blocks = h.valid_blocks
      /\ result.hub.leading_block = h.leading_block
      /\ result.hub.unconfirmed_blocks = h.unconfirmed_blocks
  BY <1>1, <1>4, <1>5
<1>7. AskOutcome(n, m, 1, result)
  BY <1>5, <1>6, AskQuiet
<1>8. BlockOutcome(n, result)
  BY <1>5, <1>6 DEF BlockOutcome, TreeStep
<1> QED  BY <1>7, <1>8

-----------------------------------------------------------------------------
(***************************************************************************)
(* What a hub says is so, and what it asks for is there: why the requests  *)
(* of the protocol do not fail, but for a transaction in a block.          *)
(***************************************************************************)

\* A block that h has accepted holds t; or t is in h's mempool.
CollectedBy(h, t) == \E b \in h.valid_blocks : t \in Transactions(b)
Had(h, t) == t \in h.mempool \/ CollectedBy(h, t)

\* A message from g to r is about what g has, or asks for what r has.
Truthful(g, r, msg) ==
  /\ msg.type = "AnnounceBlock" => msg.id \in g.valid_blocks
  /\ msg.type = "AnnounceTransaction" => Had(g, msg.id)
  /\ msg.type = "GetBlockRequest" => msg.id \in r.valid_blocks
  /\ msg.type = "GetTransactionRequest" => Had(r, msg.id)

\* A hub forgets no block, and a transaction only when it accepts a block with it.
Keeps(h, g) ==
  /\ h.valid_blocks \subseteq g.valid_blocks
  /\ \A t : Had(h, t) => Had(g, t)

\* The result of a hub that keeps what it has and says what is so; and if it stops
\* a block had collected a transaction, unless its chains disagree.
Says(n, result) ==
  /\ Keeps(hub[n], result.hub)
  /\ Elems(result.hub.valid_ids) \subseteq result.hub.valid_blocks
  /\ \A y \in Node : \A msg \in Elems(result.sent[y]) : Truthful(result.hub, hub[y], msg)
  /\ AgreeOnAdjustments(hub[n]) /\ ~result.hub.running =>
       \E t \in TxnId : CollectedBy(result.hub, t)

LEMMA StaysTruthful ==
  ASSUME NEW g, NEW r, NEW msg, Truthful(g, r, msg), NEW g1, NEW r1,
         Keeps(g, g1), Keeps(r, r1)
  PROVE  Truthful(g1, r1, msg)
BY DEF Truthful, Keeps

\* Only these parts of a hub matter.
LEMMA KeepsParts ==
  ASSUME NEW h, NEW g, h.valid_blocks \subseteq g.valid_blocks,
         h.mempool \subseteq g.mempool
  PROVE  Keeps(h, g)
BY DEF Keeps, Had, CollectedBy

LEMMA ElemsOfAppend ==
  ASSUME NEW s \in Seq(BlockId), NEW b \in BlockId
  PROVE  Elems(Append(s, b)) \subseteq Elems(s) \cup {b}
<1>1. /\ DOMAIN Append(s, b) = 1 .. Len(s) + 1 /\ DOMAIN s = 1 .. Len(s)
      /\ Len(s) \in Nat
      /\ \A i \in 1 .. Len(s) : Append(s, b)[i] = s[i]
      /\ Append(s, b)[Len(s) + 1] = b
  OBVIOUS
<1> SUFFICES ASSUME NEW i \in 1 .. Len(s) + 1
             PROVE  Append(s, b)[i] \in Elems(s) \cup {b}
  BY <1>1 DEF Elems
<1>2. CASE i \in 1 .. Len(s)
  BY <1>1, <1>2 DEF Elems
<1>3. CASE i = Len(s) + 1
  BY <1>1, <1>3
<1> QED  BY <1>1, <1>2, <1>3

LEMMA AcceptKeeps ==
  ASSUME NEW h \in Hub, NEW g \in Hub, AcceptStep(h, g),
         Elems(h.valid_ids) \subseteq h.valid_blocks
  PROVE  Keeps(h, g) /\ Elems(g.valid_ids) \subseteq g.valid_blocks
<1>1. CASE /\ g.valid_blocks = h.valid_blocks
           /\ g.valid_ids = h.valid_ids
           /\ g.mempool = h.mempool
  BY <1>1, KeepsParts
<1>2. ASSUME NEW b \in BlockId,
             g.valid_blocks = h.valid_blocks \cup {b},
             g.valid_ids = Append(h.valid_ids, b),
             g.mempool = h.mempool \ Transactions(b)
      PROVE  Keeps(h, g) /\ Elems(g.valid_ids) \subseteq g.valid_blocks
  <2>1. Keeps(h, g)
    BY <1>2 DEF Keeps, Had, CollectedBy
  <2>2. h.valid_ids \in Seq(BlockId)
    BY DEF Hub
  <2> QED  BY <1>2, <2>1, <2>2, ElemsOfAppend
<1> QED  BY <1>1, <1>2 DEF AcceptStep

\* The result of a handler that changes nothing in the pools and goes on.
LEMMA SaysQuiet ==
  ASSUME NEW n, HubInv(hub[n]), hub[n].running,
         Elems(hub[n].valid_ids) \subseteq hub[n].valid_blocks,
         NEW result,
         result.hub.valid_blocks = hub[n].valid_blocks,
         hub[n].mempool \subseteq result.hub.mempool,
         result.hub.valid_ids = hub[n].valid_ids \/ Elems(result.hub.valid_ids) = {},
         result.hub.running = hub[n].running,
         \A y \in Node : \A msg \in Elems(result.sent[y]) : Truthful(result.hub, hub[y], msg)
  PROVE  Says(n, result)
<1>1. Keeps(hub[n], result.hub)
  BY KeepsParts
<1> QED  BY <1>1 DEF Says

\* A hub judges blocks, and asks the sender of one for its parent, which that has.
LEMMA NewBlockSays ==
  ASSUME NEW n, HubInv(hub[n]), Idle(hub[n]),
         Elems(hub[n].valid_ids) \subseteq hub[n].valid_blocks,
         NEW from \in hub[n].peers \cup {NoNode}, NEW b \in BlockId, NEW t,
         from # NoNode => FormsTree(hub[from]) /\ b \in hub[from].valid_blocks
  PROVE  Says(n, HandleNewBlock(hub[n], from, b, t))
<1> DEFINE result == HandleNewBlock(hub[n], from, b, t)
<1>1. hub[n] \in Hub /\ PoolInv(hub[n]) /\ hub[n].running
  BY DEF HubInv, Idle
<1>2. result.hub \in Hub /\ AcceptStep(hub[n], result.hub)
  BY <1>1, NewBlockInOrder, NewBlockAccepts DEF InOrder
<1>3. \A y \in Node : \A msg \in Elems(result.sent[y]) :
        /\ msg.type = "GetBlockRequest" /\ msg.id = Prev(b)
        /\ y = from /\ ~KnowsBlock(hub[n], b)
  BY <1>1, NewBlockSends
<1>4. AgreeOnAdjustments(hub[n]) => result.hub.running
  BY <1>1, NewBlockJudges DEF JudgeStep, AgreeOnAdjustments
<1> HIDE DEF result
<1>5. ASSUME NEW y \in Node, NEW msg \in Elems(result.sent[y])
      PROVE  Truthful(result.hub, hub[y], msg)
  <2>1. msg.type = "GetBlockRequest" /\ msg.id = Prev(b) /\ y = from
    BY <1>3
  <2>2. b # Genesis
    BY <1>1, <1>3 DEF KnowsBlock, PoolInv, FormsTree
  <2>3. Prev(b) \in hub[y].valid_blocks
    BY <2>1, <2>2, NodeAssumption DEF FormsTree
  <2> QED  BY <2>1, <2>3 DEF Truthful
<1>6. Keeps(hub[n], result.hub) /\ Elems(result.hub.valid_ids) \subseteq result.hub.valid_blocks
  BY <1>1, <1>2, AcceptKeeps
<1>7. Says(n, result)
  BY <1>4, <1>5, <1>6 DEF Says
<1> QED  BY <1>7 DEF result

LEMMA PendingSays ==
  ASSUME NEW n, HubInv(hub[n]), hub[n].running,
         Elems(hub[n].valid_ids) \subseteq hub[n].valid_blocks,
         NEW b \in BlockId, hub[n].pending[b] > 0
  PROVE  Says(n, Done(ValidatePending(hub[n], b)))
<1> DEFINE g == ValidatePending(hub[n], b)
           result == Done(g)
<1>1. hub[n] \in Hub /\ PoolInv(hub[n])
  BY DEF HubInv
<1>2. g \in Hub /\ AcceptStep(hub[n], g)
  BY <1>1, ValidatePendingKeepsPools, PendingAccepts
<1>3. AgreeOnAdjustments(hub[n]) => g.running
  BY <1>1, PendingJudges DEF JudgeStep, AgreeOnAdjustments
<1>4. result.hub = g /\ \A y \in Node : Elems(result.sent[y]) = {}
  BY NothingSent DEF Done
<1> HIDE DEF g, result
<1>5. Keeps(hub[n], g) /\ Elems(g.valid_ids) \subseteq g.valid_blocks
  BY <1>1, <1>2, AcceptKeeps
<1>6. Says(n, result)
  BY <1>3, <1>4, <1>5 DEF Says
<1> QED  BY <1>6 DEF result, g

\* It announces what it has accepted.
LEMMA AnnounceSays ==
  ASSUME NEW n, HubInv(hub[n]), hub[n].running,
         Elems(hub[n].valid_ids) \subseteq hub[n].valid_blocks
  PROVE  Says(n, AnnounceValid(hub[n]))
<1> DEFINE h == hub[n]
           g == [h EXCEPT !.valid_ids = <<>>]
           msgs == [i \in DOMAIN h.valid_ids |->
                      [type |-> "AnnounceBlock", id |-> h.valid_ids[i]]]
           result == AnnounceValid(h)
<1>1. /\ g.valid_blocks = h.valid_blocks /\ g.mempool = h.mempool
      /\ g.valid_ids = <<>> /\ g.running = h.running
  BY DEF HubInv, Hub
<1>2. /\ result.hub = g
      /\ result.sent = [y \in Node |-> IF y \in g.peers THEN msgs ELSE <<>>]
  BY DEF AnnounceValid, Broadcast
<1>3. ASSUME NEW msg \in Elems(msgs)
      PROVE  msg.type = "AnnounceBlock" /\ msg.id \in h.valid_blocks
  <2>1. PICK i \in DOMAIN h.valid_ids : msg = msgs[i]
    BY DEF Elems
  <2>2. /\ msgs[i] = [type |-> "AnnounceBlock", id |-> h.valid_ids[i]]
        /\ h.valid_ids[i] \in h.valid_blocks
    BY DEF Elems
  <2> QED  BY <2>1, <2>2
<1> HIDE DEF g, msgs, result
<1>4. DOMAIN <<>> = {}
  OBVIOUS
<1>5. Elems(<<>>) = {}
  BY <1>4 DEF Elems
<1>6. ASSUME NEW y \in Node, NEW msg \in Elems(result.sent[y])
      PROVE  Truthful(result.hub, hub[y], msg)
  <2>1. result.sent[y] = msgs \/ result.sent[y] = <<>>
    BY <1>2
  <2>2. msg \in Elems(msgs)
    BY <1>5, <2>1
  <2> QED  BY <1>1, <1>2, <1>3, <2>2 DEF Truthful
<1>7. Says(n, result)
  BY <1>1, <1>2, <1>5, <1>6, SaysQuiet
<1> QED  BY <1>7 DEF result

LEMMA NewPeerSays ==
  ASSUME NEW n, HubInv(hub[n]), hub[n].running,
         Elems(hub[n].valid_ids) \subseteq hub[n].valid_blocks, NEW p
  PROVE  Says(n, HandleNewPeer(hub[n], p))
<1> DEFINE h == hub[n]
           g == [h EXCEPT !.peers = @ \cup {p}]
           result == HandleNewPeer(h, p)
<1>1. /\ g.valid_blocks = h.valid_blocks /\ g.mempool = h.mempool
      /\ g.valid_ids = h.valid_ids /\ g.running = h.running
  BY DEF HubInv, Hub
<1>2. result = Done(h) \/ result = Done(g)
  BY DEF HandleNewPeer
<1> HIDE DEF g, result
<1>3. /\ result.hub = h \/ result.hub = g
      /\ \A y \in Node : Elems(result.sent[y]) = {}
  BY <1>2, NothingSent DEF Done
<1>4. Says(n, result)
  BY <1>1, <1>3, SaysQuiet
<1> QED  BY <1>4 DEF result

\* It announces a transaction that it has just put in its mempool.
LEMMA NewTransactionSays ==
  ASSUME NEW n, HubInv(hub[n]), hub[n].running,
         Elems(hub[n].valid_ids) \subseteq hub[n].valid_blocks, NEW t \in TxnId
  PROVE  Says(n, HandleNewTransaction(hub[n], t))
<1> DEFINE h == hub[n]
           g == [h EXCEPT !.mempool = @ \cup {t}, !.annoucements = @ \ {t}]
           msg1 == [type |-> "AnnounceTransaction", id |-> t]
           note == <<msg1>>
           result == HandleNewTransaction(h, t)
<1>1. /\ g \in Hub /\ g.valid_blocks = h.valid_blocks
      /\ g.mempool = h.mempool \cup {t}
      /\ g.valid_ids = h.valid_ids /\ g.running = h.running
  BY DEF HubInv, Hub
<1>2. /\ note \in Seq(Message) /\ Elems(note) \subseteq {msg1}
      /\ msg1.type = "AnnounceTransaction" /\ msg1.id = t
  <2>1. msg1 \in Message
    BY TransactionMessages
  <2> QED  BY <2>1 DEF Elems
<1>3. result = Done(h) \/ result = Broadcast(g, note)
  BY DEF HandleNewTransaction
<1> HIDE DEF g, note, msg1, result
<1>4. CASE result = Done(h)
  <2>1. /\ result.hub = h
        /\ \A y \in Node : Elems(result.sent[y]) = {}
    BY <1>4, NothingSent DEF Done
  <2>2. Says(n, result)
    BY <2>1, SaysQuiet
  <2> QED  BY <2>2 DEF result
<1>5. CASE result = Broadcast(g, note)
  <2>1. /\ result.hub = g
        /\ \A y \in Node : Elems(result.sent[y]) \subseteq {msg1}
    BY <1>1, <1>2, <1>5, AllSent
  <2>2. \A y \in Node : \A msg \in Elems(result.sent[y]) : Truthful(result.hub, hub[y], msg)
    BY <1>1, <1>2, <2>1 DEF Truthful, Had
  <2>3. Says(n, result)
    BY <1>1, <2>1, <2>2, SaysQuiet
  <2> QED  BY <2>3 DEF result
<1> QED  BY <1>3, <1>4, <1>5

\* It asks a peer for a transaction the peer has announced.
LEMMA AnnounceTransactionSays ==
  ASSUME NEW n, HubInv(hub[n]), hub[n].running,
         Elems(hub[n].valid_ids) \subseteq hub[n].valid_blocks,
         NEW m \in hub[n].peers, NEW t \in TxnId, Had(hub[m], t)
  PROVE  Says(n, HandleAnnounceTransaction(hub[n], m, t))
<1> DEFINE h == hub[n]
           g == [h EXCEPT !.annoucements = @ \cup {t}]
           result == HandleAnnounceTransaction(h, m, t)
<1>1. /\ g \in Hub /\ m \in g.peers /\ g.valid_blocks = h.valid_blocks
      /\ g.mempool = h.mempool
      /\ g.valid_ids = h.valid_ids /\ g.running = h.running
  BY DEF HubInv, Hub
<1>2. /\ Request(t) \in Message /\ Request(t).type = "GetTransactionRequest"
      /\ Request(t).id = t
  BY TransactionMessages DEF Request
<1>3. result = Done(h) \/ result = SendToPeer(g, m, Request(t))
  BY DEF HandleAnnounceTransaction, Request
<1> HIDE DEF g, result
<1>4. CASE result = Done(h)
  <2>1. /\ result.hub = h
        /\ \A y \in Node : Elems(result.sent[y]) = {}
    BY <1>4, NothingSent DEF Done
  <2>2. Says(n, result)
    BY <2>1, SaysQuiet
  <2> QED  BY <2>2 DEF result
<1>5. CASE result = SendToPeer(g, m, Request(t))
  <2>1. /\ result.hub = g
        /\ \A y \in Node : Elems(result.sent[y]) \subseteq {Request(t)}
        /\ \A y \in Node \ {m} : Elems(result.sent[y]) = {}
    <3>1. /\ g \in Hub /\ m \in g.peers /\ Request(t) \in Message
          /\ result = SendToPeer(g, m, Request(t))
      BY <1>1, <1>2, <1>5
    <3> HIDE DEF h
    <3> QED  BY <3>1, OneSent
  <2>2. ASSUME NEW y \in Node, NEW msg \in Elems(result.sent[y])
        PROVE  Truthful(result.hub, hub[y], msg)
    <3>1. msg = Request(t) /\ y = m
      BY <2>1
    <3> QED  BY <1>2, <3>1 DEF Truthful
  <2>3. Says(n, result)
    BY <1>1, <2>1, <2>2, SaysQuiet
  <2> QED  BY <2>3 DEF result
<1> QED  BY <1>3, <1>4, <1>5

\* It is asked for a transaction that it had: it answers, or a block took it.
LEMMA GetTransactionSays ==
  ASSUME NEW n, HubInv(hub[n]), hub[n].running,
         Elems(hub[n].valid_ids) \subseteq hub[n].valid_blocks,
         NEW m \in hub[n].peers, NEW t \in TxnId, Had(hub[n], t)
  PROVE  Says(n, HandleGetTransaction(hub[n], m, t))
<1> DEFINE h == hub[n]
           result == HandleGetTransaction(h, m, t)
<1>1. h \in Hub /\ m \in h.peers
  BY DEF HubInv
<1>2. Response(t) \in Message /\ Response(t).type = "GetTransactionResponse"
  BY TransactionMessages DEF Response
<1>3. \/ t \in h.mempool /\ result = SendToPeer(h, m, Response(t))
      \/ t \notin h.mempool /\ result = Fail(h)
  BY DEF HandleGetTransaction, Response
<1> HIDE DEF result
<1>4. CASE t \in h.mempool /\ result = SendToPeer(h, m, Response(t))
  <2>1. /\ result.hub = h
        /\ \A y \in Node : Elems(result.sent[y]) \subseteq {Response(t)}
    <3> HIDE DEF h
    <3> QED  BY <1>1, <1>2, <1>4, OneSent
  <2>2. \A y \in Node : \A msg \in Elems(result.sent[y]) : Truthful(result.hub, hub[y], msg)
    BY <1>2, <2>1 DEF Truthful
  <2>3. Says(n, result)
    BY <2>1, <2>2, SaysQuiet
  <2> QED  BY <2>3 DEF result
<1>5. CASE t \notin h.mempool /\ result = Fail(h)
  <2>1. CollectedBy(h, t)
    BY <1>5 DEF Had
  <2>2. /\ Stop(h).valid_blocks = h.valid_blocks /\ Stop(h).mempool = h.mempool
        /\ Stop(h).valid_ids = h.valid_ids
    BY <1>1 DEF Stop, Hub
  <2>3. /\ result.hub = Stop(h)
        /\ \A y \in Node : Elems(result.sent[y]) = {}
    BY <1>5, NothingSent DEF Fail, Done
  <2>4. Keeps(h, result.hub) /\ CollectedBy(result.hub, t)
    BY <2>1, <2>2, <2>3, KeepsParts DEF CollectedBy
  <2>5. Says(n, result)
    BY <2>2, <2>3, <2>4 DEF Says
  <2> QED  BY <2>5 DEF result
<1> QED  BY <1>3, <1>4, <1>5

\* It asks a peer for a block the peer has announced; and it has what it is asked.
LEMMA BlockRequestSays ==
  ASSUME NEW n, HubInv(hub[n]), hub[n].running,
         Elems(hub[n].valid_ids) \subseteq hub[n].valid_blocks,
         NEW m \in hub[n].peers, NEW b \in BlockId, NEW result,
         \/ result = HandleAnnounceBlock(hub[n], m, b) /\ b \in hub[m].valid_blocks
         \/ result = HandleGetBlock(hub[n], m, b) /\ b \in hub[n].valid_blocks
  PROVE  Says(n, result)
<1> DEFINE h == hub[n]
           ask == [type |-> "GetBlockRequest", id |-> b]
           give == [type |-> "GetBlockResponse", id |-> b]
<1>1. h \in Hub /\ m \in h.peers
  BY DEF HubInv
<1>2. /\ ask \in Message /\ ask.type = "GetBlockRequest" /\ ask.id = b
      /\ give \in Message /\ give.type = "GetBlockResponse"
  BY BlockMessages
<1>3. \/ result = Done(h)
      \/ b \in hub[m].valid_blocks /\ result = SendToPeer(h, m, ask)
      \/ result = SendToPeer(h, m, give)
  BY DEF HandleAnnounceBlock, HandleGetBlock
<1> HIDE DEF ask, give
<1>4. CASE result = Done(h)
  <2>1. /\ result.hub = h
        /\ \A y \in Node : Elems(result.sent[y]) = {}
    BY <1>4, NothingSent DEF Done
  <2> QED  BY <2>1, SaysQuiet
<1>5. CASE b \in hub[m].valid_blocks /\ result = SendToPeer(h, m, ask)
  <2>1. /\ result.hub = h
        /\ \A y \in Node : Elems(result.sent[y]) \subseteq {ask}
        /\ \A y \in Node \ {m} : Elems(result.sent[y]) = {}
    <3> HIDE DEF h
    <3> QED  BY <1>1, <1>2, <1>5, OneSent
  <2>2. \A y \in Node : \A msg \in Elems(result.sent[y]) : Truthful(result.hub, hub[y], msg)
    BY <1>2, <1>5, <2>1 DEF Truthful
  <2> QED  BY <2>1, <2>2, SaysQuiet
<1>6. CASE result = SendToPeer(h, m, give)
  <2>1. /\ result.hub = h
        /\ \A y \in Node : Elems(result.sent[y]) \subseteq {give}
    <3> HIDE DEF h
    <3> QED  BY <1>1, <1>2, <1>6, OneSent
  <2>2. \A y \in Node : \A msg \in Elems(result.sent[y]) : Truthful(result.hub, hub[y], msg)
    BY <1>2, <2>1 DEF Truthful
  <2> QED  BY <2>1, <2>2, SaysQuiet
<1> QED  BY <1>3, <1>4, <1>5, <1>6

-----------------------------------------------------------------------------
(***************************************************************************)
(* The invariant, and the steps of the network.                            *)
(***************************************************************************)
NetInv ==
  /\ TypeOK
  /\ \A n \in Node : HubInv(hub[n])
  /\ \A n \in Node : \A m \in hub[n].peers : {n, m} \in link

\* What waits at a node, or is on its way to it as an answer, another node has
\* accepted; and what is still to be mined nobody has.
Sources ==
  /\ \A n \in Node : \A b \in hub[n].unconfirmed_blocks : HasSource(n, b)
  /\ \A m, n \in Node : \A msg \in Messages(m, n) :
       msg.type = "GetBlockResponse" => msg.id \in hub[m].valid_blocks
  /\ \A n, m \in Node : \A i \in DOMAIN todo[n] : todo[n][i] \notin hub[m].valid_blocks
  /\ \A n, m \in Node : \A i \in DOMAIN todo[n], j \in DOMAIN todo[m] :
       todo[n][i] = todo[m][j] /\ todo[n][i] \in BlockId => n = m /\ i = j

\* What is in the streams is so, and what a hub is about to announce it has.
Flight ==
  /\ \A n \in Node : Elems(hub[n].valid_ids) \subseteq hub[n].valid_blocks
  /\ \A m, n \in Node : \A msg \in Messages(m, n) : Truthful(hub[m], hub[n], msg)

Outcome(n, m, read, result) ==
  /\ AskOutcome(n, m, read, result)
  /\ Sources => BlockOutcome(n, result)
  /\ Sources /\ Flight => Says(n, result)

\* The links stay; users and miners may submit the next of what they have to.
Submits(n) ==
  /\ link' = link
  /\ todo' = todo \/ (todo[n] # <<>> /\ todo' = [todo EXCEPT ![n] = Tail(@)])

\* A step of n's hub.
HubStep(n, m, read, result) ==
  Outcome(n, m, read, result) /\ Handle(n, m, read, result) /\ Submits(n)

LEMMA ReceiveSteps ==
  ASSUME NetInv, NEW n \in Node, NEW m \in Node, Receive(n, m)
  PROVE  \E result : HubStep(n, m, 1, result)
<1> DEFINE msg == Head(stream[m][n])
           result == Handler(n, m, msg)
<1>1. /\ HubInv(hub[n]) /\ Idle(hub[n]) /\ hub[n].running
      /\ m \in hub[n].peers /\ {n, m} \in link
      /\ stream[m][n] \in Seq(Message) /\ stream[m][n] # <<>>
      /\ Handle(n, m, 1, result) /\ Submits(n)
  BY DEF Receive, NetInv, TypeOK, Idle, Submits
<1>2. /\ msg \in Message /\ Reads(n, m, 1) /\ msg \in Messages(m, n)
  <2>1. Len(stream[m][n]) \in Nat /\ Len(stream[m][n]) # 0
        /\ DOMAIN stream[m][n] = 1 .. Len(stream[m][n])
        /\ msg = stream[m][n][1]
    BY <1>1
  <2> QED  BY <1>1, <2>1 DEF Reads, Messages
<1>3. SUFFICES Outcome(n, m, 1, result)
  BY <1>1 DEF HubStep
<1>told. Flight => /\ Elems(hub[n].valid_ids) \subseteq hub[n].valid_blocks
                 /\ Truthful(hub[m], hub[n], msg)
  BY <1>1, <1>2 DEF Flight, Reads
<1>4. \/ /\ msg.type \in {"AnnounceBlock", "GetBlockRequest", "GetBlockResponse"}
         /\ msg.id \in BlockId
      \/ /\ msg.type \in {"AnnounceTransaction", "GetTransactionRequest",
                          "GetTransactionResponse"}
         /\ msg.id \in TxnId
  BY <1>2 DEF Message
<1>5. ASSUME msg.type = "AnnounceTransaction", msg.id \in TxnId
      PROVE  Outcome(n, m, 1, result)
  <2>1. AskOutcome(n, m, 1, result) /\ BlockOutcome(n, result)
    BY <1>1, <1>2, <1>5, AnnounceTransactionOutcome DEF Handler
  <2>2. Flight => Says(n, result)
    BY <1>1, <1>5, <1>told, AnnounceTransactionSays DEF Handler, Truthful
  <2> QED  BY <2>1, <2>2 DEF Outcome
<1>6. ASSUME msg.type = "GetTransactionRequest", msg.id \in TxnId
      PROVE  Outcome(n, m, 1, result)
  <2>1. AskOutcome(n, m, 1, result) /\ BlockOutcome(n, result)
    BY <1>1, <1>2, <1>6, GetTransactionOutcome DEF Handler
  <2>2. Flight => Says(n, result)
    BY <1>1, <1>6, <1>told, GetTransactionSays DEF Handler, Truthful
  <2> QED  BY <2>1, <2>2 DEF Outcome
<1>7. ASSUME msg.type = "GetTransactionResponse", msg.id \in TxnId
      PROVE  Outcome(n, m, 1, result)
  <2>1. AskOutcome(n, m, 1, result) /\ BlockOutcome(n, result)
    BY <1>1, <1>2, <1>7, NewTransactionOutcome DEF Handler
  <2>2. Flight => Says(n, result)
    BY <1>1, <1>7, <1>told, NewTransactionSays DEF Handler, Truthful
  <2> QED  BY <2>1, <2>2 DEF Outcome
<1>8. ASSUME msg.type = "AnnounceBlock", msg.id \in BlockId
      PROVE  Outcome(n, m, 1, result)
  <2>1. AskOutcome(n, m, 1, result) /\ BlockOutcome(n, result)
    BY <1>1, <1>2, <1>8, BlockRequestOutcome DEF Handler, NoAnswer
  <2>2. Flight => Says(n, result)
    BY <1>1, <1>8, <1>told, BlockRequestSays DEF Handler, Truthful
  <2> QED  BY <2>1, <2>2 DEF Outcome
<1>9. ASSUME msg.type = "GetBlockRequest", msg.id \in BlockId
      PROVE  Outcome(n, m, 1, result)
  <2>1. AskOutcome(n, m, 1, result) /\ BlockOutcome(n, result)
    BY <1>1, <1>2, <1>9, BlockRequestOutcome DEF Handler, NoAnswer
  <2>2. Flight => Says(n, result)
    BY <1>1, <1>9, <1>told, BlockRequestSays DEF Handler, Truthful
  <2> QED  BY <2>1, <2>2 DEF Outcome
<1>10. ASSUME msg.type = "GetBlockResponse", msg.id \in BlockId
       PROVE  Outcome(n, m, 1, result)
  <2>1. result = HandleNewBlock(hub[n], m, msg.id, Clock[n])
    BY <1>10 DEF Handler
  <2>2. NoAnswer(n, m, 1)
    BY <1>10 DEF NoAnswer
  <2>3. Sources => HasSource(n, msg.id)
    <3>1. {m, n} = {n, m}
      OBVIOUS
    <3> QED  BY <1>1, <1>2, <1>10, <3>1 DEF Sources, HasSource
  <2>4. Sources => msg.id \in hub[m].valid_blocks
    BY <1>1, <1>2, <1>10 DEF Sources, Reads
  <2>5. FormsTree(hub[m])
    BY <1>2 DEF NetInv, HubInv, PoolInv, Reads
  <2> HIDE DEF msg, result
  <2>6. AskOutcome(n, m, 1, result) /\ (Sources => BlockOutcome(n, result))
    BY <1>1, <1>2, <1>10, <2>1, <2>2, <2>3, NewBlockOutcome
  <2>7. Sources /\ Flight => Says(n, result)
    BY <1>1, <1>10, <1>told, <2>1, <2>4, <2>5, NewBlockSays
  <2> QED  BY <2>6, <2>7 DEF Outcome
<1> QED  BY <1>4, <1>5, <1>6, <1>7, <1>8, <1>9, <1>10

\* A user or a miner submits the next of what it has.
LEMMA SubmitSteps ==
  ASSUME NetInv, NEW n \in Node, Submit(n)
  PROVE  \E result : HubStep(n, n, 0, result)
<1> DEFINE x == Head(todo[n])
<1>1. /\ HubInv(hub[n]) /\ Idle(hub[n]) /\ hub[n].running
      /\ Reads(n, n, 0) /\ Submits(n) /\ NoAnswer(n, n, 0)
      /\ todo[n] # <<>> /\ todo' = [todo EXCEPT ![n] = Tail(@)]
  BY DEF Submit, NetInv, TypeOK, Idle, Reads, Submits, NoAnswer
<1>told. Flight => Elems(hub[n].valid_ids) \subseteq hub[n].valid_blocks
  BY DEF Flight
<1>2. CASE x \in TxnId /\ Handle(n, n, 0, HandleNewTransaction(hub[n], x))
  <2>1. Outcome(n, n, 0, HandleNewTransaction(hub[n], x))
    BY <1>1, <1>2, <1>told, NewTransactionOutcome, NewTransactionSays DEF Outcome
  <2> QED  BY <1>1, <1>2, <2>1 DEF HubStep
<1>3. CASE /\ x \in BlockId
           /\ Prev(x) \in hub[n].valid_blocks
           /\ Handle(n, n, 0, HandleNewBlock(hub[n], NoNode, x, Clock[n]))
  <2>1. MinedHere(n, x)
    BY <1>1 DEF MinedHere
  <2>2. Flight => Says(n, HandleNewBlock(hub[n], NoNode, x, Clock[n]))
    BY <1>1, <1>3, <1>told, NewBlockSays
  <2>3. Outcome(n, n, 0, HandleNewBlock(hub[n], NoNode, x, Clock[n]))
    BY <1>1, <1>3, <2>1, <2>2, NewBlockOutcome DEF Outcome
  <2> QED  BY <1>1, <1>3, <2>3 DEF HubStep
<1> QED  BY <1>2, <1>3 DEF Submit

\* The rest of the NewBlock handler, and NewPeer.
LEMMA OwnSteps ==
  ASSUME NetInv, NEW n \in Node,
         ValidateNext(n) \/ Announce(n) \/ \E p \in Node : NewPeer(n, p)
  PROVE  \E result : HubStep(n, n, 0, result)
<1>1. HubInv(hub[n]) /\ Reads(n, n, 0)
  BY DEF NetInv, TypeOK, Reads
<1>told. Flight => Elems(hub[n].valid_ids) \subseteq hub[n].valid_blocks
  BY DEF Flight
<1>2. CASE ValidateNext(n)
  <2>1. PICK b \in BlockId :
          IsNextPending(hub[n], b) /\ Handle(n, n, 0, Done(ValidatePending(hub[n], b)))
    BY <1>2 DEF ValidateNext
  <2>2. hub[n].running /\ hub[n].pending[b] > 0 /\ Submits(n)
    BY <1>2, <2>1 DEF ValidateNext, IsNextPending, Submits
  <2>3. Outcome(n, n, 0, Done(ValidatePending(hub[n], b)))
    BY <1>1, <1>told, <2>2, PendingOutcome, PendingSays DEF Outcome, Sources
  <2> QED  BY <2>1, <2>2, <2>3 DEF HubStep
<1>3. CASE Announce(n)
  <2>1. Outcome(n, n, 0, AnnounceValid(hub[n])) /\ Submits(n)
    BY <1>1, <1>3, <1>told, AnnounceOutcome, AnnounceSays DEF Announce, Outcome, Submits
  <2> QED  BY <1>3, <2>1 DEF Announce, HubStep
<1>4. ASSUME NEW p \in Node, NewPeer(n, p)
      PROVE  \E result : HubStep(n, n, 0, result)
  <2>1. Outcome(n, n, 0, HandleNewPeer(hub[n], p)) /\ Submits(n)
    BY <1>1, <1>4, <1>told, NewPeerOutcome, NewPeerSays DEF NewPeer, Idle, Outcome, Submits
  <2> QED  BY <1>4, <2>1 DEF NewPeer, HubStep
<1> QED  BY <1>2, <1>3, <1>4

\* So a step of the network is one of a hub, or the end of a stream.
LEMMA StepIsHubStep ==
  ASSUME NetInv, Next
  PROVE  \/ \E n, m \in Node : \E read, result : HubStep(n, m, read, result)
         \/ \E n, m \in Node : StreamEnds(m, n)
BY ReceiveSteps, SubmitSteps, OwnSteps DEF Next, NodeStep

\* A hub that waits for nothing and has accepted genesis only.
New(h) ==
  /\ h.annoucements = {}
  /\ h.valid_blocks = {Genesis} /\ h.leading_block = Genesis
  /\ h.running /\ h.valid_ids = <<>>

LEMMA InitInNetInv == Init => NetInv /\ Sources /\ Flight /\ \A n \in Node : New(hub[n])
<1> SUFFICES ASSUME Init
             PROVE  NetInv /\ Sources /\ Flight /\ \A n \in Node : New(hub[n])
  OBVIOUS
<1>1. PICK s \in Scenarios :
        /\ link = s.link
        /\ hub = [n \in Node |-> [NewHub EXCEPT !.peers = {m \in Node : {n, m} \in s.linked}]]
        /\ stream = [m \in Node |-> [n \in Node |-> <<>>]]
        /\ todo = s.todo
  BY DEF Init
<1>2. /\ link \subseteq SUBSET Node /\ s.linked \subseteq link
      /\ todo \in [Node -> Seq(BlockId \cup TxnId)]
  BY <1>1, NetworkAssumption
<1>3. ASSUME NEW n \in Node
      PROVE  /\ hub[n] \in Hub /\ HubInv(hub[n])
             /\ \A m \in hub[n].peers : {n, m} \in link
             /\ New(hub[n]) /\ hub[n].unconfirmed_blocks = {}
  <2> DEFINE P == {m \in Node : {n, m} \in s.linked}
             g == [NewHub EXCEPT !.peers = P]
  <2>1. hub[n] = g /\ P \subseteq Node /\ \A m \in P : {n, m} \in link
    BY <1>1, <1>2
  <2> HIDE DEF P
  <2>2. /\ g \in Hub /\ g.peers = P /\ g.annoucements = {}
        /\ New(g) /\ g.unconfirmed_blocks = {}
    BY <2>1, NewHubInOrder DEF Hub, NewHub, New
  <2>3. PoolInv(g)
    <3>1. /\ g.valid_blocks = NewHub.valid_blocks
          /\ g.unconfirmed_blocks = NewHub.unconfirmed_blocks
          /\ g.invalid_blocks = NewHub.invalid_blocks
          /\ g.next_blocks = NewHub.next_blocks
          /\ g.leading_block = NewHub.leading_block
          /\ g.pending = NewHub.pending
          /\ g.valid_ids = NewHub.valid_ids
      BY DEF NewHub
    <3> HIDE DEF g
    <3> QED  BY <3>1, NewHubInOrder, SamePools
  <2> HIDE DEF g
  <2> QED  BY <2>1, <2>2, <2>3 DEF HubInv
<1>4. \A m, n \in Node : stream[m][n] = <<>>
  BY <1>1
<1>5. NetInv
  <2>1. hub \in [Node -> Hub]
    BY <1>1, <1>3
  <2>2. stream \in [Node -> [Node -> Seq(Message)]]
    <3>1. <<>> \in Seq(Message)
      OBVIOUS
    <3> QED  BY <1>1, <3>1
  <2> QED  BY <1>2, <1>3, <2>1, <2>2 DEF NetInv, TypeOK
<1>6. Sources
  <2>1. \A m, n \in Node : Messages(m, n) = {}
    BY <1>4 DEF Messages
  <2>2. \A n \in Node : \A i \in DOMAIN todo[n] : todo[n][i] # Genesis
    BY <1>1, MinedOnceAssumption
  <2>3. \A n, m \in Node : \A i \in DOMAIN todo[n], j \in DOMAIN todo[m] :
          todo[n][i] = todo[m][j] /\ todo[n][i] \in BlockId => n = m /\ i = j
    BY <1>1, MinedOnceAssumption
  <2> QED  BY <1>3, <2>1, <2>2, <2>3 DEF Sources, New
<1>7. Flight
  <2>1. DOMAIN <<>> = {}
    OBVIOUS
  <2> QED  BY <1>3, <1>4, <2>1 DEF Flight, Elems, Messages, New
<1> QED  BY <1>3, <1>5, <1>6, <1>7

\* What a hub's step does to the variables.
Effect(n, m, read, result) ==
  /\ n \in Node /\ m \in Node
  /\ hub[n].running
  /\ hub' \in [Node -> Hub]
  /\ \A x \in Node \ {n} : hub'[x] = hub[x]
  /\ \/ hub'[n] = result.hub
     \/ hub'[n] = Stop(result.hub) /\ ~hub'[n].running /\ SomeStopped
  /\ HubInv(hub'[n])
  /\ hub'[n].peers = result.hub.peers /\ hub'[n].annoucements = result.hub.annoucements
  /\ hub'[n].mempool = result.hub.mempool /\ hub'[n].valid_ids = result.hub.valid_ids
  /\ hub'[n].valid_blocks = result.hub.valid_blocks
  /\ hub'[n].leading_block = result.hub.leading_block
  /\ hub'[n].unconfirmed_blocks = result.hub.unconfirmed_blocks
  /\ hub'[n].running => result.hub.running
  /\ Moved(n, m, read, result.sent, stream')
  /\ hub'[n].running => \A y \in Node : hub[y].running =>
       Elems(result.sent[y]) \subseteq Elems(stream'[n][y])

LEMMA HubStepEffect ==
  ASSUME NetInv, NEW n, NEW m, NEW read, NEW result, HubStep(n, m, read, result)
  PROVE  Effect(n, m, read, result)
<1>1. /\ TypeOK /\ Reads(n, m, read) /\ n \in Node /\ m \in Node /\ hub[n].running
      /\ HubInv(result.hub) /\ result.hub \in Hub
      /\ Uniform(result.sent) /\ Handle(n, m, read, result)
  BY DEF NetInv, HubStep, Outcome, AskOutcome, HubInv, Reads
<1>2. /\ hub'[n] = result.hub \/ (hub'[n] = Stop(result.hub) /\ SomeStopped)
      /\ \A x \in Node \ {n} : hub'[x] = hub[x]
      /\ hub' \in [Node -> Hub]
      /\ Moved(n, m, read, result.sent, stream')
      /\ hub'[n].running => \A y \in Node : hub[y].running =>
           Elems(result.sent[y]) \subseteq Elems(stream'[n][y])
  BY <1>1, HandleEffect
<1> QED  BY <1>1, <1>2, StopKeepsHub DEF Effect

LEMMA StepKeepsNetInv == NetInv /\ [Next]_vars => NetInv'
<1> SUFFICES ASSUME NetInv, [Next]_vars PROVE NetInv'
  OBVIOUS
<1>1. CASE UNCHANGED vars
  BY <1>1 DEF vars, NetInv, TypeOK
<1>2. ASSUME NEW n \in Node, NEW m \in Node, StreamEnds(m, n)
      PROVE  NetInv'
  <2>1. stream' \in [Node -> [Node -> Seq(Message)]]
    <3>1. <<>> \in Seq(Message)
      OBVIOUS
    <3> QED  BY <1>2, <3>1 DEF StreamEnds, NetInv, TypeOK
  <2> QED  BY <1>2, <2>1 DEF StreamEnds, NetInv, TypeOK
<1>3. ASSUME NEW n \in Node, NEW m \in Node, NEW read, NEW result,
             HubStep(n, m, read, result)
      PROVE  NetInv'
  <2>1. Effect(n, m, read, result)
    BY <1>3, HubStepEffect
  <2>2. link' = link /\ todo' \in [Node -> Seq(BlockId \cup TxnId)]
    <3>1. \A x \in Seq(BlockId \cup TxnId) : x # <<>> => Tail(x) \in Seq(BlockId \cup TxnId)
      OBVIOUS
    <3>2. todo \in [Node -> Seq(BlockId \cup TxnId)]
      BY DEF NetInv, TypeOK
    <3>3. CASE todo[n] # <<>> /\ todo' = [todo EXCEPT ![n] = Tail(@)]
      <4>1. Tail(todo[n]) \in Seq(BlockId \cup TxnId)
        BY <3>1, <3>2, <3>3
      <4> QED  BY <1>3, <3>2, <3>3, <4>1 DEF HubStep, Submits
    <3> QED  BY <1>3, <3>2, <3>3 DEF HubStep, Submits
  <2>3. TypeOK'
    BY <2>1, <2>2 DEF NetInv, TypeOK, Effect, Moved
  <2>4. \A x \in Node : HubInv(hub'[x]) /\ \A y \in hub'[x].peers : {x, y} \in link
    BY <1>3, <2>1 DEF NetInv, Effect, HubStep, Outcome, AskOutcome
  <2> QED  BY <2>2, <2>3, <2>4 DEF NetInv, HubInv, PoolInv
<1> QED  BY <1>1, <1>2, <1>3, StepIsHubStep

LEMMA AlwaysNetInv == Spec => []NetInv
BY InitInNetInv, StepKeepsNetInv, PTL DEF Spec

-----------------------------------------------------------------------------
(***************************************************************************)
(* The theorems.                                                           *)
(***************************************************************************)

\* The variables keep their types: hubs stay hubs, streams hold messages of the
\* protocol (message.rs), whoever stops and whatever is lost.
THEOREM NetworkTypeCorrect == Spec => []TypeOK
BY AlwaysNetInv, PTL DEF NetInv

\* What n waits for is on its way.
OnItsWay(n, t) ==
  \E m \in hub[n].peers :
    \/ ~hub[m].running
    \/ Request(t) \in Messages(n, m)
    \/ Response(t) \in Messages(m, n)

LEMMA AskedSteps ==
  ASSUME NetInv, AskedIsOnItsWay, NEW k, NEW j, NEW read, NEW result,
         HubStep(k, j, read, result)
  PROVE  AskedIsOnItsWay'
<1>1. Effect(k, j, read, result) /\ AskOutcome(k, j, read, result)
  BY HubStepEffect DEF HubStep, Outcome
<1>2. SUFFICES ASSUME NEW n \in Node, hub'[n].running, NEW t \in hub'[n].annoucements
               PROVE  \E p \in hub'[n].peers :
                        \/ ~hub'[p].running
                        \/ Request(t) \in Elems(stream'[n][p])
                        \/ Response(t) \in Elems(stream'[p][n])
  BY DEF AskedIsOnItsWay, Messages, Elems, Request, Response
\* A hub that runs after the step ran before it, and the peers it had stay.
<1>3. /\ \A x \in Node : hub'[x].running => hub[x].running
      /\ hub[n].peers \subseteq hub'[n].peers
      /\ hub[n].peers \subseteq Node /\ hub'[n].peers \subseteq Node
  <2>1. \A x \in Node : hub'[x].running => hub[x].running
    BY <1>1 DEF Effect
  <2>2. hub[n].peers \subseteq hub'[n].peers
    BY <1>1 DEF Effect, AskOutcome
  <2>3. hub[n] \in Hub /\ hub'[n] \in Hub
    BY <1>1 DEF NetInv, TypeOK, Effect
  <2> QED  BY <2>1, <2>2, <2>3 DEF Hub
\* The hub has just asked for t.
<1>4. CASE n = k /\ j \in hub[k].peers /\ Request(t) \in Elems(result.sent[j])
  BY <1>1, <1>2, <1>3, <1>4 DEF Effect
\* It asked for t before.
<1>5. CASE /\ t \in hub[n].annoucements
           /\ ~(n = k /\ read = 1 /\ Head(stream[j][k]) = Response(t))
  <2>1. PICK p \in hub[n].peers :
          ~hub[p].running \/ Request(t) \in Messages(n, p) \/ Response(t) \in Messages(p, n)
    BY <1>2, <1>3, <1>5 DEF AskedIsOnItsWay, Request, Response
  <2>2. p \in Node /\ p \in hub'[n].peers
    BY <1>3
  <2>3. CASE ~hub[p].running
    BY <1>2, <1>3, <2>2, <2>3
  <2>4. CASE Request(t) \in Messages(n, p)
    <3>1. CASE Request(t) \in Elems(stream'[n][p])
      BY <2>2, <3>1
    \* It has been read, and answered: in time, or the hub that read it stopped.
    <3>2. CASE n = j /\ p = k /\ read = 1 /\ Request(t) = Head(stream[j][k])
      <4>1. result.hub.running => Response(t) \in Elems(result.sent[n])
        BY <1>1, <3>2 DEF AskOutcome
      <4> QED  BY <1>1, <1>2, <1>3, <2>2, <3>2, <4>1 DEF Effect
    <3> QED  BY <1>1, <2>2, <2>4, <3>1, <3>2 DEF Effect, Moved
  <2>5. CASE Response(t) \in Messages(p, n)
    <3>1. Response(t) \in Elems(stream'[p][n])
      BY <1>1, <1>5, <2>2, <2>5 DEF Effect, Moved
    <3> QED  BY <2>2, <3>1
  <2> QED  BY <2>1, <2>3, <2>4, <2>5
<1>6. CASE n # k
  BY <1>1, <1>2, <1>5, <1>6 DEF Effect
<1>7. CASE n = k
  BY <1>1, <1>2, <1>4, <1>5, <1>7 DEF Effect, AskOutcome
<1> QED  BY <1>6, <1>7

\* The stream that ends is that of a hub that has stopped.
LEMMA AskedStreamEnds ==
  ASSUME NetInv, AskedIsOnItsWay, NEW a \in Node, NEW b \in Node, StreamEnds(a, b)
  PROVE  AskedIsOnItsWay'
<1>1. /\ hub' = hub /\ ~hub[a].running
      /\ \A x, y \in Node : ~(x = a /\ y = b) => stream'[x][y] = stream[x][y]
  BY DEF StreamEnds, NetInv, TypeOK
<1>2. SUFFICES ASSUME NEW n \in Node, hub[n].running, NEW t \in hub[n].annoucements
               PROVE  \E p \in hub[n].peers :
                        \/ ~hub[p].running
                        \/ Request(t) \in Elems(stream'[n][p])
                        \/ Response(t) \in Elems(stream'[p][n])
  BY <1>1 DEF AskedIsOnItsWay, Messages, Elems, Request, Response
<1>3. PICK p \in hub[n].peers :
        ~hub[p].running \/ Request(t) \in Messages(n, p) \/ Response(t) \in Messages(p, n)
  BY <1>2 DEF AskedIsOnItsWay, Request, Response
<1>4. p \in Node
  BY DEF NetInv, TypeOK, Hub
<1> QED  BY <1>1, <1>2, <1>3, <1>4 DEF Messages, Elems

\* A transaction that a running hub waits for is on its way, whatever the others
\* do: the request is in the stream to a peer, the answer in the stream from it,
\* or the peer has stopped (peerhub.rs:612-622, 577-587).
THEOREM RequestsOnTheirWay == Spec => []AskedIsOnItsWay
<1>1. Init => AskedIsOnItsWay
  BY InitInNetInv DEF New, AskedIsOnItsWay
<1>2. NetInv /\ AskedIsOnItsWay /\ [Next]_vars => AskedIsOnItsWay'
  <2>1. CASE UNCHANGED vars
    BY <2>1 DEF vars, AskedIsOnItsWay, Messages
  <2> QED  BY <2>1, StepIsHubStep, AskedSteps, AskedStreamEnds
<1> QED  BY <1>1, <1>2, AlwaysNetInv, PTL DEF Spec

\* Blocks come from a node linked with this one, or from its own miner.
LEMMA StepKeepsSources == NetInv /\ Sources /\ [Next]_vars => Sources'
<1> SUFFICES ASSUME NetInv, Sources, [Next]_vars PROVE Sources'
  OBVIOUS
<1>1. CASE UNCHANGED vars
  <2>1. hub' = hub /\ todo' = todo /\ link' = link /\ stream' = stream
    BY <1>1 DEF vars
  <2>2. /\ \A x \in Node : \A b : HasSource(x, b) => HasSource(x, b)'
        /\ \A x, y \in Node : Messages(x, y)' = Messages(x, y)
    BY <2>1 DEF HasSource, Messages
  <2> QED  BY <2>1, <2>2 DEF Sources
<1>2. ASSUME NEW a \in Node, NEW c \in Node, StreamEnds(a, c)
      PROVE  Sources'
  <2>1. /\ hub' = hub /\ todo' = todo /\ link' = link
        /\ \A x, y \in Node : stream'[x][y] = stream[x][y] \/ stream'[x][y] = <<>>
    BY <1>2 DEF StreamEnds, NetInv, TypeOK
  <2>2. \A x, y \in Node : Messages(x, y)' \subseteq Messages(x, y)
    <3>1. DOMAIN <<>> = {}
      OBVIOUS
    <3> SUFFICES ASSUME NEW x \in Node, NEW y \in Node
                 PROVE  Messages(x, y)' \subseteq Messages(x, y)
      OBVIOUS
    <3>2. CASE stream'[x][y] = <<>>
      BY <3>1, <3>2 DEF Messages
    <3>3. CASE stream'[x][y] = stream[x][y]
      BY <3>3 DEF Messages
    <3> QED  BY <2>1, <3>2, <3>3
  <2>3. \A x \in Node : \A b : HasSource(x, b) => HasSource(x, b)'
    BY <2>1 DEF HasSource
  <2> QED  BY <2>1, <2>2, <2>3 DEF Sources
<1>3. ASSUME NEW k, NEW j, NEW read, NEW result, HubStep(k, j, read, result)
      PROVE  Sources'
  <2>effect. Effect(k, j, read, result)
    BY <1>3, HubStepEffect
  <2>1. Effect(k, j, read, result) /\ BlockOutcome(k, result) /\ Submits(k) /\ k \in Node
    BY <1>3, <2>effect DEF HubStep, Outcome, Effect
  <2>2. \A x \in Node : hub[x].valid_blocks \subseteq hub'[x].valid_blocks
    BY <2>1 DEF Effect, BlockOutcome, TreeStep
  <2>3. \A x \in Node : \A b : HasSource(x, b) => HasSource(x, b)'
    BY <2>1, <2>2 DEF HasSource, Submits
  <2>4. \A x \in Node : \A b \in hub'[x].unconfirmed_blocks : HasSource(x, b)'
    BY <2>1, <2>3 DEF Effect, BlockOutcome, Sources
  <2>5. \A x, y \in Node : \A msg \in Messages(x, y)' :
          msg.type = "GetBlockResponse" => msg.id \in hub'[x].valid_blocks
    <3> SUFFICES ASSUME NEW x \in Node, NEW y \in Node, NEW msg \in Messages(x, y)',
                        msg.type = "GetBlockResponse"
                 PROVE  msg.id \in hub'[x].valid_blocks
      OBVIOUS
    <3>1. msg \in Elems(stream'[x][y])
      BY DEF Messages, Elems
    <3>2. msg \in Messages(x, y) \/ (x = k /\ msg \in Elems(result.sent[y]))
      BY <2>1, <3>1 DEF Effect, Moved
    <3> QED  BY <2>1, <2>2, <3>2 DEF Sources, BlockOutcome
  \* Each entry of todo' was one of todo, at its own place.
  <2> DEFINE was(x, i) == IF x = k /\ todo' # todo THEN i + 1 ELSE i
  <2>6. \A x \in Node : \A i \in DOMAIN todo'[x] :
          /\ i \in Int /\ was(x, i) \in DOMAIN todo[x]
          /\ todo'[x][i] = todo[x][was(x, i)]
          /\ todo' # todo => ~(x = k /\ was(x, i) = 1)
    <3>1. \A s \in Seq(BlockId \cup TxnId) : \A i \in DOMAIN s : i \in Int
      OBVIOUS
    <3>2. \A s \in Seq(BlockId \cup TxnId) : s # <<>> =>
            \A i \in DOMAIN Tail(s) :
              i \in Int /\ i + 1 \in DOMAIN s /\ Tail(s)[i] = s[i + 1] /\ i + 1 # 1
      OBVIOUS
    <3>3. todo \in [Node -> Seq(BlockId \cup TxnId)]
      BY DEF NetInv, TypeOK
    <3> QED  BY <2>1, <3>1, <3>2, <3>3 DEF Submits
  <2> HIDE DEF was
  <2>7. \A x, y \in Node : \A i \in DOMAIN todo'[x] : todo'[x][i] \notin hub'[y].valid_blocks
    <3> SUFFICES ASSUME NEW x \in Node, NEW y \in Node, NEW i \in DOMAIN todo'[x],
                        todo'[x][i] \in hub'[y].valid_blocks
                 PROVE  FALSE
      OBVIOUS
    <3> DEFINE b == todo[x][was(x, i)]
    <3>1. b \notin hub[y].valid_blocks /\ b \in hub'[y].valid_blocks
      BY <2>6 DEF Sources
    <3>2. y = k /\ (HasSource(k, b) \/ MinedHere(k, b))
      BY <2>1, <3>1 DEF Effect, BlockOutcome
    <3>3. ~HasSource(k, b)
      BY <2>6 DEF Sources, HasSource
    <3>4. todo[k] # <<>> /\ b = Head(todo[k]) /\ todo' = [todo EXCEPT ![k] = Tail(@)]
      BY <3>2, <3>3 DEF MinedHere
    <3>5. 1 \in DOMAIN todo[k] /\ b = todo[k][1] /\ Tail(todo[k]) # todo[k]
      <4>1. \A s \in Seq(BlockId \cup TxnId) : s # <<>> =>
              1 \in DOMAIN s /\ Head(s) = s[1] /\ Tail(s) # s
        OBVIOUS
      <4>2. todo[k] \in Seq(BlockId \cup TxnId)
        BY <2>1 DEF NetInv, TypeOK
      <4> QED  BY <3>4, <4>1, <4>2
    <3>6. todo' # todo /\ b \in BlockId
      <4>1. hub'[y] \in Hub
        BY <2>1 DEF Effect
      <4>2. b \in BlockId
        BY <3>1, <4>1 DEF Hub
      <4> QED  BY <2>1, <3>4, <3>5, <4>2 DEF NetInv, TypeOK
    <3>7. x = k /\ was(x, i) = 1
      BY <2>1, <2>6, <3>5, <3>6 DEF Sources
    <3> QED  BY <2>6, <3>6, <3>7
  <2>8. \A x, y \in Node : \A i \in DOMAIN todo'[x], l \in DOMAIN todo'[y] :
          todo'[x][i] = todo'[y][l] /\ todo'[x][i] \in BlockId => x = y /\ i = l
    <3> SUFFICES ASSUME NEW x \in Node, NEW y \in Node,
                        NEW i \in DOMAIN todo'[x], NEW l \in DOMAIN todo'[y],
                        todo'[x][i] = todo'[y][l], todo'[x][i] \in BlockId
                 PROVE  x = y /\ i = l
      OBVIOUS
    <3>1. x = y /\ was(x, i) = was(y, l) /\ i \in Int /\ l \in Int
      BY <2>6 DEF Sources
    <3> QED  BY <3>1 DEF was
  <2> QED  BY <2>4, <2>5, <2>7, <2>8 DEF Sources
<1> QED  BY <1>1, <1>2, <1>3, StepIsHubStep

LEMMA AlwaysSources == Spec => []Sources
BY InitInNetInv, StepKeepsSources, AlwaysNetInv, PTL DEF Spec

\* What a hub says stays so, wherever the message is.
LEMMA StepKeepsFlight == NetInv /\ Sources /\ Flight /\ [Next]_vars => Flight'
<1> SUFFICES ASSUME NetInv, Sources, Flight, [Next]_vars PROVE Flight'
  OBVIOUS
<1>1. CASE UNCHANGED vars
  BY <1>1 DEF vars, Flight, Messages
<1>2. ASSUME NEW a \in Node, NEW c \in Node, StreamEnds(a, c)
      PROVE  Flight'
  <2>1. /\ hub' = hub
        /\ \A x, y \in Node : stream'[x][y] = stream[x][y] \/ stream'[x][y] = <<>>
    BY <1>2 DEF StreamEnds, NetInv, TypeOK
  <2>2. ASSUME NEW x \in Node, NEW y \in Node, NEW msg \in Messages(x, y)'
        PROVE  msg \in Messages(x, y)
    <3>1. DOMAIN <<>> = {}
      OBVIOUS
    <3> QED  BY <2>1, <2>2, <3>1 DEF Messages
  <2> QED  BY <2>1, <2>2 DEF Flight
<1>3. ASSUME NEW k, NEW j, NEW read, NEW result, HubStep(k, j, read, result)
      PROVE  Flight'
  <2>1. Effect(k, j, read, result) /\ Says(k, result) /\ k \in Node
    BY <1>3, HubStepEffect DEF HubStep, Outcome, Effect
  <2>2. Keeps(hub[k], hub'[k]) /\ Keeps(result.hub, hub'[k])
    BY <2>1 DEF Effect, Says, Keeps, Had, CollectedBy
  <2>3. \A x \in Node : Keeps(hub[x], hub'[x])
    BY <2>1, <2>2 DEF Effect, Keeps
  <2>4. ASSUME NEW x \in Node
        PROVE  Elems(hub'[x].valid_ids) \subseteq hub'[x].valid_blocks
    BY <2>1 DEF Effect, Says, Flight
  <2>5. ASSUME NEW x \in Node, NEW y \in Node, NEW msg \in Elems(stream'[x][y])
        PROVE  Truthful(hub'[x], hub'[y], msg)
    <3>1. msg \in Messages(x, y) \/ (x = k /\ msg \in Elems(result.sent[y]))
      BY <2>1 DEF Effect, Moved
    <3>2. CASE msg \in Messages(x, y)
      BY <2>3, <3>2, StaysTruthful DEF Flight
    <3>3. CASE x = k /\ msg \in Elems(result.sent[y])
      BY <2>1, <2>2, <2>3, <3>3, StaysTruthful DEF Says
    <3> QED  BY <3>1, <3>2, <3>3
  <2> QED  BY <2>4, <2>5 DEF Flight, Messages, Elems
<1> QED  BY <1>1, <1>2, <1>3, StepIsHubStep

LEMMA AlwaysFlight == Spec => []Flight
BY InitInNetInv, StepKeepsFlight, AlwaysNetInv, AlwaysSources, PTL DEF Spec

\* On no hub do two chains disagree on a block that adjusts the difficulty.
AllAgree == \A n \in Node : AgreeOnAdjustments(hub[n])

LEMMA StepKeepsFirstStop ==
  /\ NetInv /\ Sources /\ Flight
  /\ AllAgree => FirstStopIsForMined
  /\ [Next]_vars
  => (AllAgree => FirstStopIsForMined)'
<1> SUFFICES ASSUME NetInv, Sources, Flight, AllAgree => FirstStopIsForMined, [Next]_vars,
                    AllAgree', SomeStopped'
             PROVE  \E n \in Node, t \in TxnId : ~hub'[n].running /\ CollectedBy(hub'[n], t)
  BY DEF FirstStopIsForMined, Collected, CollectedBy
<1>1. ASSUME hub' = hub
      PROVE  \E n \in Node, t \in TxnId : ~hub'[n].running /\ CollectedBy(hub'[n], t)
  BY <1>1 DEF FirstStopIsForMined, Collected, CollectedBy, AllAgree, SomeStopped
<1>2. ASSUME NEW k, NEW j, NEW read, NEW result, HubStep(k, j, read, result)
      PROVE  \E n \in Node, t \in TxnId : ~hub'[n].running /\ CollectedBy(hub'[n], t)
  <2>1. Effect(k, j, read, result) /\ Says(k, result) /\ k \in Node
    BY <1>2, HubStepEffect DEF HubStep, Outcome, Effect
  <2>2. \A x \in Node : hub[x].valid_blocks \subseteq hub'[x].valid_blocks
    BY <2>1 DEF Effect, Says, Keeps
  <2>3. AllAgree
    BY <2>2, DisputesStay DEF AllAgree
  \* A hub that had stopped is as it was.
  <2>4. CASE SomeStopped
    <3>1. PICK n \in Node, t \in TxnId : ~hub[n].running /\ Collected(n, t)
      BY <2>3, <2>4 DEF FirstStopIsForMined
    <3>2. hub'[n] = hub[n]
      BY <2>1, <3>1 DEF Effect
    <3> QED  BY <3>1, <3>2 DEF Collected, CollectedBy
  \* The first to stop is the one that ran its handler, and no write failed.
  <2>5. CASE ~SomeStopped
    <3>1. ~hub'[k].running /\ hub'[k] = result.hub
      BY <2>1, <2>5 DEF Effect, SomeStopped
    <3> QED  BY <2>1, <2>3, <3>1 DEF Says, AllAgree
  <2> QED  BY <2>4, <2>5
<1> QED  BY <1>1, <1>2, StepIsHubStep DEF vars, StreamEnds

\* The first hub to stop has accepted a block with a transaction it was asked for:
\* as long as no hub has rival blocks that adjust the difficulty, nothing else that
\* a node asks of another fails, whoever joins when, whatever is lost and however
\* long the way to the root of an orphan is (peerhub.rs:520-545, 577-606, 735).
THEOREM FirstStop == Spec => [](AllAgree => FirstStopIsForMined)
<1>1. Init => (AllAgree => FirstStopIsForMined)
  BY InitInNetInv DEF New, FirstStopIsForMined, SomeStopped
<1> QED
  BY <1>1, StepKeepsFirstStop, AlwaysNetInv, AlwaysSources, AlwaysFlight, PTL DEF Spec

\* The network implements Gossip: a node accepts a block after its parent, and only
\* one that it mined or that a node linked with it had accepted; its tip moves only
\* to a strictly higher block.  Lost messages and stopped hubs are stutters.
THEOREM NetworkImplementsGossip == Spec => ImplementsGossip
<1> DEFINE accepted == [n \in Node |-> hub[n].valid_blocks]
           tip == [n \in Node |-> hub[n].leading_block]
<1>1. Init => G!Init
  BY InitInNetInv DEF New, NetInv, TypeOK, G!Init
<1>2. NetInv /\ Sources /\ [Next]_vars => [G!Next]_<<link, accepted, tip>>
  <2> SUFFICES ASSUME NetInv, Sources, [Next]_vars
               PROVE  [G!Next]_<<link, accepted, tip>>
    OBVIOUS
  <2>1. CASE UNCHANGED vars
    BY <2>1 DEF vars
  <2>2. ASSUME NEW a \in Node, NEW c \in Node, StreamEnds(a, c)
        PROVE  UNCHANGED <<link, accepted, tip>>
    BY <2>2 DEF StreamEnds
  <2>3. ASSUME NEW k, NEW j, NEW read, NEW result, HubStep(k, j, read, result)
        PROVE  [G!Next]_<<link, accepted, tip>>
    <3>effect. Effect(k, j, read, result)
      BY <2>3, HubStepEffect
    <3>1. /\ Effect(k, j, read, result) /\ BlockOutcome(k, result) /\ k \in Node
          /\ link' = link
      BY <2>3, <3>effect DEF HubStep, Outcome, Effect, Submits
    <3>2. CASE /\ hub'[k].valid_blocks = hub[k].valid_blocks
               /\ hub'[k].leading_block = hub[k].leading_block
      <4>1. \A x \in Node : /\ hub'[x].valid_blocks = hub[x].valid_blocks
                            /\ hub'[x].leading_block = hub[x].leading_block
        BY <3>1, <3>2 DEF Effect
      <4> QED  BY <3>1, <4>1
    <3>3. ASSUME NEW b \in BlockId,
                 b \notin hub[k].valid_blocks, Prev(b) \in hub[k].valid_blocks,
                 FollowsParent(b),
                 hub'[k].valid_blocks = hub[k].valid_blocks \cup {b},
                 hub'[k].leading_block = IF Seqno(b) > Seqno(hub[k].leading_block)
                                         THEN b ELSE hub[k].leading_block
          PROVE  G!Next
      <4>1. accepted' = [accepted EXCEPT ![k] = @ \cup {b}]
        BY <3>1, <3>3 DEF Effect
      <4>2. tip' = [tip EXCEPT ![k] = IF Seqno(b) > Seqno(@) THEN b ELSE @]
        BY <3>1, <3>3 DEF Effect
      <4>3. \A n \in Node : accepted[n] = hub[n].valid_blocks
        OBVIOUS
      <4>4. HasSource(k, b) \/ MinedHere(k, b)
        BY <3>1, <3>3 DEF Effect, BlockOutcome
      <4>5. G!Accept(k, b)
        <5>1. /\ G!FollowsParent(b) /\ G!Prev(b) = Prev(b)
              /\ \A x : G!Seqno(x) = Seqno(x)
          BY <3>3 DEF G!Prev, G!FollowsParent, G!Seqno, G!Timestamp,
                      Prev, FollowsParent, Seqno, Timestamp
        <5>2. b \notin accepted[k] /\ G!Prev(b) \in accepted[k]
          BY <3>1, <3>3, <4>3, <5>1
        <5>3. tip' = [tip EXCEPT ![k] = IF G!Seqno(b) > G!Seqno(@) THEN b ELSE @]
          BY <4>2, <5>1
        <5> QED  BY <3>1, <4>1, <5>1, <5>2, <5>3 DEF G!Accept
      <4>6. CASE HasSource(k, b)
        <5>1. G!Learn(k, b)
          BY <4>3, <4>5, <4>6 DEF HasSource, G!Learn
        <5> QED  BY <3>1, <5>1 DEF G!Next
      <4>7. CASE MinedHere(k, b)
        <5>1. 1 \in DOMAIN todo[k] /\ todo[k][1] = b
          <6>1. \A s \in Seq(BlockId \cup TxnId) : s # <<>> => 1 \in DOMAIN s /\ Head(s) = s[1]
            OBVIOUS
          <6>2. todo[k] \in Seq(BlockId \cup TxnId)
            BY <3>1 DEF NetInv, TypeOK
          <6> QED  BY <4>7, <6>1, <6>2 DEF MinedHere
        <5>2. \A n \in Node : b \notin accepted[n]
          BY <3>1, <4>3, <5>1 DEF Sources
        <5>3. G!Mine(k, b)
          BY <4>5, <5>2 DEF G!Mine
        <5> QED  BY <3>1, <5>3 DEF G!Next
      <4> QED  BY <4>4, <4>6, <4>7
    <3> QED  BY <3>1, <3>2, <3>3 DEF Effect, BlockOutcome, TreeStep
  <2> HIDE DEF accepted, tip
  <2> QED  BY <2>1, <2>2, <2>3, StepIsHubStep
<1> QED
  BY <1>1, <1>2, AlwaysNetInv, AlwaysSources, PTL DEF Spec, ImplementsGossip, G!Spec
=============================================================================
