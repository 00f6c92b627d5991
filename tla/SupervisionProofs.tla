-------------------------- MODULE SupervisionProofs --------------------------
(***************************************************************************)
(* Theorems about connections and the life of a node, for any number of    *)
(* nodes, any limit of the table, and any losses, drops, failing handlers  *)
(* and messages that do not decode: the types, and that a stream a hub     *)
(* keeps is read as long as anything can come of it.                       *)
(*                                                                         *)
(* The invariant adds to KeptHasReader what makes it inductive: only an    *)
(* end that has come to its end, or to its reader, is in a table; and an   *)
(* end that listens has not begun before the one that dials is allowed to. *)
(***************************************************************************)
EXTENDS Supervision, TLAPS

\* The stream of an end is in the table of its node.
Kept(e) == peers[e[2]][Peer(e)] = e[1]

\* The task that spawned the reader of an end has ended.
TaskEnded(e) ==
  \/ e = Dialer(e[1]) /\ e[2] \notin subscribing
  \/ e = Listener(e[1]) /\ e[2] \notin listening

KeptHandled == \A e \in End : Kept(e) => phase[e] \in {"reading", "over"}

DialedFirst ==
  \A c \in Conn :
    phase[Dialer(c)] \in {"new", "asked", "allowed"} => phase[Listener(c)] = "new"

ReadOrGone ==
  \A e \in End : (e[2] \in hubs /\ Kept(e)) =>
    \/ phase[e] = "reading"
    \/ e[1] \in lost
    \/ e \in undecoded
    \/ ~Sending(Far(e))
    \/ TaskEnded(e)

ConnInv == TypeOK /\ KeptHandled /\ DialedFirst /\ ReadOrGone

-----------------------------------------------------------------------------
(***************************************************************************)
(* Ends of connections.                                                    *)
(***************************************************************************)
LEMMA EndsOfConn ==
  \A c \in Conn : /\ Dialer(c) \in End /\ Listener(c) \in End
                  /\ Dialer(c) # Listener(c)
                  /\ Far(Dialer(c)) = Listener(c) /\ Far(Listener(c)) = Dialer(c)
<1> SUFFICES ASSUME NEW c \in Conn
             PROVE  /\ Dialer(c) \in End /\ Listener(c) \in End
                    /\ Dialer(c) # Listener(c)
                    /\ Far(Dialer(c)) = Listener(c) /\ Far(Listener(c)) = Dialer(c)
  OBVIOUS
<1>1. c[1] \in Node /\ c[2] \in Node /\ c[1] # c[2]
  BY DEF Conn
<1>2. Dialer(c)[1] = c /\ Dialer(c)[2] = c[1] /\ Listener(c)[1] = c /\ Listener(c)[2] = c[2]
  BY DEF Dialer, Listener
<1>3. Dialer(c) # Listener(c)
  BY <1>1, <1>2
<1>4. Dialer(c) \in End /\ Listener(c) \in End
  BY <1>1 DEF Dialer, Listener, End
<1>5. Peer(Dialer(c)) = c[2] /\ Peer(Listener(c)) = c[1]
  BY <1>2, <1>3 DEF Peer
<1> QED  BY <1>2, <1>3, <1>4, <1>5 DEF Far, Dialer, Listener

LEMMA ConnOfEnd ==
  \A e \in End : /\ e[1] \in Conn /\ e[2] \in Node /\ Peer(e) \in Node
                 /\ e = Dialer(e[1]) \/ e = Listener(e[1])
                 /\ Far(e) \in End /\ Far(e)[1] = e[1]
                 /\ Far(e)[2] = Peer(e) /\ Peer(Far(e)) = e[2]
<1> SUFFICES ASSUME NEW e \in End
             PROVE  /\ e[1] \in Conn /\ e[2] \in Node /\ Peer(e) \in Node
                    /\ e = Dialer(e[1]) \/ e = Listener(e[1])
                    /\ Far(e) \in End /\ Far(e)[1] = e[1]
                    /\ Far(e)[2] = Peer(e) /\ Peer(Far(e)) = e[2]
  OBVIOUS
<1>1. /\ e = <<e[1], e[2]>> /\ e[1] \in Conn /\ e[2] \in Node
      /\ e[2] = e[1][1] \/ e[2] = e[1][2]
  BY DEF End
<1>2. e[1][1] \in Node /\ e[1][2] \in Node /\ e[1][1] # e[1][2]
  BY <1>1 DEF Conn
<1>3. CASE e[2] = e[1][1]
  <2>1. e = Dialer(e[1]) /\ e # Listener(e[1])
    BY <1>1, <1>2, <1>3 DEF Dialer, Listener
  <2>2. Peer(e) = e[1][2] /\ Far(e) = Listener(e[1])
    BY <2>1 DEF Peer, Far, Listener
  <2>3. Far(e) \in End /\ Far(e)[1] = e[1] /\ Far(e)[2] = e[1][2] /\ Far(e) # Dialer(e[1])
    BY <1>1, <1>2, <2>2 DEF End, Listener, Dialer
  <2> QED  BY <1>1, <1>2, <1>3, <2>1, <2>2, <2>3 DEF Peer
<1>4. CASE e[2] = e[1][2]
  <2>1. e = Listener(e[1]) /\ e # Dialer(e[1])
    BY <1>1, <1>2, <1>4 DEF Dialer, Listener
  <2>2. Peer(e) = e[1][1] /\ Far(e) = Dialer(e[1])
    BY <2>1 DEF Peer, Far, Dialer
  <2>3. Far(e) \in End /\ Far(e)[1] = e[1] /\ Far(e)[2] = e[1][1]
    BY <1>1, <1>2, <2>2 DEF End, Dialer
  <2> QED  BY <1>1, <1>2, <1>4, <2>1, <2>2, <2>3 DEF Peer
<1> QED  BY <1>1, <1>3, <1>4

-----------------------------------------------------------------------------
(***************************************************************************)
(* The types.                                                              *)
(***************************************************************************)

\* What a task's end leaves of the phases.
LEMMA AbandonType ==
  ASSUME TypeOK, NEW ends, Abandon(ends)
  PROVE  /\ phase' \in [End -> Phase]
         /\ \A e \in End : phase'[e] = IF e \in ends /\ phase[e] # "new" THEN "over"
                                       ELSE phase[e]
BY DEF TypeOK, Abandon, Phase

LEMMA GotoType ==
  ASSUME TypeOK, NEW e \in End, NEW p \in Phase, Goto(e, p)
  PROVE  /\ TypeOK' /\ peers' = peers /\ hubs' = hubs /\ subscribing' = subscribing
         /\ listening' = listening
         /\ lost' = lost /\ failed' = failed /\ undecoded' = undecoded
         /\ \A x \in End : phase'[x] = IF x = e THEN p ELSE phase[x]
BY DEF TypeOK, Goto, tasks, faults, supervision

LEMMA InitInConnInv == Init => ConnInv
<1> SUFFICES ASSUME Init PROVE ConnInv
  OBVIOUS
<1>1. /\ phase = [e \in End |-> "new"]
      /\ peers = [n \in Node |-> [m \in Node |-> NoConn]]
      /\ hubs = Node /\ subscribing = Node /\ listening = Node
      /\ lost = {} /\ failed = {} /\ undecoded = {}
      /\ handle = [n \in Node |-> "held"] /\ joined = [n \in Node |-> {}]
  BY DEF Init
<1>2. TypeOK
  BY <1>1 DEF TypeOK, Phase
<1>3. ASSUME NEW e \in End PROVE ~Kept(e)
  <2>1. e[2] \in Node /\ Peer(e) \in Node /\ e[1] \in Conn
    BY ConnOfEnd
  <2> QED  BY <1>1, <2>1, NoConnAssumption DEF Kept
<1>4. DialedFirst
  BY <1>1, EndsOfConn DEF DialedFirst
<1> QED  BY <1>2, <1>3, <1>4 DEF ConnInv, KeptHandled, ReadOrGone

\* A step of a task or a reader moves no hub's life; only NewPeer, SendFails and
\* HandlerFails write a table.
LEMMA NextType == TypeOK /\ Next => TypeOK'
<1> SUFFICES ASSUME TypeOK, Next PROVE TypeOK'
  OBVIOUS
<1> USE DEF Phase
<1>1. ASSUME NEW c \in Conn, Discover(c) \/ DialStep(c) PROVE TypeOK'
  <2>1. Dialer(c) \in End /\ Listener(c) \in End
    BY EndsOfConn
  <2>2. CASE Discover(c) \/ ShouldConnect(c) \/ ConnectFails(c) \/ OpenStream(c) \/ AcceptStream(c)
    BY <2>1, <2>2, GotoType
       DEF Discover, ShouldConnect, ConnectFails, OpenStream, AcceptStream
  <2>3. CASE Connect(c)
    BY <2>1, <2>3 DEF Connect, TypeOK, tasks, faults, supervision
  <2>4. CASE OpenFails(c)
    BY <2>4, AbandonType DEF OpenFails, EndSubscriber, TypeOK, faults, supervision
  <2>5. CASE AcceptFails(c)
    BY <2>5, AbandonType DEF AcceptFails, EndListener, TypeOK, faults, supervision
  <2> QED  BY <1>1, <2>2, <2>3, <2>4, <2>5 DEF DialStep
<1>2. ASSUME NEW c \in Conn, Lose(c) PROVE TypeOK'
  BY <1>2 DEF Lose, TypeOK, tasks, supervision
<1>3. ASSUME NEW e \in End, NewPeer(e) PROVE TypeOK'
  <2>1. e[1] \in Conn /\ e[2] \in Node /\ Peer(e) \in Node
    BY ConnOfEnd
  <2>2. CASE Goto(e, "over")
    BY <2>2, GotoType
  <2>3. CASE /\ peers' = [peers EXCEPT ![e[2]][Peer(e)] = e[1]]
             /\ phase' = [phase EXCEPT ![e] = "reading"]
             /\ UNCHANGED <<hubs, tasks, faults, supervision>>
    BY <2>1, <2>3 DEF TypeOK, tasks, faults, supervision
  <2> QED  BY <1>3, <2>2, <2>3 DEF NewPeer
<1>4. ASSUME NEW e \in End, CallFails(e) PROVE TypeOK'
  BY <1>4, AbandonType DEF CallFails, EndSubscriber, EndListener, TypeOK, faults, supervision
<1>5. ASSUME NEW e \in End, ReaderEnds(e) PROVE TypeOK'
  BY <1>5, GotoType DEF ReaderEnds
<1>6. ASSUME NEW n \in Node, NEW m \in Node, SendFails(n, m) PROVE TypeOK'
  BY <1>6 DEF SendFails, TypeOK, tasks, faults, supervision
<1>7. ASSUME NEW e \in End, DecodeFails(e) PROVE TypeOK'
  BY <1>7 DEF DecodeFails, TypeOK, tasks, supervision
<1>8. ASSUME NEW n \in Node, HandlerFails(n) PROVE TypeOK'
  BY <1>8 DEF HandlerFails, TypeOK, tasks, supervision
<1> QED  BY <1>1, <1>2, <1>3, <1>4, <1>5, <1>6, <1>7, <1>8 DEF Next, EndStep

LEMMA StepKeepsTypes == TypeOK /\ [RunNext]_vars => TypeOK'
<1> SUFFICES ASSUME TypeOK, [RunNext]_vars PROVE TypeOK'
  OBVIOUS
<1>1. CASE UNCHANGED vars
  BY <1>1 DEF vars, connections, supervision, TypeOK
<1>2. CASE Next
  BY <1>2, NextType
<1>3. ASSUME NEW n \in Node, Poll(n) PROVE TypeOK'
  <2>1. Over(n) \in SUBSET {"hub", "tasks"}
    BY DEF Over
  <2> HIDE DEF Over
  <2> QED  BY <1>3, <2>1 DEF Poll, connections, TypeOK
<1>4. ASSUME NEW n \in Node, Drop(n) PROVE TypeOK'
  BY <1>4, AbandonType DEF Drop, TypeOK, faults
<1> QED  BY <1>1, <1>2, <1>3, <1>4 DEF RunNext

\* The variables keep their types, whatever is lost and whoever is dropped.
THEOREM SupervisionTypeCorrect == RunSpec => []TypeOK
<1>1. Init => TypeOK
  BY InitInConnInv DEF ConnInv
<1> QED  BY <1>1, StepKeepsTypes, PTL DEF RunSpec

-----------------------------------------------------------------------------
(***************************************************************************)
(* The invariant.  Every step but Connect and NewPeer fades: nothing comes *)
(* into a table, no stream comes to life, and a reader that ends has its   *)
(* reason.                                                                 *)
(***************************************************************************)
Early == {"new", "asked", "allowed"}
Shaking == {"connected", "accepted", "open"}

\* Why an end need not be read.
Gone(e) ==
  \/ ~Sending(Far(e))
  \/ e[1] \in lost
  \/ e \in undecoded
  \/ e[2] \notin hubs
  \/ TaskEnded(e)

Fades ==
  /\ hubs' \subseteq hubs /\ lost \subseteq lost' /\ undecoded \subseteq undecoded'
  /\ subscribing' \subseteq subscribing /\ listening' \subseteq listening
  /\ \A e \in End :
       /\ Sending(e)' => Sending(e)
       /\ Kept(e)' => Kept(e)
       /\ phase[e] \in {"reading", "over"} =>
            phase'[e] = phase[e] \/ (phase'[e] = "over" /\ (Gone(e) \/ Gone(e)'))
       /\ phase'[e] \in Early => phase[e] \in Early
       /\ e = Listener(e[1]) /\ phase[e] = "new" => phase'[e] = "new"

LEMMA FadingKeepsInv == ConnInv /\ TypeOK' /\ Fades => ConnInv'
<1> SUFFICES ASSUME ConnInv, TypeOK', Fades PROVE ConnInv'
  OBVIOUS
<1>1. KeptHandled'
  BY DEF ConnInv, KeptHandled, Fades
<1>2. DialedFirst'
  <2> SUFFICES ASSUME NEW c \in Conn, phase'[Dialer(c)] \in Early
               PROVE  phase'[Listener(c)] = "new"
    BY DEF DialedFirst, Early
  <2>1. Dialer(c) \in End /\ Listener(c) \in End /\ Listener(c) = Listener(Listener(c)[1])
    BY EndsOfConn DEF Listener
  <2> QED  BY <2>1 DEF ConnInv, DialedFirst, Fades, Early
<1>3. ReadOrGone'
  <2> SUFFICES ASSUME NEW e \in End, e[2] \in hubs', Kept(e)', ~Gone(e)'
               PROVE  phase'[e] = "reading"
    BY DEF ReadOrGone, Gone, Kept, TaskEnded, Sending
  <2>1. Far(e) \in End
    BY ConnOfEnd
  <2>2. ~Gone(e)
    BY <2>1 DEF Gone, TaskEnded, Fades
  <2>3. phase[e] = "reading"
    BY <2>2 DEF ConnInv, ReadOrGone, Gone, Fades
  <2> QED  BY <2>2, <2>3 DEF Fades
<1> QED  BY <1>1, <1>2, <1>3 DEF ConnInv

\* One task moves on with an end.
LEMMA GotoFades ==
  ASSUME TypeOK, NEW e \in End, NEW p \in Phase, Goto(e, p),
         phase[e] # "over",
         p \in Shaking => phase[e] \in Shaking,
         p \in Early => phase[e] \in Early,
         phase[e] = "new" => e # Listener(e[1]),
         phase[e] = "reading" => p = "over" /\ Gone(e)
  PROVE  Fades
<1>1. /\ peers' = peers /\ hubs' = hubs /\ subscribing' = subscribing
      /\ listening' = listening /\ lost' = lost /\ undecoded' = undecoded
      /\ \A x \in End : phase'[x] = IF x = e THEN p ELSE phase[x]
  BY GotoType
<1>2. \A x \in End : (Kept(x)' <=> Kept(x)) /\ (Sending(x)' => Sending(x))
  BY <1>1 DEF Kept, Sending, Shaking
<1> QED  BY <1>1, <1>2 DEF Fades

\* A task ends, or a node does: its ends are over.
LEMMA AbandonFades ==
  ASSUME TypeOK, NEW ends, Abandon(ends),
         hubs' \subseteq hubs, lost' = lost, undecoded' = undecoded,
         subscribing' \subseteq subscribing, listening' \subseteq listening,
         \A n, m \in Node : peers'[n][m] = peers[n][m] \/ peers'[n][m] = NoConn,
         \A e \in End : e \in ends => e[2] \notin hubs' \/ TaskEnded(e)'
  PROVE  Fades
<1>1. \A x \in End : phase'[x] = IF x \in ends /\ phase[x] # "new" THEN "over" ELSE phase[x]
  BY AbandonType
<1>2. \A x \in End : Kept(x)' => Kept(x)
  BY ConnOfEnd, NoConnAssumption DEF Kept
<1>3. \A x \in End : Sending(x)' => Sending(x)
  BY <1>1, <1>2 DEF Sending, Kept
<1>4. \A x \in End : x \in ends => Gone(x)'
  BY DEF Gone
<1> QED  BY <1>1, <1>2, <1>3, <1>4 DEF Fades, Early

\* A connection is made: neither end is in a table yet, or was sending to one.
LEMMA ConnectKeepsInv ==
  ASSUME ConnInv, TypeOK', NEW c \in Conn, Connect(c)
  PROVE  ConnInv'
<1>1. /\ Dialer(c) \in End /\ Listener(c) \in End /\ Dialer(c) # Listener(c)
      /\ Far(Dialer(c)) = Listener(c) /\ Far(Listener(c)) = Dialer(c)
  BY EndsOfConn
<1>2. /\ phase[Dialer(c)] = "allowed" /\ phase[Listener(c)] = "new"
      /\ ~Kept(Dialer(c)) /\ ~Kept(Listener(c))
  BY <1>1 DEF Connect, ConnInv, DialedFirst, KeptHandled
<1>3. /\ peers' = peers /\ hubs' = hubs /\ subscribing' = subscribing
      /\ listening' = listening /\ lost' = lost /\ undecoded' = undecoded
      /\ \A x \in End : phase'[x] = IF x = Dialer(c) THEN "connected"
                                    ELSE IF x = Listener(c) THEN "accepted" ELSE phase[x]
  BY <1>1 DEF Connect, tasks, faults, ConnInv, TypeOK
<1>4. \A x \in End : Kept(x)' <=> Kept(x)
  BY <1>3 DEF Kept
<1>5. KeptHandled'
  BY <1>2, <1>3, <1>4 DEF ConnInv, KeptHandled
<1>6. DialedFirst'
  <2>1. \A d \in Conn : d # c => Listener(d) # Listener(c) /\ Listener(d) # Dialer(c)
    <3>1. \A d \in Conn : Listener(d)[1] = d /\ Dialer(c)[1] = c /\ Listener(c)[1] = c
      BY DEF Listener, Dialer
    <3> QED  BY <3>1
  <2>2. \A d \in Conn : Dialer(d) \in End /\ Listener(d) \in End
    BY EndsOfConn
  <2> QED  BY <1>1, <1>3, <2>1, <2>2 DEF ConnInv, DialedFirst
<1>7. ReadOrGone'
  <2> SUFFICES ASSUME NEW e \in End, e[2] \in hubs', Kept(e)'
               PROVE  phase'[e] = "reading" \/ Gone(e)'
    BY DEF ReadOrGone, Gone, Kept, TaskEnded, Sending
  <2>1. e # Dialer(c) /\ e # Listener(c) /\ Kept(e)
    BY <1>2, <1>4
  <2>2. Far(e) \in End /\ Far(e) # Dialer(c) /\ Far(e) # Listener(c)
    <3>1. Far(e) \in End /\ Far(e)[1] = e[1]
      BY ConnOfEnd
    <3>2. Dialer(c)[1] = c /\ Listener(c)[1] = c
      BY DEF Dialer, Listener
    <3>3. e[1] = c => e = Dialer(c) \/ e = Listener(c)
      BY ConnOfEnd
    <3> QED  BY <2>1, <3>1, <3>2, <3>3
  <2>3. Sending(Far(e))' <=> Sending(Far(e))
    BY <1>3, <2>2 DEF Sending
  <2>4. phase[e] = "reading" \/ Gone(e)
    BY <1>3, <2>1 DEF ConnInv, ReadOrGone, Gone
  <2> QED  BY <1>3, <2>1, <2>3, <2>4 DEF Gone, TaskEnded
<1> QED  BY <1>5, <1>6, <1>7 DEF ConnInv

\* The hub takes a stream into its table: it is read from now on, and was alive
\* before; the one it replaces is not in the table any more.
LEMMA NewPeerKeepsInv ==
  ASSUME ConnInv, TypeOK', NEW e \in End, NewPeer(e)
  PROVE  ConnInv'
<1>1. TypeOK /\ phase[e] = "open" /\ e[2] \in hubs
  BY DEF NewPeer, ConnInv
<1>2. CASE Goto(e, "over")
  <2>1. Fades
    BY <1>1, <1>2, GotoFades DEF Phase, Shaking, Early
  <2> QED  BY <2>1, FadingKeepsInv
<1>3. CASE /\ peers' = [peers EXCEPT ![e[2]][Peer(e)] = e[1]]
           /\ phase' = [phase EXCEPT ![e] = "reading"]
           /\ UNCHANGED <<hubs, tasks, faults, supervision>>
  <2>1. /\ hubs' = hubs /\ subscribing' = subscribing /\ listening' = listening
        /\ lost' = lost /\ undecoded' = undecoded
        /\ \A x \in End : phase'[x] = IF x = e THEN "reading" ELSE phase[x]
        /\ \A n, m \in Node : peers'[n][m] = IF n = e[2] /\ m = Peer(e) THEN e[1]
                                             ELSE peers[n][m]
    <3>1. e[2] \in Node /\ Peer(e) \in Node
      BY ConnOfEnd
    <3> QED  BY <1>1, <1>3, <3>1 DEF tasks, faults, TypeOK
  <2>2. \A x \in End : x # e /\ Kept(x)' => Kept(x)
    <3> SUFFICES ASSUME NEW x \in End, x # e, Kept(x)'
                 PROVE  Kept(x)
      OBVIOUS
    <3>1. x[2] \in Node /\ Peer(x) \in Node /\ x = <<x[1], x[2]>> /\ e = <<e[1], e[2]>>
      BY ConnOfEnd DEF End
    <3> QED  BY <2>1, <3>1 DEF Kept
  <2>3. \A x \in End : Sending(x)' => Sending(x)
    BY <1>1, <2>1, <2>2 DEF Sending, Kept
  <2>4. KeptHandled'
    BY <2>1, <2>2 DEF ConnInv, KeptHandled
  <2>5. DialedFirst'
    <3> SUFFICES ASSUME NEW c \in Conn, phase'[Dialer(c)] \in Early
                 PROVE  phase'[Listener(c)] = "new"
      BY DEF DialedFirst, Early
    <3>1. Dialer(c) \in End /\ Listener(c) \in End
      BY EndsOfConn
    <3>2. phase[Listener(c)] = "new"
      BY <2>1, <3>1 DEF ConnInv, DialedFirst, Early
    <3> QED  BY <1>1, <2>1, <3>1, <3>2
  <2>6. ReadOrGone'
    <3> SUFFICES ASSUME NEW x \in End, x[2] \in hubs', Kept(x)', x # e
                 PROVE  phase'[x] = "reading" \/ Gone(x)'
      BY <2>1 DEF ReadOrGone, Gone, Kept, TaskEnded, Sending
    <3>1. phase[x] = "reading" \/ Gone(x)
      BY <2>1, <2>2 DEF ConnInv, ReadOrGone, Gone
    <3>2. Far(x) \in End
      BY ConnOfEnd
    <3> QED  BY <2>1, <2>3, <3>1, <3>2 DEF Gone, TaskEnded
  <2> QED  BY <2>4, <2>5, <2>6 DEF ConnInv
<1> QED  BY <1>2, <1>3 DEF NewPeer

LEMMA NextKeepsInv == ConnInv /\ TypeOK' /\ Next => ConnInv'
<1> SUFFICES ASSUME ConnInv, TypeOK', Next PROVE ConnInv'
  OBVIOUS
<1>1. TypeOK
  BY DEF ConnInv
<1>2. SUFFICES ASSUME ~(\E c \in Conn : Connect(c)), ~(\E e \in End : NewPeer(e))
               PROVE  Fades
  BY ConnectKeepsInv, NewPeerKeepsInv, FadingKeepsInv
<1>3. ASSUME NEW c \in Conn, Discover(c) \/ DialStep(c) PROVE Fades
  <2>1. /\ Dialer(c) \in End /\ Listener(c) \in End /\ Dialer(c) # Listener(c)
        /\ Dialer(c)[1] = c /\ Dialer(c)[2] = c[1]
        /\ Listener(c)[1] = c /\ Listener(c)[2] = c[2]
    BY EndsOfConn DEF Dialer, Listener
  <2>2. CASE Discover(c) \/ ShouldConnect(c) \/ ConnectFails(c) \/ OpenStream(c)
    BY <1>1, <2>1, <2>2, GotoFades
       DEF Discover, ShouldConnect, ConnectFails, OpenStream, Phase, Shaking, Early
  <2>3. CASE AcceptStream(c)
    BY <1>1, <2>1, <2>3, GotoFades DEF AcceptStream, Phase, Shaking, Early
  <2>4. CASE OpenFails(c)
    <3>1. \A e \in End : (e = Dialer(e[1]) /\ e[2] = c[1]) => TaskEnded(e)'
      BY <2>4 DEF OpenFails, EndSubscriber, TaskEnded
    <3> QED  BY <1>1, <2>4, <3>1, AbandonFades DEF OpenFails, EndSubscriber, faults
  <2>5. CASE AcceptFails(c)
    <3>1. \A e \in End : (e = Listener(e[1]) /\ e[2] = c[2]) => TaskEnded(e)'
      BY <2>5 DEF AcceptFails, EndListener, TaskEnded
    <3> QED  BY <1>1, <2>5, <3>1, AbandonFades DEF AcceptFails, EndListener, faults
  <2> QED  BY <1>2, <1>3, <2>2, <2>3, <2>4, <2>5 DEF DialStep
<1>4. ASSUME NEW c \in Conn, Lose(c) PROVE Fades
  BY <1>4 DEF Lose, tasks, Fades, Sending, Kept
<1>5. ASSUME NEW e \in End, CallFails(e) PROVE Fades
  <2>1. CASE EndSubscriber(e[2])
    <3>1. \A x \in End : (x = Dialer(x[1]) /\ x[2] = e[2]) => TaskEnded(x)'
      BY <2>1 DEF EndSubscriber, TaskEnded
    <3> QED  BY <1>1, <2>1, <3>1, AbandonFades DEF EndSubscriber, faults
  <2>2. CASE EndListener(e[2])
    <3>1. \A x \in End : (x = Listener(x[1]) /\ x[2] = e[2]) => TaskEnded(x)'
      BY <2>2 DEF EndListener, TaskEnded
    <3> QED  BY <1>1, <2>2, <3>1, AbandonFades DEF EndListener, faults
  <2> QED  BY <1>5, <2>1, <2>2 DEF CallFails
<1>6. ASSUME NEW e \in End, ReaderEnds(e) PROVE Fades
  <2>1. Gone(e)
    BY <1>6 DEF ReaderEnds, Gone
  <2> QED  BY <1>1, <1>6, <2>1, GotoFades DEF ReaderEnds, Phase, Shaking, Early
<1>7. ASSUME NEW n \in Node,
             (\E m \in Node : SendFails(n, m)) \/ HandlerFails(n)
      PROVE  Fades
  <2>1. /\ phase' = phase /\ subscribing' = subscribing /\ listening' = listening
        /\ lost' = lost /\ undecoded' = undecoded /\ hubs' \subseteq hubs
        /\ \A a, b \in Node : peers'[a][b] = peers[a][b] \/ peers'[a][b] = NoConn
    <3>1. CASE \E m \in Node : SendFails(n, m)
      BY <1>1, <3>1 DEF SendFails, tasks, faults, TypeOK
    <3>2. CASE HandlerFails(n)
      BY <1>1, <3>2 DEF HandlerFails, tasks, TypeOK
    <3> QED  BY <1>7, <3>1, <3>2
  <2>2. \A x \in End : Kept(x)' => Kept(x)
    BY <2>1, ConnOfEnd, NoConnAssumption DEF Kept
  <2> QED  BY <2>1, <2>2 DEF Fades, Sending, Kept
<1>8. ASSUME NEW e \in End, DecodeFails(e) PROVE Fades
  <2>1. /\ hubs' = hubs /\ peers' = peers /\ lost' = lost
        /\ subscribing' = subscribing /\ listening' = listening
        /\ undecoded' = undecoded \cup {e} /\ phase[e] = "reading"
        /\ \A x \in End : phase'[x] = IF x = e THEN "over" ELSE phase[x]
    BY <1>1, <1>8 DEF DecodeFails, tasks, TypeOK
  <2>2. Gone(e)'
    BY <2>1 DEF Gone
  <2>3. \A x \in End : (Kept(x)' <=> Kept(x)) /\ (Sending(x)' => Sending(x))
    BY <2>1 DEF Kept, Sending
  <2> QED  BY <2>1, <2>2, <2>3 DEF Fades, Early
<1> QED  BY <1>2, <1>3, <1>4, <1>5, <1>6, <1>7, <1>8 DEF Next, EndStep

LEMMA StepKeepsInv == ConnInv /\ [RunNext]_vars => ConnInv'
<1> SUFFICES ASSUME ConnInv, [RunNext]_vars PROVE ConnInv'
  OBVIOUS
<1>1. TypeOK' /\ TypeOK
  BY StepKeepsTypes DEF ConnInv
<1>2. CASE UNCHANGED connections
  BY <1>1, <1>2
     DEF connections, ConnInv, KeptHandled, DialedFirst, ReadOrGone, Kept, Sending, TaskEnded
<1>3. CASE Next
  BY <1>1, <1>3, NextKeepsInv
<1>4. ASSUME NEW n \in Node, Drop(n) PROVE ConnInv'
  <2>1. /\ hubs' \subseteq hubs /\ n \notin hubs'
        /\ lost' = lost /\ undecoded' = undecoded
        /\ subscribing' \subseteq subscribing /\ listening' \subseteq listening
        /\ Abandon({e \in End : e[2] = n})
        /\ \A a, b \in Node : peers'[a][b] = peers[a][b] \/ peers'[a][b] = NoConn
    BY <1>1, <1>4 DEF Drop, TypeOK, faults
  <2>2. Fades
    BY <1>1, <2>1, AbandonFades
  <2> QED  BY <1>1, <2>2, FadingKeepsInv
<1> QED  BY <1>2, <1>3, <1>4 DEF RunNext, Poll, vars

\* Whatever stream a hub keeps is read at this end, unless the connection is lost,
\* a message on it did not decode (peer.rs:92), its far end no longer sends, or the
\* task that spawned the reader has ended: the entry a hub writes for NewPeer and the
\* Peer its caller spawns stay together (peerhub.rs:625-654, new_peer_watcher.rs), for
\* any number of nodes, losses and failures.
THEOREM KeptAreRead == RunSpec => []KeptHasReader
<1>1. ConnInv => KeptHasReader
  BY DEF ConnInv, ReadOrGone, Kept, TaskEnded, KeptHasReader
<1> QED  BY <1>1, InitInConnInv, StepKeepsInv, PTL DEF RunSpec
=============================================================================
