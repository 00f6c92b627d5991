------------------------------ MODULE LinkProofs ------------------------------
(***************************************************************************)
(* When two nodes dial each other, both keep the same connection, the one  *)
(* the smaller id dialed; and as long as every message decodes and is      *)
(* handled and no handle is dropped, two nodes that dial each other are    *)
(* the only way the handshakes bring a hub or a task to its end.  For any  *)
(* number of nodes, as long as the table of a hub has room for all its     *)
(* node finds or is found by, and one more, and the network loses nothing. *)
(*                                                                         *)
(* Of the two connections between a pair of nodes, the one that is made    *)
(* and dialed by the smaller id, or made alone, wins.  The invariant says  *)
(* that a node whose end of the winner has been handled keeps it, whatever *)
(* the order in which the two connections are made and handled, whoever is *)
(* dropped and whichever hub stops.                                        *)
(***************************************************************************)
EXTENDS SupervisionProofs, FiniteSetTheorems

Rev(c) == <<c[2], c[1]>>

\* The listener has accepted the connection.
Made(c) == phase[Listener(c)] # "new"

\* c is the connection its two nodes should keep, as far as connections are made.
Wins(c) == Made(c) /\ (Id[c[1]] < Id[c[2]] \/ ~Made(Rev(c)))

Busy == {"connected", "open", "reading"}
Handled == {"reading", "over"}

BothRun(c) == c[1] \in hubs /\ c[2] \in hubs

WinnerKept ==
  \A c \in Conn : (BothRun(c) /\ Wins(c)) =>
    /\ phase[Dialer(c)] \in Handled => peers[c[1]][c[2]] = c
    /\ phase[Listener(c)] \in Handled => peers[c[2]][c[1]] = c

DialedMade == \A c \in Conn : phase[Dialer(c)] \in Busy => Made(c)

TableMade == \A e \in End : Kept(e) => Made(e[1])

OwnTable ==
  \A n, m \in Node : peers[n][m] # NoConn =>
    n # m /\ peers[n][m] \in {<<n, m>>, <<m, n>>}

OneAtATime ==
  \A c, d \in Conn :
    /\ c[2] = d[2]
    /\ phase[Listener(c)] \in Handshake
    /\ phase[Listener(d)] \in Handshake
    => c = d

\* A stream is opened to a listener that waits for it, or whose node has stopped.
Awaited ==
  \A c \in Conn :
    phase[Dialer(c)] = "connected" => phase[Listener(c)] = "accepted" \/ c[2] \notin hubs

FoundOnly == \A c \in Conn : phase[Dialer(c)] # "new" => c \in Found

LinkInv ==
  /\ ConnInv /\ lost = {}
  /\ WinnerKept /\ DialedMade /\ TableMade /\ OwnTable /\ OneAtATime /\ Awaited
  /\ FoundOnly

\* The subscriber has one connection in hand at a time.
OneDialed ==
  \A c, d \in Conn :
    /\ c[1] = d[1]
    /\ phase[Dialer(c)] \in Handshake
    /\ phase[Dialer(d)] \in Handshake
    => c = d

\* Whom a node finds or is found by, and that a table has room for all of them
\* and one more.
Neighbours(n) == {m \in Node : <<n, m>> \in Found \/ <<m, n>> \in Found}

RoomForAll ==
  \A n \in Node : IsFiniteSet(Neighbours(n)) /\ Cardinality(Neighbours(n)) < PeerSizeLimit

-----------------------------------------------------------------------------
(***************************************************************************)
(* Connections and their ends.                                             *)
(***************************************************************************)
LEMMA ConnParts ==
  \A c \in Conn : /\ c[1] \in Node /\ c[2] \in Node /\ c[1] # c[2] /\ c = <<c[1], c[2]>>
                  /\ Rev(c) \in Conn /\ Rev(c) # c /\ Rev(Rev(c)) = c
                  /\ Rev(c)[1] = c[2] /\ Rev(c)[2] = c[1]
<1> SUFFICES ASSUME NEW c \in Conn
             PROVE  /\ c[1] \in Node /\ c[2] \in Node /\ c[1] # c[2] /\ c = <<c[1], c[2]>>
                    /\ Rev(c) \in Conn /\ Rev(c) # c /\ Rev(Rev(c)) = c
                    /\ Rev(c)[1] = c[2] /\ Rev(c)[2] = c[1]
  OBVIOUS
<1>1. c[1] \in Node /\ c[2] \in Node /\ c[1] # c[2] /\ c = <<c[1], c[2]>>
  BY DEF Conn
<1>2. Rev(c)[1] = c[2] /\ Rev(c)[2] = c[1]
  BY DEF Rev
<1>3. Rev(c) \in Conn
  BY <1>1 DEF Rev, Conn
<1>4. Rev(Rev(c)) = c /\ Rev(c) # c
  BY <1>1, <1>2 DEF Rev
<1> QED  BY <1>1, <1>2, <1>3, <1>4

LEMMA EndParts ==
  \A c \in Conn : /\ Dialer(c)[1] = c /\ Dialer(c)[2] = c[1] /\ Peer(Dialer(c)) = c[2]
                  /\ Listener(c)[1] = c /\ Listener(c)[2] = c[2] /\ Peer(Listener(c)) = c[1]
<1> SUFFICES ASSUME NEW c \in Conn
             PROVE  /\ Dialer(c)[1] = c /\ Dialer(c)[2] = c[1] /\ Peer(Dialer(c)) = c[2]
                    /\ Listener(c)[1] = c /\ Listener(c)[2] = c[2] /\ Peer(Listener(c)) = c[1]
  OBVIOUS
<1>1. /\ Dialer(c)[1] = c /\ Dialer(c)[2] = c[1]
      /\ Listener(c)[1] = c /\ Listener(c)[2] = c[2]
  BY DEF Dialer, Listener
<1>2. Dialer(c) # Listener(c)
  BY EndsOfConn
<1> QED  BY <1>1, <1>2 DEF Peer

\* Both ends of a connection that is kept are named by the tables of its nodes.
LEMMA KeptParts ==
  \A c \in Conn : /\ Kept(Dialer(c)) <=> peers[c[1]][c[2]] = c
                  /\ Kept(Listener(c)) <=> peers[c[2]][c[1]] = c
BY EndParts DEF Kept

\* A table that has entries for neighbours only is below its limit.
LEMMA TableHasRoom ==
  ASSUME LinkInv, RoomForAll, NEW n \in Node
  PROVE  ~AtLimit(n)
<1>1. PeersOf(n) \subseteq Neighbours(n)
  <2> SUFFICES ASSUME NEW m \in Node, peers[n][m] # NoConn
               PROVE  m \in Neighbours(n)
    BY DEF PeersOf
  <2>1. n # m /\ peers[n][m] \in {<<n, m>>, <<m, n>>}
    BY DEF LinkInv, OwnTable
  <2>2. ASSUME NEW c \in Conn, Kept(Dialer(c)) \/ Kept(Listener(c)) PROVE c \in Found
    <3>1. Made(c)
      BY <2>2, EndsOfConn, EndParts DEF LinkInv, TableMade
    <3> QED  BY <3>1 DEF Made, LinkInv, ConnInv, DialedFirst, FoundOnly
  <2>3. CASE peers[n][m] = <<n, m>>
    <3>1. <<n, m>> \in Conn
      BY <2>1 DEF Conn
    <3>2. Kept(Dialer(<<n, m>>))
      BY <2>3, <3>1, KeptParts
    <3> QED  BY <2>2, <3>1, <3>2 DEF Neighbours
  <2>4. CASE peers[n][m] = <<m, n>>
    <3>1. <<m, n>> \in Conn
      BY <2>1 DEF Conn
    <3>2. Kept(Listener(<<m, n>>))
      BY <2>4, <3>1, KeptParts
    <3> QED  BY <2>2, <3>1, <3>2 DEF Neighbours
  <2> QED  BY <2>1, <2>3, <2>4
<1>2. /\ Cardinality(PeersOf(n)) <= Cardinality(Neighbours(n))
      /\ Cardinality(Neighbours(n)) \in Nat /\ Cardinality(PeersOf(n)) \in Nat
      /\ Cardinality(Neighbours(n)) < PeerSizeLimit
  BY <1>1, FS_Subset, FS_CardinalityType DEF RoomForAll
<1> QED  BY <1>2, ConnectionsAssumption DEF AtLimit

-----------------------------------------------------------------------------
(***************************************************************************)
(* Every step but Connect and NewPeer is quiet: no connection is made, no  *)
(* table of a hub that goes on changes, and of a connection between two    *)
(* such hubs no end is handled that was not.                               *)
(***************************************************************************)
Undisturbed(c) ==
  /\ Made(c) /\ phase'[Dialer(c)] \in Handled => phase[Dialer(c)] \in Handled
  /\ phase'[Listener(c)] \in Handled =>
       \/ phase[Listener(c)] \in Handled
       \/ phase[Dialer(c)] = "over" /\ ~Kept(Dialer(c))

Quiet ==
  /\ hubs' \subseteq hubs
  /\ lost' = {}
  /\ \A n, m \in Node : peers'[n][m] # peers[n][m] => peers'[n][m] = NoConn /\ n \notin hubs'
  /\ \A c \in Conn :
       /\ Made(c)' <=> Made(c)
       /\ phase'[Dialer(c)] # "new" => phase[Dialer(c)] # "new" \/ c \in Found
       /\ phase'[Dialer(c)] \in Busy => phase[Dialer(c)] \in Busy
       /\ phase'[Listener(c)] \in Handshake => phase[Listener(c)] \in Handshake
       /\ phase'[Dialer(c)] = "connected" /\ c[2] \in hubs' =>
            phase[Dialer(c)] = "connected" /\ phase'[Listener(c)] = phase[Listener(c)]
       /\ BothRun(c)' => Undisturbed(c)

LEMMA QuietKeepsInv == LinkInv /\ ConnInv' /\ Quiet => LinkInv'
<1> SUFFICES ASSUME LinkInv, ConnInv', Quiet PROVE LinkInv'
  OBVIOUS
<1>1. WinnerKept'
  <2> SUFFICES ASSUME NEW c \in Conn, BothRun(c)', Wins(c)'
               PROVE  /\ phase'[Dialer(c)] \in Handled => peers'[c[1]][c[2]] = c
                      /\ phase'[Listener(c)] \in Handled => peers'[c[2]][c[1]] = c
    BY DEF WinnerKept
  <2>1. c[1] \in Node /\ c[2] \in Node /\ Rev(c) \in Conn
    BY ConnParts
  <2>2. Wins(c) /\ Made(c)
    BY <2>1 DEF Wins, Quiet
  <2>3. BothRun(c) /\ Undisturbed(c)
    BY DEF BothRun, Quiet
  <2>4. peers'[c[1]][c[2]] = peers[c[1]][c[2]] /\ peers'[c[2]][c[1]] = peers[c[2]][c[1]]
    BY <2>1 DEF BothRun, Quiet
  <2>5. /\ phase[Dialer(c)] \in Handled => peers[c[1]][c[2]] = c
        /\ phase[Listener(c)] \in Handled => peers[c[2]][c[1]] = c
    BY <2>2, <2>3 DEF LinkInv, WinnerKept
  <2> QED  BY <2>2, <2>3, <2>4, <2>5, KeptParts DEF Undisturbed, Handled
<1>2. DialedMade'
  BY DEF LinkInv, DialedMade, Quiet
<1>3. TableMade'
  <2> SUFFICES ASSUME NEW e \in End, Kept(e)' PROVE Made(e[1])'
    BY DEF TableMade
  <2>1. e[1] \in Conn /\ e[2] \in Node /\ Peer(e) \in Node /\ e[1] # NoConn
    BY ConnOfEnd, NoConnAssumption
  <2>2. Kept(e)
    BY <2>1 DEF Kept, Quiet
  <2> QED  BY <2>1, <2>2 DEF LinkInv, TableMade, Quiet
<1>4. OwnTable'
  BY DEF LinkInv, OwnTable, Quiet
<1>5. OneAtATime'
  BY DEF LinkInv, OneAtATime, Quiet
<1>6. FoundOnly'
  BY DEF LinkInv, FoundOnly, Quiet
<1>7. Awaited'
  BY DEF LinkInv, Awaited, Quiet
<1> QED  BY <1>1, <1>2, <1>3, <1>4, <1>5, <1>6, <1>7 DEF LinkInv, Quiet

\* One task moves on with an end, the tables staying as they are.
LEMMA GotoQuiet ==
  ASSUME LinkInv, NEW e \in End, NEW p \in Phase,
         phase' = [phase EXCEPT ![e] = p], peers' = peers, hubs' = hubs, lost' = lost,
         phase[e] = "new" => e # Listener(e[1]) /\ e[1] \in Found,
         p # "new", p # "accepted", p # "connected",
         e = Listener(e[1]) => phase[Dialer(e[1])] # "connected" \/ e[2] \notin hubs,
         p \in Busy => phase[e] \in Busy \/ e # Dialer(e[1]),
         p \in Handshake => phase[e] \in Handshake \/ e # Listener(e[1]),
         p \in Handled => phase[e] \in Handled \/ (e = Dialer(e[1]) /\ ~Made(e[1]))
  PROVE  Quiet
<1>1. /\ peers' = peers /\ hubs' = hubs /\ lost' = {}
      /\ \A x \in End : phase'[x] = IF x = e THEN p ELSE phase[x]
  BY DEF LinkInv, ConnInv, TypeOK
<1>2. ASSUME NEW c \in Conn
      PROVE  /\ Made(c)' <=> Made(c)
             /\ phase'[Dialer(c)] # "new" => phase[Dialer(c)] # "new" \/ c \in Found
             /\ phase'[Dialer(c)] \in Busy => phase[Dialer(c)] \in Busy
             /\ phase'[Listener(c)] \in Handshake => phase[Listener(c)] \in Handshake
             /\ phase'[Dialer(c)] = "connected" /\ c[2] \in hubs' =>
                  phase[Dialer(c)] = "connected" /\ phase'[Listener(c)] = phase[Listener(c)]
             /\ BothRun(c)' => Undisturbed(c)
  <2>1. /\ Dialer(c) \in End /\ Listener(c) \in End /\ Dialer(c) # Listener(c)
        /\ Dialer(c)[1] = c /\ Listener(c)[1] = c
    BY EndsOfConn, EndParts
  <2>2. BothRun(c)' <=> BothRun(c)
    BY <1>1 DEF BothRun
  <2>3. CASE e = Dialer(c)
    BY <1>1, <2>1, <2>2, <2>3 DEF Made, Undisturbed, Busy, Handled
  <2>4. CASE e = Listener(c)
    <3>1. e[2] = c[2]
      BY <2>4, EndParts
    <3> QED  BY <1>1, <2>1, <2>2, <2>4, <3>1 DEF Made, Undisturbed, Handled
  <2>5. CASE e # Dialer(c) /\ e # Listener(c)
    BY <1>1, <2>1, <2>5 DEF Made, Undisturbed
  <2> QED  BY <2>3, <2>4, <2>5
<1> QED  BY <1>1, <1>2 DEF Quiet

\* The ends of a node whose hub has stopped are over.
LEMMA StoppedQuiet ==
  ASSUME LinkInv, NEW n, n \notin hubs', NEW ends, Abandon(ends),
         hubs' \subseteq hubs, lost' = lost,
         \A e \in End : e \in ends => e[2] = n,
         \A a, b \in Node : peers'[a][b] # peers[a][b] => peers'[a][b] = NoConn /\ a \notin hubs'
  PROVE  Quiet
<1>1. \A x \in End : phase'[x] = IF x \in ends /\ phase[x] # "new" THEN "over" ELSE phase[x]
  BY AbandonType DEF LinkInv, ConnInv
<1>2. ASSUME NEW c \in Conn
      PROVE  /\ Made(c)' <=> Made(c)
             /\ phase'[Dialer(c)] # "new" => phase[Dialer(c)] # "new" \/ c \in Found
             /\ phase'[Dialer(c)] \in Busy => phase[Dialer(c)] \in Busy
             /\ phase'[Listener(c)] \in Handshake => phase[Listener(c)] \in Handshake
             /\ phase'[Dialer(c)] = "connected" /\ c[2] \in hubs' =>
                  phase[Dialer(c)] = "connected" /\ phase'[Listener(c)] = phase[Listener(c)]
             /\ BothRun(c)' => Undisturbed(c)
  <2>1. /\ Dialer(c) \in End /\ Listener(c) \in End
        /\ Dialer(c)[2] = c[1] /\ Listener(c)[2] = c[2]
    BY EndsOfConn, EndParts
  <2>2. BothRun(c)' => /\ phase'[Dialer(c)] = phase[Dialer(c)]
                       /\ phase'[Listener(c)] = phase[Listener(c)]
    BY <1>1, <2>1 DEF BothRun
  <2>3. c[2] \in hubs' => phase'[Listener(c)] = phase[Listener(c)]
    BY <1>1, <2>1
  <2> QED  BY <1>1, <2>1, <2>2, <2>3 DEF Made, Undisturbed, Busy, Handshake
<1> QED  BY <1>2 DEF Quiet, LinkInv

\* A listener task that ends has the connection in hand that its dialer dropped,
\* and no other.
LEMMA AcceptFailsQuiet ==
  ASSUME LinkInv, NEW c \in Conn, AcceptFails(c)
  PROVE  Quiet
<1> DEFINE ends == {e \in End : e = Listener(e[1]) /\ e[2] = c[2]}
<1>1. /\ peers' = peers /\ hubs' = hubs /\ lost' = {} /\ Abandon(ends)
      /\ phase[Listener(c)] = "accepted" /\ phase[Dialer(c)] = "over"
      /\ ~Kept(Dialer(c))
  BY DEF AcceptFails, EndListener, LinkInv, faults, Sending, Kept
<1>2. \A x \in End : phase'[x] = IF x \in ends /\ phase[x] # "new" THEN "over" ELSE phase[x]
  BY <1>1, AbandonType DEF LinkInv, ConnInv
<1>3. ASSUME NEW d \in Conn
      PROVE  /\ Made(d)' <=> Made(d)
             /\ phase'[Dialer(d)] # "new" => phase[Dialer(d)] # "new" \/ d \in Found
             /\ phase'[Dialer(d)] \in Busy => phase[Dialer(d)] \in Busy
             /\ phase'[Listener(d)] \in Handshake => phase[Listener(d)] \in Handshake
             /\ phase'[Dialer(d)] = "connected" /\ d[2] \in hubs' =>
                  phase[Dialer(d)] = "connected" /\ phase'[Listener(d)] = phase[Listener(d)]
             /\ BothRun(d)' => Undisturbed(d)
  <2>1. /\ Dialer(d) \in End /\ Listener(d) \in End /\ Dialer(d) # Listener(d)
        /\ Dialer(d)[1] = d /\ Listener(d)[1] = d /\ Listener(d)[2] = d[2]
    BY EndsOfConn, EndParts
  <2>2. phase'[Dialer(d)] = phase[Dialer(d)]
    BY <1>2, <2>1
  <2>3. phase[Listener(d)] \in Phase
    BY <2>1 DEF LinkInv, ConnInv, TypeOK
  <2>4. CASE Listener(d) \in ends /\ phase[Listener(d)] # "new"
    <3>1. phase'[Listener(d)] = "over" /\ d[2] = c[2]
      BY <1>2, <2>1, <2>4
    <3>2. phase[Listener(d)] \in Handshake => d = c
      BY <1>1, <3>1 DEF LinkInv, OneAtATime, Handshake
    <3>3. phase[Listener(d)] \in Handled \/ phase[Listener(d)] \in Handshake
      BY <2>3, <2>4 DEF Phase, Handled, Handshake
    <3>4. phase[Dialer(d)] = "connected" => d[2] \notin hubs
      BY <1>1, <3>2 DEF LinkInv, Awaited, Handshake
    <3> QED  BY <1>1, <2>2, <2>4, <3>1, <3>2, <3>3, <3>4 DEF Made, Undisturbed, Handshake
  <2>5. CASE ~(Listener(d) \in ends /\ phase[Listener(d)] # "new")
    <3>1. phase'[Listener(d)] = phase[Listener(d)]
      BY <1>2, <2>1, <2>5
    <3> QED  BY <2>2, <3>1 DEF Made, Undisturbed
  <2> QED  BY <2>4, <2>5
<1> QED  BY <1>1, <1>3 DEF Quiet

\* A subscriber task that ends while it opens a stream has that connection in hand,
\* and no other, and the node it dialed has stopped.
LEMMA OpenFailsQuiet ==
  ASSUME LinkInv, OneDialed, NEW c \in Conn, OpenFails(c)
  PROVE  Quiet
<1> DEFINE ends == {e \in End : e = Dialer(e[1]) /\ e[2] = c[1]}
<1>1. /\ peers' = peers /\ hubs' = hubs /\ lost' = {} /\ Abandon(ends)
      /\ phase[Dialer(c)] = "connected" /\ phase[Listener(c)] = "over"
  BY DEF OpenFails, EndSubscriber, LinkInv, faults
<1>2. c[2] \notin hubs
  BY <1>1 DEF LinkInv, Awaited
<1>3. \A x \in End : phase'[x] = IF x \in ends /\ phase[x] # "new" THEN "over" ELSE phase[x]
  BY <1>1, AbandonType DEF LinkInv, ConnInv
<1>4. ASSUME NEW d \in Conn
      PROVE  /\ Made(d)' <=> Made(d)
             /\ phase'[Dialer(d)] # "new" => phase[Dialer(d)] # "new" \/ d \in Found
             /\ phase'[Dialer(d)] \in Busy => phase[Dialer(d)] \in Busy
             /\ phase'[Listener(d)] \in Handshake => phase[Listener(d)] \in Handshake
             /\ phase'[Dialer(d)] = "connected" /\ d[2] \in hubs' =>
                  phase[Dialer(d)] = "connected" /\ phase'[Listener(d)] = phase[Listener(d)]
             /\ BothRun(d)' => Undisturbed(d)
  <2>1. /\ Dialer(d) \in End /\ Listener(d) \in End /\ Dialer(d) # Listener(d)
        /\ Dialer(d)[1] = d /\ Listener(d)[1] = d /\ Dialer(d)[2] = d[1]
    BY EndsOfConn, EndParts
  <2>2. phase'[Listener(d)] = phase[Listener(d)]
    BY <1>3, <2>1
  <2>3. phase[Dialer(d)] \in Phase
    BY <2>1 DEF LinkInv, ConnInv, TypeOK
  <2>4. CASE Dialer(d) \in ends /\ phase[Dialer(d)] # "new"
    <3>1. phase'[Dialer(d)] = "over" /\ d[1] = c[1]
      BY <1>3, <2>1, <2>4
    <3>2. phase[Dialer(d)] \in Handshake => d = c
      BY <1>1, <3>1 DEF OneDialed, Handshake
    <3>3. phase[Dialer(d)] \in Handled \/ phase[Dialer(d)] \in Handshake
      BY <2>3, <2>4 DEF Phase, Handled, Handshake
    <3>4. BothRun(d)' => phase[Dialer(d)] \in Handled
      BY <1>1, <1>2, <3>2, <3>3 DEF BothRun
    <3> QED  BY <2>2, <2>4, <3>1, <3>4 DEF Made, Undisturbed, Busy
  <2>5. CASE ~(Dialer(d) \in ends /\ phase[Dialer(d)] # "new")
    <3>1. phase'[Dialer(d)] = phase[Dialer(d)]
      BY <1>3, <2>1, <2>5
    <3> QED  BY <2>2, <3>1 DEF Made, Undisturbed
  <2> QED  BY <2>4, <2>5
<1> QED  BY <1>1, <1>4 DEF Quiet

-----------------------------------------------------------------------------
(***************************************************************************)
(* The two steps that are not quiet.                                       *)
(***************************************************************************)

\* A listener without a connection in hand accepts one.
LEMMA ConnectKeepsLinks ==
  ASSUME LinkInv, ConnInv', NEW c \in Conn, Connect(c)
  PROVE  LinkInv'
<1>1. /\ Dialer(c) \in End /\ Listener(c) \in End /\ Dialer(c) # Listener(c)
      /\ Dialer(c)[1] = c /\ Listener(c)[1] = c /\ Listener(c)[2] = c[2]
  BY EndsOfConn, EndParts
<1>2. /\ peers' = peers /\ hubs' = hubs /\ lost' = {}
      /\ \A x \in End : phase'[x] = IF x = Dialer(c) THEN "connected"
                                    ELSE IF x = Listener(c) THEN "accepted" ELSE phase[x]
  BY <1>1 DEF Connect, LinkInv, ConnInv, TypeOK, faults
<1>3. ASSUME NEW d \in Conn, d # c
      PROVE  /\ phase'[Dialer(d)] = phase[Dialer(d)]
             /\ phase'[Listener(d)] = phase[Listener(d)]
             /\ Made(d)' <=> Made(d)
  <2>1. /\ Dialer(d) \in End /\ Listener(d) \in End
        /\ Dialer(d)[1] = d /\ Listener(d)[1] = d
    BY EndsOfConn, EndParts
  <2> QED  BY <1>1, <1>2, <1>3, <2>1 DEF Made
<1>4. phase'[Dialer(c)] = "connected" /\ phase'[Listener(c)] = "accepted" /\ Made(c)'
  BY <1>1, <1>2 DEF Made
<1>5. WinnerKept'
  <2> SUFFICES ASSUME NEW d \in Conn, BothRun(d)', Wins(d)'
               PROVE  /\ phase'[Dialer(d)] \in Handled => peers'[d[1]][d[2]] = d
                      /\ phase'[Listener(d)] \in Handled => peers'[d[2]][d[1]] = d
    BY DEF WinnerKept
  <2>1. CASE d = c
    BY <1>4, <2>1 DEF Handled
  <2>2. CASE d # c
    <3>1. Rev(d) \in Conn
      BY ConnParts
    <3>2. Made(Rev(d)) => Made(Rev(d))'
      BY <1>3, <1>4, <3>1
    <3>3. Wins(d) /\ BothRun(d)
      BY <1>2, <1>3, <2>2, <3>2 DEF Wins, BothRun
    <3> QED  BY <1>2, <1>3, <2>2, <3>3 DEF LinkInv, WinnerKept
  <2> QED  BY <2>1, <2>2
<1>6. DialedMade'
  BY <1>3, <1>4 DEF LinkInv, DialedMade
<1>7. TableMade'
  <2>1. \A e \in End : e[1] \in Conn /\ (Kept(e)' <=> Kept(e))
    BY <1>2, ConnOfEnd DEF Kept
  <2> QED  BY <1>3, <1>4, <2>1 DEF LinkInv, TableMade
<1>8. OwnTable'
  BY <1>2 DEF LinkInv, OwnTable
<1>9. OneAtATime'
  <2>1. ASSUME NEW d \in Conn, d # c, d[2] = c[2]
        PROVE  phase[Listener(d)] \notin Handshake
    <3>1. Listener(d) \in End /\ Listener(d)[1] = d /\ Listener(d)[2] = d[2]
      BY EndsOfConn, EndParts
    <3> QED  BY <2>1, <3>1 DEF Connect, ListenerIdle
  <2> QED  BY <1>3, <2>1 DEF LinkInv, OneAtATime
<1>10. FoundOnly'
  BY <1>3 DEF LinkInv, FoundOnly, Connect
<1>11. Awaited'
  BY <1>2, <1>3, <1>4 DEF LinkInv, Awaited
<1> QED  BY <1>2, <1>5, <1>6, <1>7, <1>8, <1>9, <1>10, <1>11 DEF LinkInv

\* The hub refuses a stream only if it has one to the same node that this one
\* must not replace: then its connection does not win.
LEMMA RefusedLoses ==
  ASSUME LinkInv, NEW e \in End, phase[e] = "open", ~AtLimit(e[2]),
         ~(~AtLimit(e[2]) /\ (peers[e[2]][Peer(e)] = NoConn \/ Replaces(e)))
  PROVE  ~Wins(e[1])
<1>1. /\ e[1] \in Conn /\ e[2] \in Node /\ Peer(e) \in Node
      /\ e = Dialer(e[1]) \/ e = Listener(e[1])
  BY ConnOfEnd
<1>2. /\ Rev(e[1]) \in Conn /\ e[1] = <<e[1][1], e[1][2]>>
      /\ Rev(e[1])[1] = e[1][2] /\ Rev(e[1])[2] = e[1][1]
      /\ e[1][1] \in Node /\ e[1][2] \in Node /\ e[1][1] # e[1][2]
  BY <1>1, ConnParts
<1>3. ~Kept(e)
  BY DEF LinkInv, ConnInv, KeptHandled
<1>4. CASE e = Dialer(e[1])
  <2>1. e[2] = e[1][1] /\ Peer(e) = e[1][2]
    BY <1>1, <1>4, EndParts
  <2>2. peers[e[2]][Peer(e)] = Rev(e[1])
    BY <1>1, <1>2, <1>3, <2>1 DEF LinkInv, OwnTable, Kept, Rev
  <2>3. Made(Rev(e[1]))
    <3>1. Kept(Listener(Rev(e[1])))
      BY <1>2, <2>1, <2>2, KeptParts
    <3> QED  BY <1>2, <3>1, EndsOfConn, EndParts DEF LinkInv, TableMade
  <2>4. ~(Id[e[1][1]] < Id[e[1][2]])
    BY <1>4, <2>1 DEF Replaces
  <2> QED  BY <2>3, <2>4 DEF Wins
<1>5. CASE e = Listener(e[1])
  <2>1. e[2] = e[1][2] /\ Peer(e) = e[1][1] /\ e # Dialer(e[1])
    BY <1>1, <1>5, EndParts, EndsOfConn
  <2>2. peers[e[2]][Peer(e)] = Rev(e[1])
    BY <1>1, <1>2, <1>3, <2>1 DEF LinkInv, OwnTable, Kept, Rev
  <2>3. Made(Rev(e[1]))
    <3>1. Kept(Dialer(Rev(e[1])))
      BY <1>2, <2>1, <2>2, KeptParts
    <3> QED  BY <1>2, <3>1, EndsOfConn, EndParts DEF LinkInv, TableMade
  <2>4. Id[e[1][2]] < Id[e[1][1]]
    BY <2>1 DEF Replaces
  <2>5. Id[e[1][1]] \in Nat /\ Id[e[1][2]] \in Nat
    BY <1>2, ConnectionsAssumption
  <2> QED  BY <2>3, <2>4, <2>5 DEF Wins
<1> QED  BY <1>1, <1>4, <1>5

\* A stream the hub takes replaces none whose connection wins.
LEMMA ReplacedLoses ==
  ASSUME LinkInv, NEW e \in End, phase[e] = "open", e[2] \in hubs, Replaces(e)
  PROVE  ~Wins(Rev(e[1]))
<1>1. e[1] \in Conn /\ (e = Dialer(e[1]) \/ e = Listener(e[1]))
  BY ConnOfEnd
<1>2. /\ Rev(Rev(e[1])) = e[1] /\ Rev(e[1])[1] = e[1][2] /\ Rev(e[1])[2] = e[1][1]
      /\ e[1][1] \in Node /\ e[1][2] \in Node /\ e[1][1] # e[1][2]
  BY <1>1, ConnParts
<1>3. Made(e[1])
  BY <1>1 DEF LinkInv, DialedMade, Busy, Made
<1>4. /\ Id[e[1][1]] \in Nat /\ Id[e[1][2]] \in Nat /\ Id[e[1][1]] # Id[e[1][2]]
  BY <1>2, ConnectionsAssumption
<1>5. CASE e = Dialer(e[1])
  <2>1. e[2] = e[1][1] /\ Peer(e) = e[1][2]
    BY <1>1, <1>5, EndParts
  <2>2. Id[e[1][1]] < Id[e[1][2]]
    BY <1>5, <2>1 DEF Replaces
  <2> QED  BY <1>2, <1>3, <1>4, <2>2 DEF Wins
<1>6. CASE e = Listener(e[1])
  <2>1. e[2] = e[1][2] /\ Peer(e) = e[1][1] /\ e # Dialer(e[1])
    BY <1>1, <1>6, EndParts, EndsOfConn
  <2>2. Id[e[1][1]] < Id[e[1][2]]
    BY <1>4, <1>6, <2>1 DEF Replaces
  <2> QED  BY <1>2, <1>3, <1>4, <2>2 DEF Wins
<1> QED  BY <1>1, <1>5, <1>6

LEMMA NewPeerKeepsLinks ==
  ASSUME LinkInv, ConnInv', NEW e \in End, NewPeer(e), ~AtLimit(e[2])
  PROVE  LinkInv'
<1> DEFINE taken == peers[e[2]][Peer(e)] = NoConn \/ Replaces(e)
<1>1. /\ e[1] \in Conn /\ e[2] \in Node /\ Peer(e) \in Node
      /\ e = Dialer(e[1]) \/ e = Listener(e[1])
      /\ phase[e] = "open" /\ e[2] \in hubs
  BY ConnOfEnd DEF NewPeer
<1>2. Made(e[1])
  BY <1>1 DEF LinkInv, DialedMade, Busy, Made
<1>3. /\ hubs' = hubs /\ lost' = {}
      /\ \A x \in End : phase'[x] = IF x = e THEN IF taken THEN "reading" ELSE "over"
                                    ELSE phase[x]
      /\ \A n, m \in Node : peers'[n][m] = IF taken /\ n = e[2] /\ m = Peer(e) THEN e[1]
                                           ELSE peers[n][m]
  <2>1. CASE taken
    <3>1. /\ peers' = [peers EXCEPT ![e[2]][Peer(e)] = e[1]]
          /\ phase' = [phase EXCEPT ![e] = "reading"]
          /\ hubs' = hubs /\ lost' = lost
      BY <2>1 DEF NewPeer, faults
    <3> QED  BY <1>1, <2>1, <3>1 DEF LinkInv, ConnInv, TypeOK
  <2>2. CASE ~taken
    <3>1. Goto(e, "over")
      BY <2>2 DEF NewPeer
    <3> QED  BY <2>2, <3>1, GotoType DEF LinkInv, ConnInv, Phase
  <2> QED  BY <2>1, <2>2
<1>4. \A c \in Conn : /\ Dialer(c) \in End /\ Listener(c) \in End
                      /\ Dialer(c)[1] = c /\ Listener(c)[1] = c
                      /\ Dialer(c) # Listener(c)
  BY EndsOfConn, EndParts
<1>5. \A c \in Conn : Made(c)' <=> Made(c)
  BY <1>1, <1>3, <1>4 DEF Made
<1>6. WinnerKept'
  <2> SUFFICES ASSUME NEW d \in Conn, BothRun(d)', Wins(d)'
               PROVE  /\ phase'[Dialer(d)] \in Handled => peers'[d[1]][d[2]] = d
                      /\ phase'[Listener(d)] \in Handled => peers'[d[2]][d[1]] = d
    BY DEF WinnerKept
  <2>1. /\ d[1] \in Node /\ d[2] \in Node /\ d[1] # d[2] /\ d = <<d[1], d[2]>>
        /\ Rev(d) \in Conn
    BY ConnParts
  <2>2. Wins(d) /\ BothRun(d)
    BY <1>3, <1>5, <2>1 DEF Wins, BothRun
  <2>3. /\ phase[Dialer(d)] \in Handled => peers[d[1]][d[2]] = d
        /\ phase[Listener(d)] \in Handled => peers[d[2]][d[1]] = d
    BY <2>2 DEF LinkInv, WinnerKept
  <2>4. ASSUME d = e[1] PROVE taken
    BY <1>1, <2>2, <2>4, RefusedLoses
  <2>5. CASE e = Dialer(d)
    <3>1. e[1] = d /\ e[2] = d[1] /\ Peer(e) = d[2]
      BY <2>5, EndParts
    <3>2. phase'[Dialer(d)] = "reading" /\ phase'[Listener(d)] = phase[Listener(d)]
      BY <1>3, <1>4, <2>4, <2>5, <3>1
    <3>3. peers'[d[1]][d[2]] = d /\ peers'[d[2]][d[1]] = peers[d[2]][d[1]]
      BY <1>3, <2>1, <2>4, <3>1
    <3> QED  BY <2>3, <3>2, <3>3
  <2>6. CASE e = Listener(d)
    <3>1. e[1] = d /\ e[2] = d[2] /\ Peer(e) = d[1]
      BY <2>6, EndParts
    <3>2. phase'[Listener(d)] = "reading" /\ phase'[Dialer(d)] = phase[Dialer(d)]
      BY <1>3, <1>4, <2>4, <2>6, <3>1
    <3>3. peers'[d[2]][d[1]] = d /\ peers'[d[1]][d[2]] = peers[d[1]][d[2]]
      BY <1>3, <2>1, <2>4, <3>1
    <3> QED  BY <2>3, <3>2, <3>3
  <2>7. CASE e # Dialer(d) /\ e # Listener(d)
    <3>1. /\ phase'[Dialer(d)] = phase[Dialer(d)]
          /\ phase'[Listener(d)] = phase[Listener(d)]
          /\ d # e[1]
      BY <1>1, <1>3, <1>4, <2>7
    <3>2. CASE /\ peers'[d[1]][d[2]] = peers[d[1]][d[2]]
               /\ peers'[d[2]][d[1]] = peers[d[2]][d[1]]
      BY <2>3, <3>1, <3>2
    <3>3. CASE taken /\ ({e[2], Peer(e)} = {d[1], d[2]})
      <4>1. d = Rev(e[1])
        <5>1. {e[2], Peer(e)} = {e[1][1], e[1][2]}
          BY <1>1, EndParts
        <5>2. e[1] = <<e[1][1], e[1][2]>>
          BY <1>1, ConnParts
        <5>3. (d[1] = e[1][1] /\ d[2] = e[1][2]) \/ (d[1] = e[1][2] /\ d[2] = e[1][1])
          BY <2>1, <3>3, <5>1
        <5>4. d[1] = e[1][2] /\ d[2] = e[1][1]
          BY <2>1, <3>1, <5>2, <5>3
        <5> QED  BY <2>1, <5>4 DEF Rev
      <4>2. peers[e[2]][Peer(e)] = NoConn
        BY <1>1, <2>2, <3>3, <4>1, ReplacedLoses
      <4>3. d # NoConn
        BY NoConnAssumption
      <4>4. CASE e[2] = d[1] /\ Peer(e) = d[2]
        BY <1>3, <2>1, <2>3, <3>1, <4>2, <4>3, <4>4
      <4>5. CASE e[2] = d[2] /\ Peer(e) = d[1]
        BY <1>3, <2>1, <2>3, <3>1, <4>2, <4>3, <4>5
      <4> QED  BY <2>1, <3>3, <4>4, <4>5
    <3> QED  BY <1>3, <2>1, <3>2, <3>3
  <2> QED  BY <2>5, <2>6, <2>7
<1>7. DialedMade'
  <2>1. \A c \in Conn : phase'[Dialer(c)] \in Busy => phase[Dialer(c)] \in Busy
    BY <1>1, <1>3, <1>4 DEF Busy
  <2> QED  BY <1>5, <2>1 DEF LinkInv, DialedMade
<1>8. TableMade'
  <2> SUFFICES ASSUME NEW x \in End, Kept(x)' PROVE Made(x[1])'
    BY DEF TableMade
  <2>1. x[1] \in Conn /\ x[2] \in Node /\ Peer(x) \in Node
    BY ConnOfEnd
  <2>2. Kept(x) \/ x[1] = e[1]
    BY <1>3, <2>1 DEF Kept
  <2>3. Made(x[1])
    BY <1>2, <2>2 DEF LinkInv, TableMade
  <2> QED  BY <1>5, <2>1, <2>3
<1>9. OwnTable'
  <2>1. e[2] # Peer(e) /\ e[1] \in {<<e[2], Peer(e)>>, <<Peer(e), e[2]>>}
    BY <1>1, ConnParts, EndParts
  <2> QED  BY <1>3, <2>1 DEF LinkInv, OwnTable
<1>10. OneAtATime'
  <2>1. \A c \in Conn : phase'[Listener(c)] \in Handshake => phase[Listener(c)] \in Handshake
    BY <1>1, <1>3, <1>4 DEF Handshake
  <2> QED  BY <2>1 DEF LinkInv, OneAtATime
<1>11. FoundOnly'
  BY <1>1, <1>3, <1>4 DEF LinkInv, FoundOnly
<1>12. Awaited'
  <2> SUFFICES ASSUME NEW c \in Conn, phase'[Dialer(c)] = "connected", c[2] \in hubs'
               PROVE  phase'[Listener(c)] = "accepted"
    BY DEF Awaited
  <2>1. phase[Dialer(c)] = "connected" /\ phase[Listener(c)] = "accepted"
    BY <1>3, <1>4 DEF LinkInv, Awaited
  <2> QED  BY <1>1, <1>3, <1>4, <2>1
<1> QED  BY <1>3, <1>6, <1>7, <1>8, <1>9, <1>10, <1>11, <1>12 DEF LinkInv

-----------------------------------------------------------------------------
(***************************************************************************)
(* All steps, and what follows once a pair of nodes is settled.            *)
(***************************************************************************)
LEMMA InitInLinkInv == Init => LinkInv
<1> SUFFICES ASSUME Init PROVE LinkInv
  OBVIOUS
<1>1. ConnInv
  BY InitInConnInv
<1>2. /\ lost = {} /\ \A x \in End : phase[x] = "new"
      /\ \A n, m \in Node : peers[n][m] = NoConn
  BY DEF Init
<1>3. \A c \in Conn : phase[Dialer(c)] = "new" /\ phase[Listener(c)] = "new"
  BY <1>2, EndsOfConn
<1>4. \A e \in End : ~Kept(e)
  BY <1>2, ConnOfEnd, NoConnAssumption DEF Kept
<1> QED  BY <1>1, <1>2, <1>3, <1>4
         DEF LinkInv, WinnerKept, Wins, Made, DialedMade, Busy, TableMade, OwnTable,
             OneAtATime, Handshake, Awaited, FoundOnly

LEMMA InitOneDialed == Init => OneDialed
BY EndsOfConn DEF Init, OneDialed, Handshake

LEMMA NextKeepsLinks ==
  ASSUME RoomForAll,
         LinkInv, OneDialed, ConnInv', Next, lost' = {}
  PROVE  LinkInv'
<1>1. TypeOK /\ DialedFirst
  BY DEF LinkInv, ConnInv
<1>2. \A e \in End : ~AtLimit(e[2])
  BY ConnOfEnd, TableHasRoom
<1>3. SUFFICES ASSUME ~(\E c \in Conn : Connect(c)), ~(\E e \in End : NewPeer(e))
               PROVE  Quiet
  BY <1>2, ConnectKeepsLinks, NewPeerKeepsLinks, QuietKeepsInv
<1>4. ASSUME NEW c \in Conn, Discover(c) \/ DialStep(c) PROVE Quiet
  <2>1. /\ Dialer(c) \in End /\ Listener(c) \in End /\ Dialer(c) # Listener(c)
        /\ Dialer(c)[1] = c /\ Listener(c)[1] = c
    BY EndsOfConn, EndParts
  <2>2. CASE Discover(c) \/ ShouldConnect(c) \/ ConnectFails(c)
    <3>1. phase[Dialer(c)] \in {"new", "asked", "allowed"}
      BY <2>2 DEF Discover, ShouldConnect, ConnectFails
    <3>2. ~Made(c)
      BY <1>1, <3>1 DEF DialedFirst, Made
    <3>3. PICK p \in {"asked", "allowed", "over"} : Goto(Dialer(c), p)
      BY <2>2 DEF Discover, ShouldConnect, ConnectFails
    <3>4. phase[Dialer(c)] = "new" => c \in Found
      BY <2>2 DEF Discover, ShouldConnect, ConnectFails
    <3> QED  BY <2>1, <3>2, <3>3, <3>4, GotoQuiet DEF Phase, Busy, Goto, faults
  <2>3. CASE OpenStream(c)
    BY <2>1, <2>3, GotoQuiet DEF OpenStream, Phase, Busy, Handled, Goto, faults
  <2>4. CASE AcceptStream(c)
    BY <2>1, <2>4, GotoQuiet DEF AcceptStream, Phase, Busy, Handled, Handshake, Goto, faults
  <2>5. CASE OpenFails(c)
    BY <2>5, OpenFailsQuiet
  <2>6. CASE AcceptFails(c)
    BY <2>6, AcceptFailsQuiet
  <2> QED  BY <1>3, <1>4, <2>2, <2>3, <2>4, <2>5, <2>6 DEF DialStep
<1>5. ASSUME NEW c \in Conn PROVE ~Lose(c)
  BY DEF Lose
<1>6. ASSUME NEW e \in End, CallFails(e) PROVE Quiet
  <2>1. e[2] \notin hubs
    BY <1>6 DEF CallFails
  <2>2. CASE EndSubscriber(e[2])
    BY <2>1, <2>2, StoppedQuiet DEF EndSubscriber, faults
  <2>3. CASE EndListener(e[2])
    BY <2>1, <2>3, StoppedQuiet DEF EndListener, faults
  <2> QED  BY <1>6, <2>2, <2>3 DEF CallFails
<1>7. ASSUME NEW e \in End, ReaderEnds(e) \/ DecodeFails(e) PROVE Quiet
  <2>1. /\ phase[e] = "reading" /\ e[1] \in Conn
        /\ phase' = [phase EXCEPT ![e] = "over"]
        /\ peers' = peers /\ hubs' = hubs /\ lost' = lost
    BY <1>7, ConnOfEnd DEF ReaderEnds, DecodeFails, Goto, faults
  <2>2. e = Listener(e[1]) => phase[Dialer(e[1])] # "connected" \/ e[2] \notin hubs
    BY <2>1, EndParts DEF LinkInv, Awaited
  <2> QED  BY <2>1, <2>2, GotoQuiet DEF Phase, Busy, Handled, Handshake
<1>8. ASSUME NEW n \in Node, (\E m \in Node : SendFails(n, m)) \/ HandlerFails(n)
      PROVE  Quiet
  <2>1. /\ phase' = phase /\ lost' = {} /\ hubs' = hubs \ {n}
        /\ peers' = [peers EXCEPT ![n] = [m \in Node |-> NoConn]]
    BY <1>8 DEF SendFails, HandlerFails, LinkInv, faults
  <2>2. \A a, b \in Node : peers'[a][b] # peers[a][b] => peers'[a][b] = NoConn /\ a \notin hubs'
    BY <1>1, <2>1 DEF TypeOK
  <2> QED  BY <2>1, <2>2 DEF Quiet, Undisturbed, Made
<1> QED  BY <1>3, <1>4, <1>5, <1>6, <1>7, <1>8 DEF Next, EndStep

\* A subscriber finds the next node when it has no connection in hand.
LEMMA DialsOneByOne ==
  ASSUME TypeOK, OneDialed, [RunNext]_vars
  PROVE  OneDialed'
<1> DEFINE Ripens(c) == phase'[Dialer(c)] \in Handshake => phase[Dialer(c)] \in Handshake
<1>1. \A c \in Conn : Dialer(c) \in End /\ Listener(c) \in End /\ Dialer(c) # Listener(c)
                      /\ Dialer(c)[1] = c /\ Listener(c)[1] = c /\ Dialer(c)[2] = c[1]
  BY EndsOfConn, EndParts
<1>2. ASSUME NEW c \in Conn, Discover(c) PROVE OneDialed'
  <2>1. \A x \in End : phase'[x] = IF x = Dialer(c) THEN "asked" ELSE phase[x]
    BY <1>1, <1>2, GotoType DEF Discover, Phase
  <2>2. \A d \in Conn : d[1] = c[1] => phase[Dialer(d)] \notin Handshake
    BY <1>1, <1>2 DEF Discover, SubscriberIdle
  <2>3. \A d \in Conn : d # c => phase'[Dialer(d)] = phase[Dialer(d)]
    BY <1>1, <2>1
  <2> QED  BY <2>2, <2>3 DEF OneDialed
<1>3. SUFFICES ASSUME ~(\E c \in Conn : Discover(c)), NEW d \in Conn PROVE Ripens(d)
  BY <1>2 DEF OneDialed
<1>4. ASSUME NEW ends, Abandon(ends) PROVE Ripens(d)
  BY <1>1, <1>4, AbandonType DEF Handshake
<1>5. ASSUME NEW c \in Conn, DialStep(c) PROVE Ripens(d)
  <2>1. ASSUME NEW e \in End, NEW p \in Phase, Goto(e, p),
               p \in Handshake => phase[e] \in Handshake \/ e # Dialer(e[1])
        PROVE  Ripens(d)
    BY <1>1, <2>1, GotoType
  <2>2. CASE ShouldConnect(c) \/ ConnectFails(c) \/ OpenStream(c) \/ AcceptStream(c)
    BY <1>1, <2>1, <2>2
       DEF ShouldConnect, ConnectFails, OpenStream, AcceptStream, Phase, Handshake
  <2>3. CASE Connect(c)
    BY <1>1, <2>3 DEF Connect, TypeOK, Handshake
  <2>4. CASE OpenFails(c) \/ AcceptFails(c)
    BY <1>4, <2>4 DEF OpenFails, AcceptFails, EndSubscriber, EndListener
  <2> QED  BY <1>5, <2>2, <2>3, <2>4 DEF DialStep
<1>6. ASSUME NEW e \in End, NewPeer(e) \/ ReaderEnds(e) \/ DecodeFails(e) PROVE Ripens(d)
  <2>1. /\ phase[e] \in {"open", "reading"}
        /\ \E p \in {"reading", "over"} : phase' = [phase EXCEPT ![e] = p]
    BY <1>6 DEF NewPeer, ReaderEnds, DecodeFails, Goto
  <2> QED  BY <1>1, <2>1 DEF TypeOK, Handshake
<1>7. ASSUME NEW e \in End, CallFails(e) PROVE Ripens(d)
  BY <1>4, <1>7 DEF CallFails, EndSubscriber, EndListener
<1>8. ASSUME NEW n \in Node, Drop(n) PROVE Ripens(d)
  BY <1>4, <1>8 DEF Drop
<1>9. phase' = phase => Ripens(d)
  OBVIOUS
<1> HIDE DEF Ripens
<1> QED  BY <1>3, <1>5, <1>6, <1>7, <1>8, <1>9
         DEF RunNext, Next, EndStep, Poll, vars, connections, Lose, SendFails, HandlerFails

\* What is lost or has failed stays so, a connection that was made stays made, and who
\* was dropped stays dropped.
LEMMA NothingFound ==
  ASSUME TypeOK, [RunNext]_vars
  PROVE  /\ lost \subseteq lost' /\ failed \subseteq failed' /\ undecoded \subseteq undecoded'
         /\ \A c \in Conn : Made(c) => Made(c)'
         /\ \A n \in Node : handle[n] = "dropped" => handle'[n] = "dropped"
<1> DEFINE Stays == /\ lost \subseteq lost' /\ failed \subseteq failed'
                    /\ undecoded \subseteq undecoded'
                    /\ \A e \in End : phase[e] # "new" => phase'[e] # "new"
<1>1. ASSUME NEW c \in Conn, Discover(c) \/ DialStep(c) PROVE Stays
  <2>1. Dialer(c) \in End /\ Listener(c) \in End /\ Dialer(c) # Listener(c)
    BY EndsOfConn
  <2>2. CASE Discover(c) \/ ShouldConnect(c) \/ ConnectFails(c) \/ OpenStream(c) \/ AcceptStream(c)
    BY <2>1, <2>2, GotoType
       DEF Discover, ShouldConnect, ConnectFails, OpenStream, AcceptStream, Phase
  <2>3. CASE Connect(c)
    BY <2>1, <2>3 DEF Connect, TypeOK, faults
  <2>4. CASE OpenFails(c) \/ AcceptFails(c)
    BY <2>4, AbandonType DEF OpenFails, AcceptFails, EndSubscriber, EndListener, faults
  <2> QED  BY <1>1, <2>2, <2>3, <2>4 DEF DialStep
<1>2. ASSUME NEW e \in End, NewPeer(e) PROVE Stays
  <2>1. CASE Goto(e, "over")
    BY <2>1, GotoType DEF Phase
  <2>2. CASE phase' = [phase EXCEPT ![e] = "reading"] /\ UNCHANGED faults
    BY <2>2 DEF TypeOK, faults
  <2> QED  BY <1>2, <2>1, <2>2 DEF NewPeer
<1>3. ASSUME NEW e \in End, CallFails(e) \/ ReaderEnds(e) PROVE Stays
  BY <1>3, AbandonType, GotoType DEF CallFails, ReaderEnds, EndSubscriber, EndListener, faults, Phase
<1>4. ASSUME NEW c \in Conn, Lose(c) PROVE Stays
  BY <1>4 DEF Lose
<1>5. ASSUME NEW n \in Node, (\E m \in Node : SendFails(n, m)) \/ HandlerFails(n) PROVE Stays
  BY <1>5 DEF SendFails, HandlerFails, faults
<1>6. ASSUME NEW n \in Node, Drop(n) PROVE Stays
  BY <1>6, AbandonType DEF Drop, faults
<1>7. UNCHANGED connections => Stays
  BY DEF connections
<1>8. ASSUME NEW e \in End, DecodeFails(e) PROVE Stays
  BY <1>8 DEF DecodeFails, TypeOK
<1> HIDE DEF Stays
<1>9. Stays
  BY <1>1, <1>2, <1>3, <1>4, <1>5, <1>6, <1>7, <1>8 DEF RunNext, Next, EndStep, Poll, vars
<1>10. \A n \in Node : handle[n] = "dropped" => handle'[n] = "dropped"
  <2>1. ASSUME NEW n \in Node, Poll(n) \/ Drop(n)
        PROVE  \A m \in Node : handle[m] = "dropped" => handle'[m] = "dropped"
    BY <2>1 DEF Poll, Drop, TypeOK
  <2>2. Next => handle' = handle
    BY DEF Next, Discover, DialStep, ShouldConnect, Connect, ConnectFails, OpenStream, OpenFails,
           AcceptStream, AcceptFails, EndStep, NewPeer, CallFails, ReaderEnds, DecodeFails, SendFails,
           HandlerFails, Lose, Goto, EndSubscriber, EndListener, supervision
  <2> QED  BY <2>1, <2>2 DEF RunNext, vars, supervision
<1> QED  BY <1>9, <1>10, EndsOfConn DEF Made, Stays

\* As long as nothing is lost.
Links == ConnInv /\ OneDialed /\ (lost = {} => LinkInv)

LEMMA StepKeepsLinks ==
  ASSUME RoomForAll
  PROVE  Links /\ [RunNext]_vars => Links'
<1> SUFFICES ASSUME Links, [RunNext]_vars, lost' = {} PROVE LinkInv'
  BY StepKeepsInv, DialsOneByOne DEF Links, ConnInv
<1>1. ConnInv' /\ TypeOK
  BY StepKeepsInv DEF Links, ConnInv
<1>2. LinkInv /\ OneDialed
  BY <1>1, NothingFound DEF Links
<1>3. CASE UNCHANGED connections
  <2>1. Quiet
    BY <1>2, <1>3 DEF connections, Quiet, Undisturbed, Made, LinkInv
  <2> QED  BY <1>1, <1>2, <2>1, QuietKeepsInv
<1>4. CASE Next
  BY <1>1, <1>2, <1>4, NextKeepsLinks
<1>5. ASSUME NEW n \in Node, Drop(n) PROVE LinkInv'
  <2>1. /\ hubs' \subseteq hubs /\ n \notin hubs' /\ lost' = lost
        /\ Abandon({e \in End : e[2] = n})
        /\ \A a, b \in Node : peers'[a][b] # peers[a][b] => peers'[a][b] = NoConn /\ a \notin hubs'
    BY <1>1, <1>5 DEF Drop, TypeOK, faults
  <2>2. Quiet
    BY <1>2, <2>1, StoppedQuiet
  <2> QED  BY <1>1, <1>2, <2>2, QuietKeepsInv
<1> QED  BY <1>3, <1>4, <1>5 DEF RunNext, Poll, vars

\* Two settled nodes whose hubs run both keep the connection that wins.
LEMMA SettledKeepWinner ==
  ASSUME LinkInv, NEW c \in Conn, BothRun(c), Settled(c[1], c[2]), Wins(c)
  PROVE  peers[c[1]][c[2]] = c /\ peers[c[2]][c[1]] = c
<1>1. Dialer(c) \in End /\ Listener(c) \in End /\ c = <<c[1], c[2]>>
  BY EndsOfConn, ConnParts
<1>2. phase[Dialer(c)] \notin Handshake /\ phase[Listener(c)] \notin Handshake
  BY <1>1 DEF Settled
<1>3. phase[Dialer(c)] \in Phase /\ phase[Listener(c)] \in Phase
  BY <1>1 DEF LinkInv, ConnInv, TypeOK
<1>4. phase[Listener(c)] # "new" /\ phase[Dialer(c)] # "new"
  BY DEF Wins, Made, LinkInv, ConnInv, DialedFirst
<1>5. phase[Dialer(c)] \in Handled /\ phase[Listener(c)] \in Handled
  BY <1>2, <1>3, <1>4 DEF Phase, Handshake, Handled
<1> QED  BY <1>5 DEF LinkInv, WinnerKept

\* When two nodes dialed each other and both connections were accepted, both hubs
\* keep the one the smaller id dialed, whatever the order in which the four tasks
\* and the two hubs took their steps (peerhub.rs:625-654), for any number of nodes.
THEOREM SmallerIdIsKept ==
  ASSUME RoomForAll
  PROVE  RunSpec => [](lost = {} => SmallerIdKept)
<1>1. LinkInv => SmallerIdKept
  <2> SUFFICES ASSUME LinkInv, NEW a \in hubs, NEW b \in hubs, Id[a] < Id[b], Settled(a, b),
                      phase[Listener(<<a, b>>)] # "new"
               PROVE  peers[a][b] = <<a, b>> /\ peers[b][a] = <<a, b>>
    BY DEF SmallerIdKept
  <2> DEFINE c == <<a, b>>
  <2>1. a \in Node /\ b \in Node
    BY DEF LinkInv, ConnInv, TypeOK
  <2>2. c \in Conn /\ c[1] = a /\ c[2] = b
    <3>1. Id[a] \in Nat
      BY <2>1, ConnectionsAssumption
    <3>2. a # b
      BY <3>1
    <3> QED  BY <2>1, <3>2 DEF Conn
  <2>3. Wins(c) /\ BothRun(c) /\ Settled(c[1], c[2])
    BY <2>2 DEF Wins, Made, BothRun
  <2> HIDE DEF c
  <2>4. peers[c[1]][c[2]] = c /\ peers[c[2]][c[1]] = c
    BY <2>2, <2>3, SettledKeepWinner
  <2> QED  BY <2>2, <2>4 DEF c
<1>2. Links /\ [RunNext]_vars => Links'
  BY StepKeepsLinks
<1>3. (Init => Links) /\ (Links => (lost = {} => SmallerIdKept))
  BY <1>1, InitInLinkInv, InitOneDialed DEF Links, LinkInv
<1> QED  BY <1>2, <1>3, PTL DEF RunSpec

\* What one settled node writes the other reads: both tables name the same
\* connection, or neither names any (peerhub.rs:625-654, peer.rs).
THEOREM SameConnectionKept ==
  ASSUME RoomForAll
  PROVE  RunSpec => [](lost = {} => SameConnection)
<1>1. LinkInv => SameConnection
  <2> SUFFICES ASSUME LinkInv, NEW a \in hubs, NEW b \in hubs, a # b, Settled(a, b)
               PROVE  peers[a][b] = peers[b][a]
    BY DEF SameConnection
  <2>1. a \in Node /\ b \in Node
    BY DEF LinkInv, ConnInv, TypeOK
  <2>2. <<a, b>> \in Conn /\ <<b, a>> \in Conn
    BY <2>1 DEF Conn
  <2>3. Id[a] \in Nat /\ Id[b] \in Nat /\ Id[a] # Id[b]
    BY <2>1, ConnectionsAssumption
  <2>4. Settled(b, a)
    BY DEF Settled
  <2>5. ASSUME NEW c \in {<<a, b>>, <<b, a>>}, Wins(c)
        PROVE  peers[a][b] = c /\ peers[b][a] = c
    <3>1. c \in Conn /\ BothRun(c) /\ Settled(c[1], c[2])
      BY <2>2, <2>4 DEF BothRun
    <3>2. peers[c[1]][c[2]] = c /\ peers[c[2]][c[1]] = c
      BY <2>5, <3>1, SettledKeepWinner
    <3> QED  BY <3>2
  <2>6. CASE Made(<<a, b>>) \/ Made(<<b, a>>)
    <3>1. Wins(<<a, b>>) \/ Wins(<<b, a>>)
      BY <2>3, <2>6 DEF Wins, Rev
    <3> QED  BY <2>5, <3>1
  <2>7. CASE ~Made(<<a, b>>) /\ ~Made(<<b, a>>)
    <3>1. \A c \in {<<a, b>>, <<b, a>>} : ~Kept(Dialer(c)) /\ ~Kept(Listener(c))
      BY <2>2, <2>7, EndsOfConn, EndParts DEF LinkInv, TableMade
    <3>2. /\ peers[a][b] \notin {<<a, b>>, <<b, a>>}
          /\ peers[b][a] \notin {<<a, b>>, <<b, a>>}
      BY <2>2, <3>1, KeptParts
    <3> QED  BY <2>1, <3>2 DEF LinkInv, OwnTable
  <2> QED  BY <2>6, <2>7
<1>2. Links /\ [RunNext]_vars => Links'
  BY StepKeepsLinks
<1>3. (Init => Links) /\ (Links => (lost = {} => SameConnection))
  BY <1>1, InitInLinkInv, InitOneDialed DEF Links, LinkInv
<1> QED  BY <1>2, <1>3, PTL DEF RunSpec

-----------------------------------------------------------------------------
(***************************************************************************)
(* How ends begin: without duplicates, drops, losses and failures every    *)
(* connection that is made lasts, and every hub and task goes on.          *)
(***************************************************************************)
Calm ==
  /\ lost = {} /\ failed = {} /\ undecoded = {}
  /\ \A n \in Node : handle[n] # "dropped"
  /\ \A c \in Conn : ~(Made(c) /\ Made(Rev(c)))

Lasting ==
  /\ hubs = Node /\ subscribing = Node /\ listening = Node
  /\ \A c \in Conn : /\ phase[Listener(c)] \in {"new", "accepted", "open", "reading"}
                     /\ Made(c) => phase[Dialer(c)] # "over"

\* Both ends of a connection that lasts are alive, and those that are read are
\* in the tables of their nodes.
LEMMA LastingAlive ==
  ASSUME LinkInv, Calm, Lasting, NEW e \in End, Made(e[1])
  PROVE  Receiving(e) /\ Sending(e)
<1>1. /\ e[1] \in Conn /\ (e = Dialer(e[1]) \/ e = Listener(e[1]))
      /\ Dialer(e[1]) \in End /\ Listener(e[1]) \in End
      /\ e[1][1] \in Node /\ e[1][2] \in Node
  BY ConnOfEnd, EndsOfConn, ConnParts
<1>2. phase[e] \in {"connected", "accepted", "open", "reading"}
  <2>1. CASE e = Listener(e[1])
    BY <1>1, <2>1 DEF Lasting, Made
  <2>2. CASE e = Dialer(e[1])
    <3>1. phase[e] \in Phase /\ phase[e] # "over"
      BY <1>1, <2>2 DEF LinkInv, ConnInv, TypeOK, Lasting
    <3>2. phase[e] \notin {"new", "asked", "allowed"}
      BY <1>1, <2>2 DEF Made, LinkInv, ConnInv, DialedFirst
    <3> QED  BY <3>1, <3>2 DEF Phase
  <2> QED  BY <1>1, <2>1, <2>2
<1>3. Wins(e[1]) /\ BothRun(e[1])
  BY <1>1 DEF Wins, BothRun, Calm, Lasting
<1>4. phase[e] = "reading" => Kept(e)
  BY <1>1, <1>3, KeptParts DEF LinkInv, WinnerKept, Handled
<1> QED  BY <1>2, <1>4 DEF Receiving, Sending, Kept

\* One task moves on with an end, and does not drop what is made.
LEMMA GotoLasts ==
  ASSUME TypeOK, Lasting, NEW e \in End, NEW p \in Phase, Goto(e, p),
         p = "over" => e = Dialer(e[1]) /\ ~Made(e[1]),
         e = Listener(e[1]) => Made(e[1]) /\ p \in {"open", "reading"}
  PROVE  Lasting'
<1>1. /\ hubs' = hubs /\ subscribing' = subscribing /\ listening' = listening
      /\ \A x \in End : phase'[x] = IF x = e THEN p ELSE phase[x]
  BY GotoType
<1>2. ASSUME NEW c \in Conn
      PROVE  /\ phase'[Listener(c)] \in {"new", "accepted", "open", "reading"}
             /\ Made(c)' => phase'[Dialer(c)] # "over"
  <2>1. /\ Dialer(c) \in End /\ Listener(c) \in End /\ Dialer(c) # Listener(c)
        /\ Dialer(c)[1] = c /\ Listener(c)[1] = c
    BY EndsOfConn, EndParts
  <2>2. CASE e = Listener(c)
    <3>1. phase'[Listener(c)] = p /\ phase'[Dialer(c)] = phase[Dialer(c)]
      BY <1>1, <2>1, <2>2
    <3>2. Made(c) /\ p \in {"open", "reading"}
      BY <2>1, <2>2
    <3> QED  BY <2>1, <2>2, <3>1, <3>2 DEF Lasting, Made
  <2>3. CASE e = Dialer(c)
    <3>1. phase'[Dialer(c)] = p /\ phase'[Listener(c)] = phase[Listener(c)]
      BY <1>1, <2>1, <2>3
    <3> QED  BY <2>1, <2>3, <3>1 DEF Lasting, Made
  <2>4. CASE e # Listener(c) /\ e # Dialer(c)
    BY <1>1, <2>1, <2>4 DEF Lasting, Made
  <2> QED  BY <2>2, <2>3, <2>4
<1> QED  BY <1>1, <1>2 DEF Lasting

LEMMA NextLasts ==
  ASSUME RoomForAll,
         LinkInv, Calm, Lasting, Next,
         lost' = {}, failed' = {}, undecoded' = {}
  PROVE  Lasting'
<1>1. TypeOK /\ DialedFirst /\ lost = {} /\ hubs = Node
  BY DEF LinkInv, ConnInv, Lasting
<1>2. ASSUME NEW c \in Conn, Discover(c) \/ DialStep(c) PROVE Lasting'
  <2>1. /\ Dialer(c) \in End /\ Listener(c) \in End /\ Dialer(c) # Listener(c)
        /\ Dialer(c)[1] = c /\ Listener(c)[1] = c
    BY EndsOfConn, EndParts
  <2>2. CASE Discover(c) \/ ShouldConnect(c) \/ ConnectFails(c)
    <3>1. ~Made(c)
      BY <1>1, <2>2 DEF Discover, ShouldConnect, ConnectFails, DialedFirst, Made
    <3>2. PICK p \in {"asked", "allowed", "over"} : Goto(Dialer(c), p)
      BY <2>2 DEF Discover, ShouldConnect, ConnectFails
    <3> QED  BY <1>1, <2>1, <3>1, <3>2, GotoLasts DEF Phase
  <2>3. CASE Connect(c)
    <3>1. /\ hubs' = hubs /\ subscribing' = subscribing /\ listening' = listening
          /\ \A x \in End : phase'[x] = IF x = Dialer(c) THEN "connected"
                                        ELSE IF x = Listener(c) THEN "accepted" ELSE phase[x]
      BY <1>1, <2>1, <2>3 DEF Connect, tasks, TypeOK
    <3>2. ASSUME NEW d \in Conn
          PROVE  /\ phase'[Listener(d)] \in {"new", "accepted", "open", "reading"}
                 /\ Made(d)' => phase'[Dialer(d)] # "over"
      <4>1. /\ Dialer(d) \in End /\ Listener(d) \in End
            /\ Dialer(d)[1] = d /\ Listener(d)[1] = d
        BY EndsOfConn, EndParts
      <4>2. CASE d = c
        BY <2>1, <3>1, <4>2
      <4>3. CASE d # c
        <5>1. phase'[Listener(d)] = phase[Listener(d)] /\ phase'[Dialer(d)] = phase[Dialer(d)]
          BY <2>1, <3>1, <4>1, <4>3
        <5> QED  BY <5>1 DEF Lasting, Made
      <4> QED  BY <4>2, <4>3
    <3> QED  BY <3>1, <3>2 DEF Lasting
  <2>4. CASE OpenStream(c)
    BY <1>1, <2>1, <2>4, GotoLasts DEF OpenStream, Phase
  <2>5. CASE AcceptStream(c)
    BY <1>1, <2>1, <2>5, GotoLasts DEF AcceptStream, Phase, Made
  <2>6. ~OpenFails(c) /\ ~AcceptFails(c)
    BY <1>1 DEF OpenFails, AcceptFails, Lasting, Made
  <2> QED  BY <1>2, <2>2, <2>3, <2>4, <2>5, <2>6 DEF DialStep
<1>3. ASSUME NEW c \in Conn PROVE ~Lose(c)
  BY DEF Lose
<1>4. ASSUME NEW e \in End, NewPeer(e) PROVE Lasting'
  <2>1. /\ e[1] \in Conn /\ (e = Dialer(e[1]) \/ e = Listener(e[1]))
        /\ e[2] \in Node /\ Peer(e) \in Node
        /\ phase[e] = "open"
    BY <1>4, ConnOfEnd DEF NewPeer
  <2>2. Made(e[1])
    BY <2>1 DEF LinkInv, DialedMade, Busy, Made
  <2>3. ~AtLimit(e[2])
    BY <2>1, TableHasRoom
  <2>4. Wins(e[1])
    BY <2>1, <2>2 DEF Wins, Calm
  <2>5. /\ phase' = [phase EXCEPT ![e] = "reading"]
        /\ hubs' = hubs /\ subscribing' = subscribing /\ listening' = listening
    BY <1>4, <2>1, <2>3, <2>4, RefusedLoses DEF NewPeer, tasks
  <2>6. \A x \in End : phase'[x] = IF x = e THEN "reading" ELSE phase[x]
    BY <1>1, <2>5 DEF TypeOK
  <2>7. ASSUME NEW c \in Conn
        PROVE  /\ phase'[Listener(c)] \in {"new", "accepted", "open", "reading"}
               /\ Made(c)' => phase'[Dialer(c)] # "over"
    <3>1. Dialer(c) \in End /\ Listener(c) \in End
      BY EndsOfConn
    <3>2. Made(c)' => Made(c)
      BY <2>1, <2>6, <3>1 DEF Made
    <3> QED  BY <2>6, <3>1, <3>2 DEF Lasting
  <2> QED  BY <2>5, <2>7 DEF Lasting
<1>5. ASSUME NEW e \in End PROVE ~CallFails(e)
  BY <1>1, ConnOfEnd DEF CallFails
<1>6. ASSUME NEW e \in End PROVE ~ReaderEnds(e)
  <2> SUFFICES ASSUME phase[e] = "reading", ~Sending(Far(e)) PROVE FALSE
    BY <1>1, ConnOfEnd DEF ReaderEnds
  <2>1. /\ e[1] \in Conn /\ (e = Dialer(e[1]) \/ e = Listener(e[1]))
        /\ Far(e) \in End /\ Far(e)[1] = e[1]
    BY ConnOfEnd
  <2>2. Made(e[1])
    BY <2>1 DEF LinkInv, DialedMade, Busy, Made
  <2> QED  BY <2>1, <2>2, LastingAlive
<1>7. (\A e \in End : ~DecodeFails(e)) /\ (\A n \in Node : ~HandlerFails(n))
  BY DEF DecodeFails, HandlerFails
<1>8. ASSUME NEW n \in Node, NEW m \in Node PROVE ~SendFails(n, m)
  <2> SUFFICES ASSUME m \in PeersOf(n), ~Receiving(<<peers[n][m], m>>) PROVE FALSE
    BY <1>1 DEF SendFails
  <2> DEFINE c == peers[n][m]
  <2>1. n # m /\ c \in {<<n, m>>, <<m, n>>}
    BY DEF PeersOf, LinkInv, OwnTable
  <2>2. c \in Conn /\ <<c, n>> \in End /\ <<c, m>> \in End
    BY <2>1 DEF Conn, End
  <2>3. Kept(<<c, n>>)
    <3>1. Peer(<<c, n>>) = m
      BY <2>1 DEF Peer, Dialer
    <3> QED  BY <3>1 DEF Kept
  <2>4. Made(c)
    BY <2>2, <2>3 DEF LinkInv, TableMade
  <2> QED  BY <2>2, <2>4, LastingAlive
<1> QED  BY <1>2, <1>3, <1>4, <1>5, <1>6, <1>7, <1>8 DEF Next, EndStep

\* As long as nothing is lost, no handle is dropped, and every message decodes
\* (peer.rs:92) and is handled without a failure (peerhub.rs:800), a hub or a task
\* comes to its end only after two nodes have dialed each other: a refused duplicate
\* is the only way the handshakes themselves end a connection (peerhub.rs:625-654,
\* new_peer_watcher.rs), for any number of nodes.
THEOREM EndsOnlyByDuplicates ==
  ASSUME RoomForAll
  PROVE  RunSpec => []EndsStartWithDuplicate
<1> DEFINE Inv == Links /\ (Calm => Lasting)
<1>1. Init => Inv
  <2> SUFFICES ASSUME Init PROVE Links /\ Lasting
    OBVIOUS
  <2>1. Links
    BY InitInLinkInv, InitOneDialed DEF Links, LinkInv
  <2>2. \A c \in Conn : phase[Dialer(c)] = "new" /\ phase[Listener(c)] = "new"
    BY EndsOfConn DEF Init
  <2> QED  BY <2>1, <2>2 DEF Lasting, Init
<1>2. Inv /\ [RunNext]_vars => Inv'
  <2> SUFFICES ASSUME Links, Calm => Lasting, [RunNext]_vars, Calm' PROVE Lasting'
    BY StepKeepsLinks
  <2>1. TypeOK
    BY DEF Links, ConnInv
  <2>2. Calm
    BY <2>1, NothingFound, ConnParts DEF Calm
  <2>3. LinkInv /\ Lasting /\ lost' = {} /\ failed' = {} /\ undecoded' = {}
    BY <2>2 DEF Calm, Links
  <2>4. CASE Next
    BY <2>2, <2>3, <2>4, NextLasts
  <2>5. CASE UNCHANGED connections
    BY <2>3, <2>5 DEF connections, Lasting, Made
  <2>6. ASSUME NEW n \in Node PROVE ~Drop(n)
    BY <2>1 DEF Drop, Calm, TypeOK
  <2> QED  BY <2>4, <2>5, <2>6 DEF RunNext, Poll, vars
<1>3. Inv => EndsStartWithDuplicate
  <2>1. (Calm => Lasting) /\ Calm => EndsStartWithDuplicate
    BY DEF Lasting, EndsStartWithDuplicate
  <2>2. ~Calm => EndsStartWithDuplicate
    BY DEF Calm, Made, Rev, EndsStartWithDuplicate
  <2> QED  BY <2>1, <2>2
<1> QED  BY <1>1, <1>2, <1>3, PTL DEF RunSpec
=============================================================================
