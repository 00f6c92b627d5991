----------------------------- MODULE Connections -----------------------------
(***************************************************************************)
(* How nodes connect: NewPeerStreamSubscriber dials the nodes discovery    *)
(* finds, IncomingConnectionListener accepts (new_peer_watcher.rs), both   *)
(* ask the hub (ShouldConnect, NewPeer), which keeps one send stream per   *)
(* node, and a Peer task reads each stream the hub wants (peer.rs).        *)
(*                                                                         *)
(* A node dials another at most once (known_ids), so a connection is named *)
(* <<dialer, listener>>, and an end of it <<connection, node>>.  The phase *)
(* of an end says where the task that owns it stands:                      *)
(*                                                                         *)
(*   dialer:    new -> asked -> allowed -> connected -> open -> reading    *)
(*   listener:  new -> accepted -> open -> reading                         *)
(*                                                                         *)
(* and `over` when the task has dropped it.  In `open` the node id is      *)
(* written (read) and the NewPeer call is in the hub's mailbox.            *)
(*                                                                         *)
(* Of iroh's streams this module assumes what the code relies on: a reader *)
(* whose far end dropped its send stream gets an error, a write to a       *)
(* stream whose far end dropped its receive stream may fail, and dropping  *)
(* everything of a connection closes it, what was not delivered yet being  *)
(* lost with it.                                                           *)
(***************************************************************************)
EXTENDS Integers, FiniteSets

CONSTANTS
  Node,
  Id,               \* the order of node ids
  NoConn,           \* no stream in the table
  Found,            \* whom discovery finds: <<n, m>> when n is told of m
  PeerSizeLimit,    \* PEER_SIZE_LIMIT
  HubsSend,         \* whether the hubs exchange messages
  MaxFaults         \* bound on lost connections and failures, for TLC

ASSUME ConnectionsAssumption ==
  /\ Id \in [Node -> Nat]
  /\ \A a, b \in Node : Id[a] = Id[b] => a = b
  /\ PeerSizeLimit \in Nat
  /\ HubsSend \in BOOLEAN
  /\ MaxFaults \in Nat

Conn == {c \in Node \X Node : c[1] # c[2]}
End == {e \in Conn \X Node : e[2] \in {e[1][1], e[1][2]}}
ASSUME NoConnAssumption == NoConn \notin Conn
ASSUME FoundAssumption == Found \subseteq Conn

Dialer(c) == <<c, c[1]>>
Listener(c) == <<c, c[2]>>
Peer(e) == IF e = Dialer(e[1]) THEN e[1][2] ELSE e[1][1]
Far(e) == <<e[1], Peer(e)>>

VARIABLES
  phase,            \* of each end
  peers,            \* the tables of the hubs: the connection kept per node
  hubs,             \* the nodes whose hub is running
  subscribing,      \* the nodes whose subscriber task is running
  listening,        \* the nodes whose listener task is running
  lost,             \* connections the network has lost
  failed,           \* history: the nodes whose hub a failing handler has ended
  undecoded,        \* history: the ends that read a message they cannot decode
  handle,           \* the HubHandle of each node (moved by Supervision only)
  joined            \* the JoinHandles a poll of it has found ready

connections ==
  <<phase, peers, hubs, subscribing, listening, lost, failed, undecoded>>
supervision == <<handle, joined>>
vars == <<connections, supervision>>
tasks == <<subscribing, listening>>
faults == <<lost, failed, undecoded>>

Phase == {"new", "asked", "allowed", "connected", "accepted", "open",
          "reading", "over"}

\* Phases in which a task is busy with an end, and takes no other.
Handshake == {"asked", "allowed", "connected", "accepted", "open"}

Init ==
  /\ phase = [e \in End |-> "new"]
  /\ peers = [n \in Node |-> [m \in Node |-> NoConn]]
  /\ hubs = Node
  /\ subscribing = Node
  /\ listening = Node
  /\ lost = {}
  /\ failed = {}
  /\ undecoded = {}
  /\ handle = [n \in Node |-> "held"]
  /\ joined = [n \in Node |-> {}]

-----------------------------------------------------------------------------
PeersOf(n) == {m \in Node : peers[n][m] # NoConn}
AtLimit(n) == Cardinality(PeersOf(n)) >= PeerSizeLimit

\* Variant of Sending: the table does not keep its streams open.
Sending_Handshake(e) == phase[e] \in {"connected", "accepted", "open"}

\* The send stream of an end is alive: a task holds it, or the table does.
Sending(e) ==
  \/ phase[e] \in {"connected", "accepted", "open"}
  \/ peers[e[2]][Peer(e)] = e[1]

\* The receive stream of an end is alive: a task holds it.
Receiving(e) == phase[e] \in {"connected", "accepted", "open", "reading"}

SubscriberIdle(n) ==
  /\ n \in subscribing
  /\ \A e \in End : e = Dialer(e[1]) /\ e[2] = n => phase[e] \notin Handshake

ListenerIdle(n) ==
  /\ n \in listening
  /\ \A e \in End : e = Listener(e[1]) /\ e[2] = n => phase[e] \notin Handshake

\* A task that returns an error takes its JoinSet with it: the Peer tasks it
\* has spawned are aborted.
Abandon(ends) ==
  phase' = [e \in End |-> IF e \in ends /\ phase[e] # "new" THEN "over" ELSE phase[e]]

EndSubscriber(n) ==
  /\ subscribing' = subscribing \ {n}
  /\ Abandon({e \in End : e = Dialer(e[1]) /\ e[2] = n})
  /\ UNCHANGED <<peers, hubs, listening, faults, supervision>>

EndListener(n) ==
  /\ listening' = listening \ {n}
  /\ Abandon({e \in End : e = Listener(e[1]) /\ e[2] = n})
  /\ UNCHANGED <<peers, hubs, subscribing, faults, supervision>>

Goto(e, p) ==
  /\ phase' = [phase EXCEPT ![e] = p]
  /\ UNCHANGED <<peers, hubs, tasks, faults, supervision>>

-----------------------------------------------------------------------------
(***************************************************************************)
(* The subscriber's loop, one connection at a time.                        *)
(***************************************************************************)
Discover(c) ==
  /\ c \in Found
  /\ SubscriberIdle(c[1])
  /\ phase[Dialer(c)] = "new"
  /\ Goto(Dialer(c), "asked")

\* Handler of the hub.
ShouldConnect(c) ==
  /\ phase[Dialer(c)] = "asked"
  /\ c[1] \in hubs
  /\ IF AtLimit(c[1]) \/ c[2] \in PeersOf(c[1])
     THEN Goto(Dialer(c), "over")
     ELSE Goto(Dialer(c), "allowed")

\* The handshake completes when the listener accepts it.
Connect(c) ==
  /\ phase[Dialer(c)] = "allowed"
  /\ ListenerIdle(c[2])
  /\ c \notin lost
  /\ phase' = [phase EXCEPT ![Dialer(c)] = "connected", ![Listener(c)] = "accepted"]
  /\ UNCHANGED <<peers, hubs, tasks, faults, supervision>>

ConnectFails(c) ==
  /\ phase[Dialer(c)] = "allowed"
  /\ c[2] \notin listening \/ c \in lost
  /\ Goto(Dialer(c), "over")

\* open_bi, and this node's id is written.
OpenStream(c) ==
  /\ phase[Dialer(c)] = "connected"
  /\ Goto(Dialer(c), "open")

\* The connection is lost, or the listener's end has been dropped meanwhile.
OpenFails(c) ==
  /\ phase[Dialer(c)] = "connected"
  /\ c \in lost \/ phase[Listener(c)] = "over"
  /\ EndSubscriber(c[1])

(***************************************************************************)
(* The listener's loop, one connection at a time.                          *)
(***************************************************************************)

\* accept_bi, and the dialer's id is read.
AcceptStream(c) ==
  /\ phase[Listener(c)] = "accepted"
  /\ phase[Dialer(c)] \in {"open", "reading", "over"}
  /\ c \notin lost
  /\ Goto(Listener(c), "open")

\* The connection is lost, or the dialer has dropped all it had of it: the listener ends.
AcceptFails(c) ==
  /\ phase[Listener(c)] = "accepted"
  /\ c \in lost \/ (phase[Dialer(c)] = "over" /\ ~Sending(Dialer(c)))
  /\ EndListener(c[2])

-----------------------------------------------------------------------------
(***************************************************************************)
(* Both: NewPeer, the answer, and the Peer task.                           *)
(***************************************************************************)

\* Variants of Replaces: whoever has the smaller id keeps its newest stream,
\* every duplicate replaces, and none does.
Replaces_AnyDirection(e) == Id[e[2]] < Id[Peer(e)]
Replaces_Always(e) == TRUE
Replaces_Never(e) == FALSE

\* "smaller id should be actively connecting"
Replaces(e) == (Id[e[2]] < Id[Peer(e)]) = (e = Dialer(e[1]))

\* Variant of NewPeer: a stream that replaces another is not read.
NewPeer_ReplacedUnread(e) ==
  /\ phase[e] = "open"
  /\ e[2] \in hubs
  /\ IF ~AtLimit(e[2]) /\ (peers[e[2]][Peer(e)] = NoConn \/ Replaces(e))
     THEN /\ peers' = [peers EXCEPT ![e[2]][Peer(e)] = e[1]]
          /\ phase' = [phase EXCEPT ![e] =
               IF peers[e[2]][Peer(e)] = NoConn THEN "reading" ELSE "over"]
          /\ UNCHANGED <<hubs, tasks, faults, supervision>>
     ELSE Goto(e, "over")

\* The handler, and the task's reaction: it spawns a Peer, or drops the
\* connection.  The stream a new one replaces is dropped by the hub.
NewPeer(e) ==
  /\ phase[e] = "open"
  /\ e[2] \in hubs
  /\ IF ~AtLimit(e[2]) /\ (peers[e[2]][Peer(e)] = NoConn \/ Replaces(e))
     THEN /\ peers' = [peers EXCEPT ![e[2]][Peer(e)] = e[1]]
          /\ phase' = [phase EXCEPT ![e] = "reading"]
          /\ UNCHANGED <<hubs, tasks, faults, supervision>>
     ELSE Goto(e, "over")

\* A call to a hub that has stopped is an error: the calling task ends.
CallFails(e) ==
  /\ phase[e] \in {"asked", "open"}
  /\ e[2] \notin hubs
  /\ IF e = Dialer(e[1]) THEN EndSubscriber(e[2]) ELSE EndListener(e[2])

\* A Peer task ends when its stream does, or when it has a message for a hub
\* that has stopped.  The table keeps the send stream.
ReaderEnds(e) ==
  /\ phase[e] = "reading"
  /\ ~Sending(Far(e)) \/ e[1] \in lost \/ e[2] \notin hubs
  /\ Goto(e, "over")

\* How many faults there have been.
Faults == Cardinality(lost) + Cardinality(failed) + Cardinality(undecoded)

\* A message of the hub at the far end does not decode: the Peer task ends (or panics),
\* and the receive stream is dropped with it.
DecodeFails(e) ==
  /\ HubsSend
  /\ Faults < MaxFaults
  /\ phase[e] = "reading"
  /\ Peer(e) \in hubs
  /\ peers[Peer(e)][e[2]] = e[1]
  /\ e[1] \notin lost
  /\ undecoded' = undecoded \cup {e}
  /\ phase' = [phase EXCEPT ![e] = "over"]
  /\ UNCHANGED <<peers, hubs, tasks, lost, failed, supervision>>

\* A handler of the hub fails or panics: a request that cannot be answered, a span
\* that underflows.  PeerHub says which; here any message may be the one.
HandlerFails(n) ==
  /\ HubsSend
  /\ Faults < MaxFaults
  /\ n \in hubs
  /\ failed' = failed \cup {n}
  /\ hubs' = hubs \ {n}
  /\ peers' = [peers EXCEPT ![n] = [m \in Node |-> NoConn]]
  /\ UNCHANGED <<phase, tasks, lost, undecoded, supervision>>

\* `send_to_peer` or `broadcast` writes to a stream nobody receives: the error
\* stops the hub, and with it go the streams of its table.
SendFails(n, m) ==
  /\ HubsSend
  /\ n \in hubs
  /\ m \in PeersOf(n)
  /\ LET c == peers[n][m] IN c \in lost \/ ~Receiving(<<c, m>>)
  /\ hubs' = hubs \ {n}
  /\ peers' = [peers EXCEPT ![n] = [x \in Node |-> NoConn]]
  /\ UNCHANGED <<phase, tasks, faults, supervision>>

\* The network loses a connection for good.
Lose(c) ==
  /\ Faults < MaxFaults
  /\ c \notin lost
  /\ phase[Dialer(c)] = "allowed" \/ Receiving(Dialer(c)) \/ Receiving(Listener(c))
  /\ lost' = lost \cup {c}
  /\ UNCHANGED <<phase, peers, hubs, tasks, failed, undecoded, supervision>>

DialStep(c) ==
  \/ ShouldConnect(c) \/ Connect(c) \/ ConnectFails(c)
  \/ OpenStream(c) \/ OpenFails(c) \/ AcceptStream(c) \/ AcceptFails(c)

EndStep(e) == NewPeer(e) \/ CallFails(e)

Next ==
  \/ \E c \in Conn : Discover(c) \/ DialStep(c) \/ Lose(c)
  \/ \E e \in End : EndStep(e) \/ ReaderEnds(e) \/ DecodeFails(e)
  \/ \E n, m \in Node : SendFails(n, m)
  \/ \E n \in Node : HandlerFails(n)

Spec == Init /\ [][Next]_vars

\* Discovery yields every node it finds in the end, and a task that can go on does.  No
\* end ever returns to an earlier phase, so this one condition is enough.
TaskStep ==
  \/ \E c \in Conn : Discover(c) \/ DialStep(c)
  \/ \E e \in End : EndStep(e)

TaskFairness == WF_vars(TaskStep)

FairSpec == Spec /\ TaskFairness

-----------------------------------------------------------------------------
TypeOK ==
  /\ phase \in [End -> Phase]
  /\ peers \in [Node -> [Node -> Conn \cup {NoConn}]]
  /\ hubs \subseteq Node
  /\ subscribing \subseteq Node
  /\ listening \subseteq Node
  /\ lost \subseteq Conn
  /\ failed \subseteq Node
  /\ undecoded \subseteq End
  /\ handle \in [Node -> {"held", "ready", "panicked", "dropped"}]
  /\ joined \in [Node -> SUBSET {"hub", "tasks"}]

\* No task is in the middle of a connection between a and b.
Settled(a, b) ==
  \A c \in {<<a, b>>, <<b, a>>} :
    phase[Dialer(c)] \notin Handshake /\ phase[Listener(c)] \notin Handshake

\* When both nodes dialed each other and all is settled, both keep the
\* connection the one with the smaller id dialed ("duplicate connection.
\* smaller id should be actively connecting.", peerhub.rs:636).
SmallerIdKept ==
  \A a, b \in hubs :
    /\ Id[a] < Id[b]
    /\ Settled(a, b)
    /\ phase[Listener(<<a, b>>)] # "new"
    /\ phase[Listener(<<b, a>>)] # "new"
    => peers[a][b] = <<a, b>> /\ peers[b][a] = <<a, b>>

\* Two nodes that are settled keep the same connection, or both none: what one
\* writes the other reads.
SameConnection ==
  \A a, b \in hubs : a # b /\ Settled(a, b) => peers[a][b] = peers[b][a]

\* Whatever stream a hub keeps is being read at this end, unless its far end is
\* gone, a message on it did not decode, or the task that spawned the reader has ended.
KeptHasReader ==
  \A e \in End :
    (e[2] \in hubs /\ peers[e[2]][Peer(e)] = e[1]) =>
      \/ phase[e] = "reading"
      \/ e[1] \in lost
      \/ e \in undecoded
      \/ ~Sending(Far(e))
      \/ e = Dialer(e[1]) /\ e[2] \notin subscribing
      \/ e = Listener(e[1]) /\ e[2] \notin listening

Linked(a, b) == peers[a][b] # NoConn /\ peers[a][b] = peers[b][a]

\* Two nodes become and stay connected in both tables, unless the
\* listeners of both have ended.
LinkedInTheEnd ==
  \A c \in Conn :
    <>[](Linked(c[1], c[2]) \/ (c[1] \notin listening /\ c[2] \notin listening))

\* "setup dense nodes successfully" (lib.rs:70): nodes that discover each other
\* are all connected in the end.
FullyConnected == <>[](\A c \in Conn : Linked(c[1], c[2]))
=============================================================================
