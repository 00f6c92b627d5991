----------------------------- MODULE Supervision -----------------------------
(***************************************************************************)
(* The life of a node: Config::run spawns the hub, the subscriber and the  *)
(* listener, and returns a HubHandle (config.rs).  The propagator awaits   *)
(* it, the miner keeps it until its own loop ends.  Dropping the handle,   *)
(* or the end of the program, ends every task of the node at once, between *)
(* any two steps of Connections.  A node that starts again has a new key,  *)
(* and is another node.                                                    *)
(*                                                                         *)
(* Neither JoinHandle yields an error before it is aborted: a hub that     *)
(* fails or panics is an actor that has ended, and join_next takes the     *)
(* results of the two tasks.  A JoinHandle that is polled again after it   *)
(* was ready panics (tokio).                                               *)
(***************************************************************************)
EXTENDS Connections

\* config.rs:162-170: the task around `join_next` ends after both others.
Over(n) ==
  (IF n \notin hubs THEN {"hub"} ELSE {}) \cup
  (IF n \notin subscribing \cup listening THEN {"tasks"} ELSE {})

\* Variant of Poll: a JoinHandle that was ready is pending ever after.
Poll_Fused(n) ==
  /\ handle[n] = "held"
  /\ Over(n) # joined[n]
  /\ joined' = [joined EXCEPT ![n] = Over(n)]
  /\ handle' = [handle EXCEPT ![n] =
       IF joined[n] = {} /\ Over(n) = {"hub", "tasks"} THEN "ready" ELSE "held"]
  /\ UNCHANGED connections

\* HubHandle::poll, woken by what has ended since: it polls both JoinHandles, and
\* is ready when both are ready at this very poll.
Poll(n) ==
  /\ handle[n] = "held"
  /\ Over(n) # joined[n]
  /\ joined' = [joined EXCEPT ![n] = Over(n)]
  /\ handle' = [handle EXCEPT ![n] =
       CASE joined[n] # {} -> "panicked"
         [] joined[n] = {} /\ Over(n) = {"hub", "tasks"} -> "ready"
         [] OTHER -> "held"]
  /\ UNCHANGED connections

\* Variant of Drop: the tasks that read from peers are not aborted.
Drop_KeepsReaders(n) ==
  /\ handle[n] = "held"
  /\ handle' = [handle EXCEPT ![n] = "dropped"]
  /\ phase' = [e \in End |->
       IF e[2] = n /\ phase[e] \in Handshake THEN "over" ELSE phase[e]]
  /\ peers' = [peers EXCEPT ![n] = [m \in Node |-> NoConn]]
  /\ hubs' = hubs \ {n}
  /\ subscribing' = subscribing \ {n}
  /\ listening' = listening \ {n}
  /\ UNCHANGED <<joined, faults>>

\* HubHandle::drop: both tasks are aborted, with the JoinSets they own.
Drop(n) ==
  /\ handle[n] = "held"
  /\ handle' = [handle EXCEPT ![n] = "dropped"]
  /\ Abandon({e \in End : e[2] = n})
  /\ peers' = [peers EXCEPT ![n] = [m \in Node |-> NoConn]]
  /\ hubs' = hubs \ {n}
  /\ subscribing' = subscribing \ {n}
  /\ listening' = listening \ {n}
  /\ UNCHANGED <<joined, faults>>

RunNext ==
  \/ Next
  \/ \E n \in Node : Poll(n) \/ Drop(n)

RunSpec == Init /\ [][RunNext]_vars

\* Besides the tasks of Connections, what is woken is polled, a reader finds the
\* end of its stream, and a hub has something to send again and again (a miner
\* announces block after block).
RunFairness ==
  /\ TaskFairness
  /\ WF_vars(\E n, m \in Node : SendFails(n, m))
  /\ \A n \in Node : WF_vars(Poll(n))

FairRunSpec == RunSpec /\ RunFairness

-----------------------------------------------------------------------------
\* As long as no connection is lost, no handle dropped, and every message decodes and
\* is handled, the first cause of a hub's or a task's end is always that two nodes
\* dialed each other: the handshakes and the tables bring nodes down by nothing else.
\* (A table may be full, but no node is found by, or finds, more than PeerSizeLimit
\* others.)
EndsStartWithDuplicate ==
  (/\ lost = {} /\ failed = {} /\ undecoded = {}
   /\ \A n \in Node : handle[n] # "dropped"
   /\ hubs # Node \/ subscribing # Node \/ listening # Node) =>
    \E c \in Conn : phase[Listener(c)] # "new" /\ phase[Listener(<<c[2], c[1]>>)] # "new"

\* Whoever awaits the handle of a node that has come to its end is told in the
\* end, by Ok or by a panic (bin/propagator.rs: `handle.await?`).
AwaitEnds ==
  \A n \in Node : <>[](Over(n) = {"hub", "tasks"} => handle[n] # "held")

\* A node that is dropped, at whatever moment of whatever handshake, is noticed:
\* the hubs that keep a stream to it fail to send and stop (nothing else takes it
\* out of a table), and no end of its connections is stuck in a handshake.
DropIsNoticed ==
  \A n, m \in Node :
    <>[](handle[n] = "dropped" /\ m # n =>
           (m \in hubs => n \notin PeersOf(m)) /\ Settled(n, m))
=============================================================================
