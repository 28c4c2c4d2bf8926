----------------------------- MODULE RustGossip -----------------------------
(***************************************************************************)
(* A network of Rust nodes (rust-test-node/src/main.rs): each cuts the     *)
(* messages it publishes into fragments, gossipsub carries these, and      *)
(* every other node counts them by time stamp in MSG_SEEN and prints the   *)
(* latency of a message when it has counted Chunks.                        *)
(*                                                                         *)
(* The swarm task does not poll the network while publish_new_message      *)
(* runs, so a publication is one step here (PublishBridge has its inside). *)
(* Gossipsub is external: a fragment it accepts is on its way to every     *)
(* other node, in any order, once per message id, and may be lost.         *)
(***************************************************************************)
EXTENDS Naturals, FiniteSets

CONSTANTS
  Node,
  Message,        \* publications, each made by one node
  Sizes,          \* lengths of the fragment buffer, msg_size / chunks
  Chunks,         \* config.chunks, the same on all nodes
  Distinct,       \* the publications that share their time with no other
  Stamp,          \* the times Utc::now() shows on any of the nodes
  MaxLost,        \* model bound on the fragments the network loses
  None

ASSUME GossipAssumption ==
  /\ None \notin Node
  /\ Sizes \subseteq {l \in Nat : l >= 8}   \* less panics: PublishBridge
  /\ Chunks \in Nat \ {0}
  /\ Distinct \subseteq Message
  /\ Stamp \subseteq Nat \ {0}
  /\ MaxLost \in Nat

VARIABLES
  phase,      \* where main is on each node
  origin,     \* publisher of each message
  stamp,      \* its time stamp, 0 before it is published
  len,        \* its buffer length
  out,        \* how many of its fragments gossipsub accepted
  cache,      \* message ids in each node's duplicate cache
  wire,       \* fragments on their way to each node
  lost,       \* number of fragments the network has lost
  msgSeen,    \* MSG_SEEN of each node: fragments counted per stamp
  handled,    \* history: fragments create_message_handler has counted
  discarded,  \* history: fragments received while still connecting
  reports     \* history: latency lines printed per stamp

vars == <<phase, origin, stamp, len, out, cache, wire, lost, msgSeen, handled,
          discarded, reports>>
netVars == <<origin, stamp, len, out>>
appVars == <<msgSeen, handled, discarded, reports>>

-----------------------------------------------------------------------------

\* Fragment c of a buffer of length l stamped s.  Equal bytes, equal id.
Payload(s, l, c) ==
  [stamp |-> s, len |-> l, mark |-> IF l > 10 THEN c % 256 ELSE 0]

Fragments(s, l) == {Payload(s, l, c) : c \in 0..(Chunks - 1)}

TypeOK ==
  /\ phase \in [Node -> {"starting", "connecting", "running", "ended"}]
  /\ origin \in [Message -> Node \cup {None}]
  /\ stamp \in [Message -> {0} \cup Stamp]
  /\ len \in [Message -> {0} \cup Sizes]
  /\ out \in [Message -> 0..Chunks]
  /\ cache \in [Node -> SUBSET [stamp : Stamp, len : Sizes, mark : 0..255]]
  /\ wire \in [Node -> SUBSET [stamp : Stamp, len : Sizes, mark : 0..255]]
  /\ lost \in 0..MaxLost
  /\ msgSeen \in [Node -> [Stamp -> Nat]]
  /\ handled \in [Node -> SUBSET [stamp : Stamp, len : Sizes, mark : 0..255]]
  /\ discarded \in [Node -> SUBSET [stamp : Stamp, len : Sizes, mark : 0..255]]
  /\ reports \in [Node -> [Stamp -> Nat]]

Init ==
  /\ phase = [n \in Node |-> "starting"]
  /\ origin = [m \in Message |-> None]
  /\ stamp = [m \in Message |-> 0]
  /\ len = [m \in Message |-> 0]
  /\ out = [m \in Message |-> 0]
  /\ cache = [n \in Node |-> {}]
  /\ wire = [n \in Node |-> {}]
  /\ lost = 0
  /\ msgSeen = [n \in Node |-> [s \in Stamp |-> 0]]
  /\ handled = [n \in Node |-> {}]
  /\ discarded = [n \in Node |-> {}]
  /\ reports = [n \in Node |-> [s \in Stamp |-> 0]]

-----------------------------------------------------------------------------

\* main has slept its 60 seconds, has dialled, and polls the swarm for 20
\* seconds in connect_gossipsub_peers.
StartConnecting(n) ==
  /\ phase[n] = "starting"
  /\ phase' = [phase EXCEPT ![n] = "connecting"]
  /\ UNCHANGED <<netVars, cache, wire, lost, appVars>>

\* The window is over, and at least one dial was accepted: the HTTP server is
\* spawned and the loop entered.
StartRunning(n) ==
  /\ phase[n] = "connecting"
  /\ phase' = [phase EXCEPT ![n] = "running"]
  /\ UNCHANGED <<netVars, cache, wire, lost, appVars>>

\* main returns an error before its loop, and the process ends: no dial was
\* accepted, which is told at the end of the window (PeerDialer has the dials),
\* or what comes before it failed.
EndsEarly(n) ==
  /\ phase[n] \in {"starting", "connecting"}
  /\ phase' = [phase EXCEPT ![n] = "ended"]
  /\ UNCHANGED <<netVars, cache, wire, lost, appVars>>

\* The fragments the publishing loop tries.
ChunksTriedInclusive == 0..(Chunks + 1)   \* wrong: one turn too many
ChunksTried == 0..Chunks

\* How many fragments of this publication gossipsub may accept before it
\* first returns an error: Duplicate for an id it knows, or any other.
Accepted(n, s, l) ==
  {k \in ChunksTried :
     \A c \in 0..(k - 1) :
       Payload(s, l, c) \notin cache[n] \cup {Payload(s, l, d) : d \in 0..(c - 1)}}

\* publish_new_message: the fragments are published in turn up to the first
\* error; the publisher's own gossipsub does not hand them back to it.
Publish(n, m, l, s) ==
  /\ phase[n] = "running"
  /\ origin[m] = None
  /\ \A o \in Message : stamp[o] = s => {m, o} \cap Distinct = {}
  /\ origin' = [origin EXCEPT ![m] = n]
  /\ stamp' = [stamp EXCEPT ![m] = s]
  /\ len' = [len EXCEPT ![m] = l]
  /\ \E k \in Accepted(n, s, l) :
       LET sent == {Payload(s, l, c) : c \in 0..(k - 1)}
       IN  /\ out' = [out EXCEPT ![m] = k]
           /\ cache' = [cache EXCEPT ![n] = @ \cup sent]
           /\ wire' = [q \in Node |-> IF q = n THEN wire[q] ELSE wire[q] \cup (sent \ cache[q])]
  /\ UNCHANGED <<phase, lost, appVars>>

\* The test that a message is complete, and what stays in MSG_SEEN.
CompleteEarly(count) == count + 1 >= Chunks   \* wrong: one fragment short
CompleteLate(count) == count > Chunks         \* wrong: one fragment too many
Complete(count) == count >= Chunks

KeptForever(count) == count                   \* wrong: a reported entry stays
Kept(count) == IF Complete(count) THEN 0 ELSE count

\* create_message_handler: count the fragment under its stamp; the one that
\* completes the count prints the latency and removes the entry.
Handle(n, p) ==
  LET count == msgSeen[n][p.stamp] + 1
  IN  /\ handled' = [handled EXCEPT ![n] = @ \cup {p}]
      /\ msgSeen' = [msgSeen EXCEPT ![n][p.stamp] = Kept(count)]
      /\ \/ ~Complete(count) /\ UNCHANGED reports
         \/ Complete(count) /\ reports' = [reports EXCEPT ![n][p.stamp] = @ + 1]
      /\ UNCHANGED discarded

\* The 20 second loop matches subscriptions only: other events are dropped.
Discard(n, p) ==
  /\ discarded' = [discarded EXCEPT ![n] = @ \cup {p}]
  /\ UNCHANGED <<msgSeen, handled, reports>>

\* gossipsub delivers a fragment whose id it has not seen.
Deliver(n, p) ==
  /\ p \in wire[n]
  /\ phase[n] \in {"connecting", "running"}
  /\ wire' = [wire EXCEPT ![n] = @ \ {p}]
  /\ cache' = [cache EXCEPT ![n] = @ \cup {p}]
  /\ \/ p \in cache[n] /\ UNCHANGED appVars
     \/ p \notin cache[n] /\ phase[n] = "connecting" /\ Discard(n, p)
     \/ p \notin cache[n] /\ phase[n] = "running" /\ Handle(n, p)
  /\ UNCHANGED <<phase, netVars, lost>>

\* No neighbour ever delivers the fragment to n.
Lose(n, p) ==
  /\ p \in wire[n]
  /\ lost < MaxLost
  /\ lost' = lost + 1
  /\ wire' = [wire EXCEPT ![n] = @ \ {p}]
  /\ UNCHANGED <<phase, netVars, cache, appVars>>

Next ==
  \/ \E n \in Node : StartConnecting(n)
  \/ \E n \in Node : StartRunning(n)
  \/ \E n \in Node : EndsEarly(n)
  \/ \E n \in Node, m \in Message, l \in Sizes, s \in Stamp : Publish(n, m, l, s)
  \/ \E n \in Node : \E p \in wire[n] : Deliver(n, p)
  \/ \E n \in Node : \E p \in wire[n] : Lose(n, p)

Spec == Init /\ [][Next]_vars

\* main leaves its sleep and its window, into the loop or by ending, and the
\* swarm is polled while it is in the loop; gossip delivers what it does not
\* lose.  Nothing obliges a node to publish, or to have reached a peer.
Fairness ==
  \A n \in Node :
    /\ WF_vars(StartConnecting(n) \/ StartRunning(n) \/ EndsEarly(n))
    /\ \A s \in Stamp, l \in Sizes, c \in 0..(Chunks - 1) : WF_vars(Deliver(n, Payload(s, l, c)))

FairSpec == Spec /\ Fairness

-----------------------------------------------------------------------------

Reported(n, m) == stamp[m] \in Stamp /\ reports[n][stamp[m]] > 0

Counted(n, s) == {p \in handled[n] : p.stamp = s}

\* MSG_SEEN counts every handled fragment once, and a stamp has an entry only
\* while its count is short of a multiple of Chunks: what is printed is
\* forgotten, even when two publications share a stamp (main.rs:83-96).
CountsAreExact ==
  \A n \in Node, s \in Stamp :
    Cardinality(Counted(n, s)) = Chunks * reports[n][s] + msgSeen[n][s]
      /\ msgSeen[n][s] < Chunks

\* A node prints a latency for a message with a stamp of its own only when it
\* has received every fragment of it, though it only counts them (main.rs:87).
ReportsAreWhole ==
  \A n \in Node, m \in Distinct :
    Reported(n, m) =>
      out[m] = Chunks /\ Fragments(stamp[m], len[m]) \subseteq handled[n]

\* The Rust network measures each message with a stamp of its own at most once
\* per node, and only when it was published whole, whatever becomes of the
\* messages whose stamps collide.
Broadcast == INSTANCE FragmentBroadcast WITH
  Message <- Distinct,
  whole   <- {m \in Distinct : out[m] = Chunks},
  reports <- [n \in Node |-> [m \in Distinct |->
                IF stamp[m] = 0 THEN 0 ELSE reports[n][stamp[m]]]]

MeasuresOnce == Broadcast!Spec

\* Only the network, or a node that was still in its connection window or ended
\* without reaching its loop, can keep a whole message with a stamp of its own
\* from being measured at another node: every fragment that arrives in the loop
\* counts (main.rs:526-528, 357-382, 458).
\* (Not one whose stamp collides: its bytes may equal those of a message that
\* the other node published itself.)
WholeIsReported ==
  \A n \in Node, m \in Distinct :
    (out[m] = Chunks /\ origin[m] # n) ~>
      \/ lost > 0 \/ Reported(n, m)
      \/ discarded[n] \cap Fragments(stamp[m], len[m]) # {}
      \/ phase[n] = "ended"
=============================================================================
