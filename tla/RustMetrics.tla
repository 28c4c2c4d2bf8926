---------------------------- MODULE RustMetrics ----------------------------
(***************************************************************************)
(* The metrics of a Rust node: GossipSubMetrics (metrics.rs) as main.rs    *)
(* writes them and as a scrape of /metrics, or store_metrics in Shadow     *)
(* (env.rs), reads them on another thread.  No lock covers more than one   *)
(* metric, so each write and each read is a step of its own, and a page    *)
(* may mix what the node knew at several times.                            *)
(*                                                                         *)
(* Peers and topic are those of libp2p: only their numbers matter, and     *)
(* they change only while main polls the swarm.  The node has one topic.   *)
(***************************************************************************)
EXTENDS Integers, Sequences, TLC

CONSTANTS
  MaxPeers,     \* model bound on the peers connected at a time
  DLow,         \* GOSSIPSUB_D_LOW: 4 in the code
  MaxInputs,    \* model bound on network changes, messages and commands
  Watched       \* metrics whose lines on a page are followed

ASSUME MetricsAssumption ==
  /\ DLow \in Nat \ {0}
  /\ {MaxPeers, MaxInputs} \subseteq Nat
  /\ Watched \subseteq STRING

VARIABLES
  phase,     \* where main is
  net,       \* peers connected, known to gossipsub, subscribed, in the mesh
  pending,   \* gossipsub events the swarm has yet to hand to main
  left,      \* history: peers that left without unsubscribing
  inputs,    \* number of network changes, messages and commands so far
  metric,    \* the value of each metric that has one
  todo,      \* writes main has still to do for the event it handles
  at,        \* place in Registry the encoder has reached, 0 between pages
  page       \* the lines it has written

netVars  == <<net, pending, left, inputs>>
pageVars == <<at, page>>
vars     == <<phase, netVars, metric, todo, pageVars>>

-----------------------------------------------------------------------------

\* The metrics in the order they are registered, which is that of a page.
RegistryTopicsLast ==                 \* wrong: topics after the lines it counts
  <<"peers", "pubsub_peers", "mesh", "topic", "topics", "no_peers", "low_peers", "healthy",
    "received", "published", "success", "failure", "subscriptions", "unsubscriptions">>
Registry ==
  <<"peers", "pubsub_peers", "topics", "mesh", "topic", "no_peers", "low_peers", "healthy",
    "received", "published", "success", "failure", "subscriptions", "unsubscriptions">>

\* A family has no line for the topic before the topic is first written.
Families == {"mesh", "topic", "published", "subscriptions", "unsubscriptions"}

Events == {"subscribed", "unsubscribed", "message"}
Names == {Registry[i] : i \in DOMAIN Registry}
Places == {i \in DOMAIN Registry : Registry[i] \in Watched}
End == Len(Registry) + 1

\* What a set of lines says of a metric.
Value(lines, m) == IF m \in DOMAIN lines THEN lines[m] ELSE 0

\* The lines once m has a value, whether or not it had one.
With(lines, m, value) == [x \in DOMAIN lines \cup {m} |-> IF x = m THEN value ELSE lines[x]]

\* The swarm and gossipsub each keep their own account of the peers.
Nets ==
  {n \in [conn : 0..MaxPeers, known : 0..MaxPeers, subs : 0..MaxPeers, mesh : 0..MaxPeers] :
     n.mesh <= n.subs /\ n.subs <= n.known /\ n.known <= n.conn}

TypeOK ==
  /\ phase \in {"starting", "window", "loop", "ended"}
  /\ net \in Nets
  /\ pending \in [Events -> Nat]
  /\ left \in Nat
  /\ inputs \in 0..MaxInputs
  /\ DOMAIN page \subseteq DOMAIN metric /\ DOMAIN metric \subseteq Names
  /\ \A m \in DOMAIN metric : metric[m] \in Nat
  /\ \A m \in {"topics", "no_peers", "low_peers", "healthy"} : metric[m] <= 1
  /\ \A i \in DOMAIN todo : todo[i] \in Names \X Nat
  /\ at \in Places \cup {0, End}

Init ==
  /\ phase = "starting"
  /\ net = [conn |-> 0, known |-> 0, subs |-> 0, mesh |-> 0]
  /\ pending = [e \in Events |-> 0]
  /\ left = 0
  /\ inputs = 0
  /\ metric = [m \in Names \ Families |-> 0]
  /\ todo = <<>>
  /\ at = 0
  /\ page = <<>>

-----------------------------------------------------------------------------
(* main and the swarm it polls.                                            *)

\* main has slept and dialled, and polls the swarm for 20 seconds.
OpenWindow ==
  /\ phase = "starting"
  /\ phase' = "window"
  /\ UNCHANGED <<netVars, metric, todo, pageVars>>

\* The window is over: main enters its loop, or ends if it dialled nobody.
CloseWindow(dialled) ==
  /\ phase = "window"
  /\ todo = <<>>
  /\ phase' = IF dialled THEN "loop" ELSE "ended"
  /\ UNCHANGED <<netVars, metric, todo, pageVars>>

Polls == phase \in {"window", "loop"} /\ todo = <<>>

\* libp2p moves on while main polls it.  gossipsub queues an event for each
\* subscription and for each that is ended; a peer whose connection closes
\* takes its subscription along without an event.
NetworkMoves(n, came, ended) ==
  /\ Polls
  /\ inputs < MaxInputs
  /\ n # net
  /\ came = 0 \/ ended = 0           \* it takes two moves to do both
  /\ net.subs + came - ended - n.subs \in 0..net.subs
  /\ inputs' = inputs + 1
  /\ net' = n
  /\ pending' = [pending EXCEPT !["subscribed"] = @ + came, !["unsubscribed"] = @ + ended]
  /\ left' = left + net.subs + came - ended - n.subs
  /\ UNCHANGED <<phase, metric, todo, pageVars>>

\* gossipsub queues a message for main.
MessageComes ==
  /\ Polls
  /\ inputs < MaxInputs
  /\ inputs' = inputs + 1
  /\ pending' = [pending EXCEPT !["message"] = @ + 1]
  /\ UNCHANGED <<phase, net, left, metric, todo, pageVars>>

Increment(m) == <<m, Value(metric, m) + 1>>

\* The events main matches: the window's loop leaves messages out.
HeededInLoop(event) == phase = "loop"             \* wrong: the window matches nothing
Heeded(event) == phase = "loop" \/ event # "message"

\* The writes an event causes.  The fragment that completes its message counts
\* twice, the others do not.
Writes(event, whole) ==
  CASE event = "subscribed"         -> <<Increment("subscriptions")>>
    [] event = "unsubscribed"       -> <<Increment("unsubscriptions")>>
    [] event = "message" /\ whole  -> <<Increment("received"), Increment("success")>>
    [] event = "message" /\ ~whole -> <<>>

\* The swarm hands main an event.
HandleEvent(event, whole) ==
  /\ Polls
  /\ pending[event] > 0
  /\ pending' = [pending EXCEPT ![event] = @ - 1]
  /\ todo' = IF Heeded(event) THEN Writes(event, whole) ELSE <<>>
  /\ UNCHANGED <<phase, net, left, inputs, metric, pageVars>>

\* A publish command has been carried out; what it did is in PublishBridge.
CountCommand ==
  /\ phase = "loop"
  /\ todo = <<>>
  /\ inputs < MaxInputs
  /\ inputs' = inputs + 1
  /\ todo' = <<Increment("published")>>
  /\ UNCHANGED <<phase, net, pending, left, metric, pageVars>>

-----------------------------------------------------------------------------
(* The health update, every five seconds.                                  *)

\* update_health for the one topic, whose mesh has count peers.
HealthInclusive(count) ==             \* wrong: DLow itself counts as low
  [no_peers |-> IF count = 0 THEN 1 ELSE 0,
   low_peers |-> IF 0 < count /\ count <= DLow THEN 1 ELSE 0,
   healthy |-> IF count > DLow THEN 1 ELSE 0]
HealthByPeers(count) ==               \* wrong: peers are counted, not topics
  [no_peers |-> IF count = 0 THEN 1 ELSE 0,
   low_peers |-> IF 0 < count /\ count < DLow THEN count ELSE 0,
   healthy |-> IF count >= DLow THEN count ELSE 0]
Health(count) ==
  [no_peers |-> IF count = 0 THEN 1 ELSE 0,
   low_peers |-> IF 0 < count /\ count < DLow THEN 1 ELSE 0,
   healthy |-> IF count >= DLow THEN 1 ELSE 0]

\* The writes of one tick, in their order.  The swarm is not polled between.
HealthWrites ==
  LET health == Health(net.mesh)
  IN  <<<<"peers", net.conn>>, <<"pubsub_peers", net.known>>,
        <<"mesh", net.mesh>>, <<"topic", net.subs>>, <<"topics", 1>>,
        <<"no_peers", health.no_peers>>, <<"low_peers", health.low_peers>>,
        <<"healthy", health.healthy>>>>

HealthTick ==
  /\ phase = "loop"
  /\ todo = <<>>
  /\ todo' = HealthWrites
  /\ UNCHANGED <<phase, netVars, metric, pageVars>>

\* One set() or inc() of a metric; a family creates its line when it has none
\* (with the value zero, a moment before, which is not kept apart).
Write ==
  /\ todo # <<>>
  /\ metric' = With(metric, Head(todo)[1], Head(todo)[2])
  /\ todo' = Tail(todo)
  /\ UNCHANGED <<phase, netVars, pageVars>>

-----------------------------------------------------------------------------
(* A scrape, or a snapshot of store_metrics.                               *)

\* The encoder goes on to the next metric of the registry that is watched: one
\* that is not leaves no trace.
GoOn ==
  /\ at' \in Places \cup {End}
  /\ at < at'
  /\ \A i \in Places : at < i => at' <= i

\* A request for /metrics arrives, or the snapshot interval ticks.
BeginPage ==
  /\ at = 0
  /\ phase # "ended"
  /\ GoOn
  /\ UNCHANGED <<phase, netVars, metric, todo, page>>

\* encode reads a metric, if it has a line.
ReadMetric ==
  /\ at \in Places
  /\ phase # "ended"
  /\ LET m == Registry[at]
     IN  page' = IF m \in DOMAIN metric THEN With(page, m, metric[m]) ELSE page
  /\ GoOn
  /\ UNCHANGED <<phase, netVars, metric, todo>>

\* The page is answered or appended; or encoding, opening or writing failed,
\* which costs this page only.
EndPage ==
  /\ at = End
  /\ phase # "ended"
  /\ at' = 0
  /\ page' = <<>>
  /\ UNCHANGED <<phase, netVars, metric, todo>>

-----------------------------------------------------------------------------

Next ==
  \/ OpenWindow
  \/ \E dialled \in BOOLEAN : CloseWindow(dialled)
  \/ \E n \in Nets, came, ended \in 0..MaxPeers : NetworkMoves(n, came, ended)
  \/ MessageComes
  \/ \E event \in Events, whole \in BOOLEAN : HandleEvent(event, whole)
  \/ CountCommand
  \/ HealthTick
  \/ Write
  \/ BeginPage
  \/ ReadMetric
  \/ EndPage

Spec == Init /\ [][Next]_vars

\* select! picks among its ready branches at random, so none of them starves:
\* strong fairness, since every branch shuts the others out while it runs.
\* Nothing obliges the network or a scraper.
Fairness ==
  /\ WF_vars(OpenWindow)
  /\ WF_vars(\E dialled \in BOOLEAN : CloseWindow(dialled))
  /\ \A event \in Events : SF_vars(\E whole \in BOOLEAN : HandleEvent(event, whole))
  /\ SF_vars(HealthTick)
  /\ WF_vars(Write)

FairSpec == Spec /\ Fairness

-----------------------------------------------------------------------------

\* Every subscription and its end is counted once, by the window or by the
\* loop, whichever hands it over (main.rs:364-377, 523-539): but for events
\* under way, the two counters tell how many peers are subscribed, plus those
\* that left without a word.
SubscriptionsBalance ==
  todo = <<>> =>
    Value(metric, "subscriptions") - Value(metric, "unsubscriptions")
      + pending["subscribed"] - pending["unsubscribed"] = net.subs + left

\* Between two ticks the gauges fit each other, however the network has moved
\* since (main.rs:480-507): the class the topic is counted in is that of its
\* mesh gauge, and mesh, topic, gossipsub's peers and the connected are nested.
GaugesFit ==
  todo = <<>> /\ metric["topics"] = 1 =>
    /\ metric["no_peers"] + metric["low_peers"] + metric["healthy"] = 1
    /\ metric["no_peers"] = 1 <=> metric["mesh"] = 0
    /\ metric["healthy"] = 1 <=> metric["mesh"] >= DLow
    /\ metric["mesh"] <= metric["topic"]
    /\ metric["topic"] <= metric["pubsub_peers"]
    /\ metric["pubsub_peers"] <= metric["peers"]

\* A page may be torn by writes between its reads, yet the order in which main
\* writes (main.rs:499-505, metrics.rs:178-181) and that of the registry keep
\* it readable: a page that counts the topic has its lines, and its validated
\* messages are at most one behind the received ones.
PagesReadable ==
  at = End =>
    /\ Value(page, "topics") = 1 => Watched \cap {"mesh", "topic"} \subseteq DOMAIN page
    /\ {"received", "success"} \subseteq Watched => page["received"] <= page["success"] + 1

\* What the gauges should say.
Truth == [peers |-> net.conn, pubsub_peers |-> net.known, topics |-> 1,
          mesh |-> net.mesh, topic |-> net.subs] @@ Health(net.mesh)

\* While main is in its loop, the metrics tell the truth in the end: the
\* connections there are, the mesh, and the subscriptions (main.rs:480-507,
\* 523-539).  (The bounds quieten the network.)
MetricsSettle ==
  <>(phase = "loop") => <>[](todo = <<>> =>
    /\ \A m \in DOMAIN Truth : Value(metric, m) = Truth[m]
    /\ Value(metric, "subscriptions") - Value(metric, "unsubscriptions") = net.subs + left
    /\ metric["received"] = metric["success"])
=============================================================================
