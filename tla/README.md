# A verification project for dst-libp2p-test-node

The repository holds libp2p test nodes in three languages and the scripts that
run them in Kubernetes and in the Shadow simulator. A node joins a GossipSub
topic, accepts `POST /publish` requests from a traffic injector, cuts each
message into `FRAGMENTS` fragments, publishes them, counts the fragments it
receives from others, and prints the latency of a message when it has counted
them all. What an experiment reports rests on these few hundred lines: that a
request is published once and in order, that its answer is true, that a latency
line stands for a whole message, that the counters mean what they are called,
and that the network the experiment thinks it has is the one that was dialled.

These modules model that logic, check it with TLC and prove most of its safety
with TLAPS. Paths below are relative to the repository.

## 1. The system

### Components

| Component | Code | State | Operations |
|---|---|---|---|
| Rust publish bridge | `rust-test-node/src/main.rs` 66-71, 101-221, 464-516 | a tokio mutex around the sender of an mpsc channel of 10, one oneshot per request, the loop's position, the published counter | a warp handler per request: lock, send, await the answer; the loop: receive, publish fragments, answer, count |
| Rust latency measurement | `main.rs` 42, 73-143, 357-379, 518-539 | `MSG_SEEN`: fragments per time stamp | publish, deliver, count, print and remove |
| Rust start-up and dialling | `main.rs` 274-389, 409-460, `env.rs` | resolved addresses, number of dials accepted | resolve (retry for ever), shuffle, dial, poll for 20 s |
| Rust metrics | `metrics.rs`, `env.rs` 90-151, `main.rs` 480-507 | counters and gauges | health every 5 s, snapshots to a file |
| Go publishing and measurement | `go-test-node/main.go` 26-151 | one payload per request, shared by its fragments; `msgSeen` | a goroutine per request; `readLoop` |
| Go start-up and dialling | `main.go` 177-433, `env.go` | as Rust, five resolution attempts | resolve, shuffle, connect with a 5 s timeout |
| Go tracer and metrics | `go-test-node/metrics.go` 289-550 | mesh peers per topic, gauges | Join, Leave, Graft, Prune, Recv/SendRPC, an updater every 5 s |
| Nim gossipsub-queues | `nim-test-node/gossipsub-queues/` | `messagesChunks`, request, failure and completion counters | as the others, on one chronos event loop |
| Nim regression node | `nim-test-node/regression/` | `messagesStarted`, the DHT's bootstrap peers | serve early, staggered bootstrap dial, keepalive ping sweeps, shutdown on a signal |
| Nim connection manager node | `nim-test-node/connmanager/` | connections of hubs and peers | resolve and connect with back-off, three reconnection strategies |
| Nim kad-dht node | `nim-test-node/kad-dht/` | role, bootstrap peers | bootstrap, warm-up, probe |
| Nim service-discovery node | `nim-test-node/service-discovery/` | role, services | bootstrap up to a limit, advertise, look up |
| Shadow scripts | `shadow/` | generated topology and configuration | `topogen.py`, `run.sh`, three awk summaries |
| Build and CI | Dockerfiles, `.github/`, a patch to lsquic | - | not program logic |

Inside a Rust node, handlers and the loop interact through the mutex, the
channel and the oneshots only. Between nodes everything goes through GossipSub,
which delivers a fragment once per message id (a hash of its bytes), in any
order, or not at all. Injector and node meet at the HTTP endpoint and in the
counters a scraper reads.

### What is hard

* **Concurrency.** Many handlers, one lock, a bounded channel, one loop; a
  handler's future is dropped at any await when its client leaves. In Go each
  request has a goroutine and its payload is read by other goroutines while it
  is overwritten. In Nim every fragment is an await.
* **Failure.** A refused fragment after others went out; a buffer too short for
  its header (a panic of the Rust main task, a recovered panic in Go, the end of
  the process in Nim); a connection window that drops messages for good.
* **Ordering.** Fragments of several messages arrive in any order and are only
  counted, by a time stamp (Rust, Go) or a random id (Nim).
* **Timeouts and retries.** Resolution, dialling, back-off, the keepalive ping
  against an idle timeout.

`PROJECT.json` lists each hazard at its line with the properties that cover it,
or says why none does.

### What makes each component correct

* Bridge: no permit, command or answer is lost or used twice; requests take
  effect in the order they came; answers are true; the counter keeps up.
* Measurement: a node prints at most one latency per message, only for a message
  received whole; a message received whole is printed.
* Dialling: the node dials as many peers as it was told to, and ends.
* Metrics: the counters account for every event, the gauges fit each other and
  settle on the truth, and a page torn by concurrent writes stays readable.
* Keepalive: no connection stays silent for 30 s while the ping loop runs.
* Bootstrap and reconnection: bounded attempts; a reachable peer is reached.

## 2. Modules

| Module | What it models |
|---|---|
| `FifoService` | abstract: a server that resolves requests one at a time, in order, at most once, and tells a client only what became of its request |
| `PublishBridge` | the Rust bridge, every await and every step another task can see |
| `MCPublishBridge` | its small instances |
| `PublishBridgeProofs` | proofs: what the operators on sequences return, the safety of `PublishBridge`, that it implements `FifoService`, and that its loop publishes as `RustGossip` says |
| `FragmentBroadcast` | abstract: each node measures a message at most once, and only one published whole |
| `RustGossip`, `GoGossip`, `NimGossip` | publishing, the network and measuring, in each language |
| `MCRustGossip`, `MCGoGossip`, `MCNimGossip` | their small instances |
| `RustGossipProofs`, `GoGossipProofs`, `NimGossipProofs` | proofs: their safety, and that they implement `FragmentBroadcast` |
| `PeerDialer` | a node of any of the three languages looking up names and dialling |
| `MCPeerDialer` | its small instance |
| `PeerDialerProofs` | proofs of its safety |
| `RustMetrics` | the metrics of a Rust node: who writes them when, and a scrape that reads them meanwhile |
| `MCRustMetrics` | its small instance |
| `RustMetricsProofs` | proofs of its safety |
| `KeepalivePing` | the ping loop of a regression node and the connections it keeps, in discrete time |
| `RegressionNode` | `KeepalivePing` inside the life of a regression node: start-up, bootstrap dials, publishing, signals |
| `MCRegressionNode` | its small instances |
| `RegressionNodeProofs` | proofs of the safety of both, the time a peer may stay unheard included |
| `ConnPeer` | the dialling side of the connection manager node: back-off, reconnection strategies, hubs that fail, in discrete time |
| `MCConnPeer` | its small instance |
| `ConnPeerProofs` | proofs: induction and recursion on sets, the back-off and the life of a call, the safety of `ConnPeer` |

### PublishBridge

`handler[r]` says at which await the handler of request `r` is: `locking`
(`tx.lock().await`), `sending` (`send(cmd).await`, the guard still held),
`waiting` (`response_rx.await`). `owner` and `waiters` are the tokio mutex,
which is fair: a released permit goes to the first waiter. `channel` is the mpsc
channel, `response[r]` the oneshot. The loop goes from `select` through
`publishing` (one step per fragment), `replying` and `counting` back to
`select`. Message ids are the bytes they hash: stamp, length and the fragment
index where there is room for one; `cache` is GossipSub's duplicate cache, which
keeps ids longer than a publication takes. `stamp[r]` is the local `now_nano` of the
publication of `r`, kept afterwards as a history variable; at each reading the
clock shows the time it showed last or the next one (`ClockShows`).

`Disconnect` drops a handler's future at each of the three awaits. `Panic` is
the slice of a buffer shorter than 8 bytes, in the task `main` blocks on: the
commands in the loop's hands and in the channel are dropped, which closes their
oneshots; until `Exit`, when the runtime shuts down, requests may still arrive,
and handlers answer 500 or fail to send.

`size`, `sent`, `taken`, `ticket`, `arrivals` and `status` are what the
properties need of clients and of history. `Line` and `Fate` are the refinement
mapping: the queue of `FifoService` runs across the loop, the channel, the mutex
and its queue, and a request leaves it with its last or its refused fragment,
before anyone is told. `Gossip` is a second mapping, to one node of `RustGossip`:
`Published` are the requests whose fragments the loop has been through, and the
fragments of the one it is going through (`Underway`) are hidden until it is done.
`PublishesAtOnce` says that every step is then a `Publish` of `RustGossip` with the
size and time of the command in hand, or none; the initial states are not compared,
since this node is already in its loop. The HTTP server's JSON and routing,
logging and the topic name are left out. The other two branches of `select!`
touch none of this state.

### RustGossip, GoGossip, NimGossip

A Rust node handles nothing while `publish_new_message` runs, so `Publish` is one
step; its inside is in `PublishBridge`, where `Accepted` is the loop of
`PublishFragment`. That the one stands for the other is `PublishesAtOnce`.
`phase` is where `main` is: asleep (nothing is delivered), in the 20 second window
(`Discard`), in the loop (`Handle`), or ended without reaching it (`EndsEarly`): no
dial was accepted, or what comes before failed. Why is in `PeerDialer`; here
it may happen to any node. Such a node measures nothing, which `WholeIsReported`
excepts.

In Go the payload of a publication is one slice. `WriteIndex` writes byte 10,
`PublishFragment` hands the slice to the library, which hashes it at once and
queues a message that points to it; `Transmit` sends the bytes the slice has
then. `unsent[q][m]` counts the queued messages of `m` for peer `q`: they all
hold the same slice, so their number is all that matters. `Read` is `readLoop`
with `messageHandler`, on the publisher too.

In Nim `PublishChunk` is one turn of the loop with the node's own handler, which
nim-libp2p runs inside `publish`; `Finish` tests `res`, the result of the last
turn only. `Crash` is a request too small for the header.

### PeerDialer

The three nodes share one algorithm, so one module has it with `lang` for their
differences: which targets are refused (`Start`), when a lookup is given up
(`GivesUp`), where the dial loop stops (`Enough`), what counts as a connection
(`MayCount`) and what becomes of a node without one (`EndsAlone`). `inShadow`
chooses between drawn host names and the service's name. The node is alone with
a name service (`known`) and peers (`up`) that change at any time; nothing else
of the other nodes matters to it.

### KeepalivePing and RegressionNode

`loop` is where `pingLoop` is: in its first sleep (`stagger`), between batches
(`sweep`), waiting for one (`batch`), in the sleep after a sweep (`interval`).
`todo` is the rest of the snapshot (a set: the order of the table's keys is any),
`task[p]` the stage of the ping of `p`. `Tick` passes a unit of time when nothing
is due. A stage ends, well or not, within `Slowest` units or its own timeout; a
peer of `Prompt` always answers. A stream's dial opens a connection that is gone,
which is why `DialStream` may add to `conn`.

`RegressionNode` adds `main`, from `start` through the publish endpoint, the
stagger, the look-ups and dials of the bootstraps, the seeding and five seconds
to `run`, where the loop is spawned. All that happens besides `main` (peers that
connect, close or send, publications, signals, an endpoint that could not be
bound) may happen at any place of it. A message, received or the node's own, sets
`messagesStarted`, even before there is a loop. At `Settle` the results of the
start-up are cleared, being unused from there on.

### RustMetrics

`phase` is where `main` is: before the connection window, in it, in the loop.
`net` counts the peers the swarm is connected to, those GossipSub knows, those
subscribed and those in the mesh; `pending` the events GossipSub has queued for `main`. Handling an event, a
publish command or a health tick puts the writes it causes in `todo`, in the
order of the code, and `Write` does one of them. `main` does not poll the swarm
between them (no await is on the way), so `net` stands still; a scraper does
not: it reads one metric of the registry at a time (`ReadMetric`), in the order
of registration, between any two writes. `metric` has the lines that exist: a
family has none for the topic before its first write. In the code the line comes
into being with the value zero just before it; the two are one step here, and no
property tells such a zero from the line's absence.

A page is that of `/metrics`, or in Shadow the snapshot of `store_metrics`:
readers do not touch one another, so one is enough. Encoding, opening or writing
may fail, which costs that page (`EndPage`). The metrics are atomics and taken to
be seen in the order they are written. `Watched` leaves out metrics whose lines no
property compares.

### ConnPeer

`mode` is the peer's strategy, or `hub`. Peers and hubs dial with
`resolveAndConnect`: a call is a dial with what is left of its timeout, or a
sleep with what is left of its back-off, and `tasks[h]` is the bag of the calls
under way for hub `h` (`Add`, `Remove` and the number of its `Copies`), since the
aggressive peer starts one every second whatever is still running. `main`, `next` and `timer` are the loop of `runPeer`. A name
that does not resolve fails at once, as a hub that refuses. Hubs answer, refuse
or keep silent and may trim a connection at any time; those are the environment's
steps. A peer told not to dial, and a hub after its calls, only sleep. When a
cycling peer disconnects, every connection closes: the `except` of
`main.nim:137-140`, which would leave one open until the next cycle, is not
modelled. Each address is a hub of its own (`env.nim:74-79` does not enforce it),
so the count of outgoing connections the aggressive peer compares is whether it
has one to each.

The GossipSub libraries, the tokio primitives and the clock are external: they
are modelled from how this code uses them, and `PROJECT.json` marks them so.

## 3. What is checked

`CHECK_DEADLOCK` is off in the gossip, dialler, metrics and regression runs: those
systems stop when their finite publications are delivered, their names tried, or
their process gone. `PublishBridge` has a `Quiescent` step for its legal ends and
time always passes in `ConnPeer`, so their runs do check deadlock.

| Run | Instance | Shows |
|---|---|---|
| `bridge` | 3 requests, 2 fragments, channel of 1, sizes 14, 20, 22 | `TypeOK`, `LockConsistent`, `Custody`, `AnswerTellsOutcome`, `CounterLag`; `FirstInFirstOut`: the bridge implements `FifoService`; `PublishesAtOnce`: a publication is one step of `RustGossip`; `EveryRequestEnds` |
| `bridge_counter` | the same | **violated**: `CountsPublishedMessages` |
| `rust_gossip` | 2 nodes, a message with a stamp of its own and two that may collide, 2 fragments, 1 loss | `TypeOK`, `CountsAreExact`, `ReportsAreWhole`; `MeasuresOnce`: implements `FragmentBroadcast`; `WholeIsReported` |
| `go_gossip` | 3 nodes, 1 message, 2 fragments, 1 loss | `TypeOK`, `ReportsAreWhole`, `MeasuresOnce`, `PublisherMeasuresItself` |
| `go_gossip_fragments` | 2 nodes, 1 message | **violated**: `FragmentsDiffer` |
| `nim_gossip` | 3 nodes, one of them triggering itself, 2 messages, 1 loss | `TypeOK`, `ReportsAreWhole`, `MeasuresOnce`, `WholeIsReported` |
| `nim_gossip_failures` | 2 nodes, 1 message | **violated**: `FailuresCounted` |
| `dialer` | a network of 4, targets 0, 1, 2 and 4, 2 attempts | `TypeOK`, `DialsToTarget`, `ServesConnected`, `SetupEnds` |
| `regression` | 2 peers in batches of one, one of which may not answer, 2 look-ups, 2 dials per address, unit 2 s, stages of at most 2 s | `TypeOK`, `KeepsAlive`, `InFlightBounded`, `SeedsAreReached`, `QuietAfterMessages`, `PhasesEnd` |
| `keepalive_slow` | the same with stages of up to 4 s | **violated**: `KeepsAlive` |
| `rust_metrics` | 2 peers, a low-water mark of 2, 2 inputs, 4 watched lines | `TypeOK`, `SubscriptionsBalance`, `GaugesFit`, `PagesReadable`, `MetricsSettle` |
| `conn_peer` | 2 hubs, 2 attempts of 2 s, back-off 1 s, interval 3 s, 2 changes of the hubs | `TypeOK`, `CallsBounded`, `AgeBounded`, `HubsRegained` |

### Bounds

* Three requests put one in the loop, one in a channel of one place, and one at
  the mutex, or one in the loop and two at the mutex; every pair of awaits
  occurs together. The sizes give buffers of 7, 10 and 11 bytes: too short,
  without an index, with one.
* Two fragments are the least for which a message can be partly out.
  In the bridge `MaxClock` bounds the times the clock shows: with two, publications
  of equal size may have the same stamp, and so the same ids, or not. Only the
  equality of two times matters, so no time is skipped. In `rust_gossip`
  two times are enough for two messages to share one and a third to have its
  own.
* Two nodes give a publisher and a receiver; three let a fragment come to a node
  through another one (needed in Go, where it may come back to the publisher).
* `MaxLost` bounds the lost fragments: one is enough to keep a message from
  being whole.
* A network of four gives a target of 1 fewer names in Shadow than there are
  peers, a target of 2 all of them, and the service one address more than there
  are peers, the node's own; a target of 4 is too large and one of 0 makes Rust
  and Go dial one peer and Nim none, so that a Nim node told to dial nobody ends
  without having tried (`ServesConnected` excepts it). Two attempts stand for
  Go's five: a first failure that is retried and a last one.
* Two peers against a low-water mark of two give a mesh without peers, with few,
  and with enough. One move of the network can change all its numbers, so two
  inputs are a change before and one after a tick, a subscription and its end
  across the window, or a message beside a change. The watched lines are the
  pairs `PagesReadable` compares.
* Two hubs are the least for which one hub's silence delays the other. Two
  attempts of two seconds and a maximal back-off that the second attempt
  reaches stand for ten of ten seconds; the bounds of `CallsBounded` and
  `AgeBounded` are computed from those constants, and the run attains both.
  Two changes let a hub fall silent after it was connected and answer again.
* The ping runs have the code's own times in units of 2 s: interval 12 s, dial and
  ping 4 s, close 2 s, quic's idle timeout 30 s. The gap of 200 ms between
  batches is less than a unit and dropped: the worst case the run admits is
  28 s of silence, and two gaps more stay below 30 s. Two batches are the least
  for which the place of a peer in a sweep matters. TLC affords batches of one
  only, and these are a little kinder than those of 16: alone in its batch, a
  peer never waits for others after it was heard. What larger and more batches
  do is in the theorem `PingsKeepAlive` (section 4).

Assumptions stated as constants or guards: GossipSub's duplicate cache outlives
a message; the messages of `Distinct` share their nanosecond with no other (the
others mix their counts, which `CountsAreExact` describes); in `GoGossip` all
messages have stamps of their own and stand for them; Nim's 63-bit ids are
distinct; all nodes have the same `FRAGMENTS`, at most 256.

### Fairness

`PublishBridge`: weak fairness of the swarm task (`LoopStep`) and of each handler
once it has the mutex (`HandlerStep`: `Send`, `SendFails`, `Answer`). Tokio polls a task that has been woken, and
`select!` picks at random among its ready branches, so a ready command is taken
(with probability one, here: eventually). Nothing obliges clients to ask or to
leave, nor the clock to move. Weak fairness of `Send` is enough for a strong
reason: the permit is handed on in order, so no later sender can steal the place
in the channel.

`PeerDialer`: weak fairness of the node's own steps. A lookup and a dial end one
way or the other; that the name service ever answers is the premise of
`SetupEnds`, needed only where the code retries without bound.

`RegressionNode`: weak fairness of main, of the ping loop, of each ping (its
stages have timeouts) and of time. Nothing obliges a peer to answer.

`RustMetrics`: weak fairness of `main`'s own writes, strong fairness of the
branches of `select!`, which picks at random among those that are ready, each
shutting the others out while it runs. Nothing obliges network or scraper; the
bound on inputs is what makes the network quiet in the end, without which no
gauge could settle.

`ConnPeer`: weak fairness of the peer's loop, of each call (a dial has a timeout)
and of time. Nothing obliges a hub: that it answers from some time on is the
premise of `HubsRegained`.

The gossip modules: weak fairness of what the node's scheduler runs and of the
delivery of each fragment that is not lost; nothing obliges a node to publish or
a fragment to be lost. In `RustGossip` main leaves its sleep and its window, but
nothing obliges it to reach the loop: it may end instead.

### Findings

* `libp2p_pubsub_messages_published` is "published messages", yet counts
  commands that published nothing (`main.rs:515`).
* Go's fragments share one slice that is overwritten while it may still have to
  be sent, so a peer can get one fragment twice and another never
  (`main.go:74`).
* Nim counts a message as failed, and answers an error, by its last fragment
  only (`main.nim:184, 192`).
* A sweep of keepalive pings is not "a few seconds" long when a peer is slow: two
  batches that each wait for one keep another peer's connection silent beyond
  quic's idle timeout (`ping_utils.nim:104`).

Met on the way, without a run of their own:

* Rust and Go go on dialling until they have one connection more than
  `CONNECTTO`, the "target number of peers to dial" of both READMEs
  (`main.rs:337`, `main.go:319`); Nim stops at the target. `DialsToTarget` states
  what holds.
* Cycling keeps a peer "perpetually within the grace window on every hub"
  (`connmanager/main.nim:130-131`) only while all hubs answer: the calls for a
  hub that does not are awaited before the sleep, up to ten dials of ten seconds
  with their back-offs, while the connections to the others age. `AgeBounded`
  states both bounds.
* Rust's fragments of at most 10 bytes are equal, where the comment at
  `main.rs:117` says that fragments differ by one byte, so all but the first are
  refused as duplicates and the client is told so (`AnswerTellsOutcome` and
  `ReportsAreWhole` cover the consequence).

## 4. What is proved

Every invariant the runs check, the action property `QuietAfterMessages` and
the refinements (of both abstract specifications, and of `RustGossip`'s publication
by the bridge), for every value of the
constants the `...Assumption` of each module allows: any number of nodes, peers,
hubs, requests and messages, any sizes, fragments, capacities, attempts, batches
and times. The assumptions say of a constant what its type in the code says (a
natural number, a positive one, a set of peers); those that say more are
`Sizes` of at least 8 bytes in the gossip modules (less panics, which
`PublishBridge` covers), the finiteness of the set of requests or peers, and in
`ConnPeer` hub addresses that differ.

In each `...Proofs` module `IInv` is the inductive invariant, one lemma per
action (or per group of actions that touch the same state) shows that it is
preserved, and `Invariance` is `Spec => []IInv`; the theorems named below follow
from it.

**PublishBridge.** `IInv` adds to the checked invariants

* `PlaceInv`: where the request of each handler state can be (a `waiting`
  handler's command is in the channel, in the loop's hands, or was taken; one
  that has not sent is in neither);
* `OrderInv`: tickets are given out in order, differ, and ascend along the
  channel, the mutex and its queue, and whoever is taken had a smaller ticket
  than all who still stand in line;
* `LoopInv`: what `current`, `chunk`, `failed` and `sent` are at each place of
  the loop;
* `OutcomeInv`: what each content of a oneshot says of the fragments sent;
* `CountInv`: the commands taken are as many as `counter`, plus one while the
  loop has one in its hands.

From it: `LockNeverLost`, `CommandsInCustody`, `PublishedInOrder`,
`AnswersAreTrue`, `CounterKeepsUp` and `TypeCorrect`. (`PublishedInOrder`, that is
`NoOvertaking`, says of the bridge's own state what `FirstInFirstOut` implies; the
run leaves it to the latter.) `Serves` is the refinement,
`Spec => FirstInFirstOut`. It cuts the line at the mutex into `LoopPart` and
`MutexPart`, which have no request in common (`LineInv`), and tells the fate of a
request by its place (`Standing`) instead of by the line. Then each action is a
step of the service at one end of one part: `Arrive` appends, a last or refused
fragment resolves the head, `Panic` crashes with exactly the loop's part,
`Disconnect` at the mutex removes one from the middle; `Send` and `Receive` move
a request from one end to the next and are no step at all. One more invariant
was needed, `AnswerInv`: only a request whose command was sent ever has an
outcome, so one that leaves the mutex, even after a panic, was withdrawn and not
failed.

`PublishesWhole`, `Spec => PublishesAtOnce`, and `StepsOfGossip`, which adds that
the step is one of `RustGossip`'s next-state relation, join the two Rust models:
`RustGossip` may publish in one step what the loop publishes fragment by fragment,
because no step in between can be told apart from it.
`FragmentsInv` says why: the fragments out so far are in the cache, were not there
before, and differ from each other, so hiding them (`cache \ Underway`) gives the
cache before the publication, and the last or the refused fragment reveals exactly
a prefix that `Accepted` allows. Buffers of 10 bytes are the case that needs care:
all their fragments are equal, so the second is refused as a duplicate of the
first, and the prefix has one. Handlers touch no request the loop has taken
(`HandlersAside`), and a panic comes before the first fragment (`PanicAside`).

**RustGossip, GoGossip, NimGossip.** What has to be proved is that a count is the
number of different fragments, since the code keeps only the number. `IInv` says
that whatever a node knows was sent (`FragmentInv`), that the counters are
cardinalities of sets of fragments (`CountsAreExact` in Rust, `CountInv` in the
others), and, where no entry is ever removed, that a count stops at `Chunks` and
it is there that the message is reported (`ReportInv`). `QueueInv` in Go bounds
how often the shared payload waits for a peer. A lemma on cardinality (k chunks
make at most k fragments, so `Chunks` of them are all) gives
`ReportsWholeMessages`. `Measures` is the refinement of `FragmentBroadcast`, by
the same lemma: a delivery that completes a message is its `Report`, any other is
a stutter. The theorems hold with losses in any number.

**PeerDialer.** `DialInv`: what was found is what was dialled and what is still to
dial, without overlap, and a connection was dialled. From it `DialsAsTold` and
`ServesForAReason`, for all three languages at once.

**RustMetrics.** The gauges fit only between two ticks, and the counters balance
only between two events, so `WorkInv` lists what `todo` can hold and, for each
write of an event or a tick that is still to come, how far the registers are from
fitting (`Balance`, `Ahead`, `Ticking`). `PageInv` says how old the lines of a
page under way may be. From these `SubscriptionsAddUp`, `GaugesAgree` and
`PagesStayReadable`, for every number of peers and inputs and every low-water
mark.

**RegressionNode with KeepalivePing.** `JoinInv` follows the bootstrap: each
address not answered has failed as often as the attempt says or was given up
after its last (`JoinsWithAllItReached`). `BatchesBound` needs only that a batch
is begun when the last has ended; `MessagesSilence` is an action property.

`PingsKeepAlive` says when `KeepsAlive` holds. Let every stage of a ping of any
peer (dial, ping, close) end within its time, `Stages` be the three together,
n the number of batches all peers fill, and

    Silence(n) = Stages + (n-1)(Stages + BatchGap)          rest of the peer's batch and the others
               + PingInterval
               + (n-1)(Stages + BatchGap) + Dialling        the others first, then its own dial

If `Silence(n) < IdleTimeout` no connection to a peer that answers is closed for
silence while the loop runs. `HeardInv` is a potential argument: at any time
there is a number of batches left and a bound on the present one such that what
has passed since a peer was heard and the longest it can still take (`Until`)
stay within `Silence(n)`; a lemma per kind of step shows that time takes from
one what it adds to the other. With the times of the code, and stages of at most
s seconds, `Silence(n)` is (6n - 2)s + 12 + 0.4(n - 1) seconds against quic's 30.
Two batches are safe if s < 1.76; the 16 batches of the 250 peers the comment in
`ping_utils.nim` speaks of are safe if s < 0.127. Batches of more than one need
the first `Stages`, and so does the hypothesis; the instance TLC checks, two
batches of one and s = 2, is just outside it (32 s) and holds because a peer
alone in its batch waits for nobody.

**ConnPeer.** The two bounds rest on how long a call can take, `Lifetime`, the sum
of what all attempts may take, and `Backoff`, a power of two up to a maximum.
Both are recursive functions. That such a function exists, and what holds of all
its values, takes an induction; the library's theorem has an operator as
parameter, so `Induction` is proved here for a set, from the well-foundedness of
`<`, and from it `Recursion`: there is a function that starts from a value and
goes on by a given step. Then `BackoffDoubles` shows that the power of two is the
recurrence of the code (twice the last, or the maximum), and `LifetimeInCode` that
with the times of the code `Lifetime` is 281 seconds.

`Remaining(c)` is the longest the call `c` can still take. No step of a call lets
it grow, a new call has `Lifetime`, and a second takes one from each (`FailShortens`,
`RetryShortens`, `TimeShortens`). `IInv` says, besides where the loop of each kind
of node can be and whose calls are under way (`MainInv`, `CallInv`),

* `LoadInv`: the aggressive peer has at most `Lifetime - k` calls per hub, and
  `timer` (the second it has used), that can still take `k` seconds, for every
  `k`. A second takes from both sides: what can take `k` afterwards could take
  `k + 1` before (`LaterCount`, by an injection on the copies of a bag). With
  `k = 0` this is `CallsStayBounded`: 282 calls per hub with the code's times;
* `AgeInv`: while a cycling peer is at place `next`, the connection to the hub at
  place `i < next` is no older than a `Lifetime` for each hub in between and what
  the call under way has used, `Lifetime - Remaining(c)`; in the sleep, no older
  than that and what has passed of the interval. From it the second half of
  `AgesStayBounded`: 281 s for each other hub, with the code's times;
* `QuietInv`: while no hub has changed, every call of a cycling peer is new, since
  none fails, and time passes in its sleep only. From it the first half.

**Only model-checked, and why.** Liveness (`EveryRequestEnds`, `WholeIsReported`,
`PublisherMeasuresItself`, `SetupEnds`, `PhasesEnd`, `MetricsSettle`,
`HubsRegained`): the prover does not do fairness or ENABLED. Each has its bounds
and its fairness in section 3.

## 5. Plan

The model covers what the repository's own code decides, and every safety
property a run checks is also a theorem. What could still be added are the Go
tracer and the two Kademlia nodes, once the behaviour of the libraries they wait
for is written down (section 6).

## 6. What is not modelled, and why

Argument parsing, JSON, multiaddresses, log lines and metric registration beyond
its order carry no state the properties speak of. The libraries (GossipSub
meshes, Kademlia, muxers, transports, connection-manager watermarks) are other
projects; only what they do to this code is modelled.

* The Go tracer: its callbacks come from one goroutine of go-libp2p-pubsub, and
  each recomputes its gauges under one lock. Whether they then describe the mesh
  depends on when that library calls `Graft`, `Prune` and `Leave`.
* The kad-dht and service-discovery nodes: a bootstrap dial like that of
  `RegressionNode`, then sequential loops of library look-ups whose results are
  logged.
* `topogen.py` writes files from its arguments in one pass; `run.sh` runs
  commands; the awk summaries are one-pass text reports. Dockerfiles, CI and the
  lsquic patch are not part of the program.

Outside `KeepalivePing`, `RegressionNode` and `ConnPeer` timings are modelled only as order: a sleep is a place to be, a timeout an outcome that may happen.
