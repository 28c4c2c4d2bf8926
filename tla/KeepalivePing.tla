--------------------------- MODULE KeepalivePing ----------------------------
(***************************************************************************)
(* The keepalive ping of the Nim regression node (regression/ping_utils).  *)
(* quic closes a connection on which nothing arrives for IdleTimeout, so   *)
(* until messages flow the node pings every peer it is connected to: it    *)
(* takes a snapshot of them, goes through it in batches, waits, and starts *)
(* again.  A ping is three awaits, each with its own timeout: dial a       *)
(* stream, ping, close.                                                    *)
(*                                                                         *)
(* Time is counted in units, with maximal progress: it passes only when    *)
(* nothing is due.  The switch, quic and the peers are external.           *)
(***************************************************************************)
EXTENDS Naturals, FiniteSets

CONSTANTS
  Peer,
  Booked,       \* the peers the address book has addresses for
  Prompt,       \* the peers that answer every stage of a ping
  Slowest,      \* units of time within which a stage succeeds or fails
  PingInterval, PingBatch, BatchGap, DialTimeout, PingTimeout, CloseTimeout,
  IdleTimeout   \* of quic

ASSUME PingAssumption ==
  /\ IsFiniteSet(Peer)
  /\ Booked \subseteq Peer
  /\ Prompt \subseteq Peer
  /\ PingBatch \in Nat \ {0}
  /\ {Slowest, PingInterval, BatchGap, DialTimeout, PingTimeout, CloseTimeout,
      IdleTimeout} \subseteq Nat

VARIABLES
  messagesStarted, \* a message has been received: no more pings
  conn,       \* the peers a connection is open to
  idle,       \* units of time since something arrived from each
  loop,       \* where pingLoop is
  timer,      \* units of time it has to sleep
  todo,       \* peers of the snapshot it has yet to ping
  task,       \* stage of each pingPeer that runs
  left,       \* units of time that stage may still take
  age         \* history: units of time pingLoop has run, up to IdleTimeout

pingVars == <<messagesStarted, conn, idle, loop, timer, todo, task, left, age>>
linkVars == <<conn, idle>>
loopVars == <<loop, timer, todo, age>>
taskVars == <<task, left>>

-----------------------------------------------------------------------------

Active == loop \in {"stagger", "sweep", "batch", "interval"}
Busy == {p \in Peer : task[p] # "none"}
Earlier(s, t) == IF s < t THEN s ELSE t

PingTypeOK ==
  /\ messagesStarted \in BOOLEAN
  /\ conn \subseteq Peer
  /\ idle \in [Peer -> 0..IdleTimeout]
  /\ loop \in {"off", "stagger", "sweep", "batch", "interval", "stopped"}
  /\ timer \in Nat
  /\ todo \subseteq Peer
  /\ task \in [Peer -> {"none", "dial", "ping", "close"}]
  /\ left \in [Peer -> Nat]
  /\ age \in 0..IdleTimeout

PingInit ==
  /\ messagesStarted = FALSE
  /\ conn = {}
  /\ idle = [p \in Peer |-> 0]
  /\ loop = "off"
  /\ timer = 0
  /\ todo = {}
  /\ task = [p \in Peer |-> "none"]
  /\ left = [p \in Peer |-> 0]
  /\ age = 0

-----------------------------------------------------------------------------
(* Connections.                                                            *)

\* Something arrives from p, perhaps its connection.
Hear(p) ==
  /\ conn' = conn \cup {p}
  /\ idle' = [idle EXCEPT ![p] = 0]

Drop(p) ==
  /\ conn' = conn \ {p}
  /\ idle' = [idle EXCEPT ![p] = 0]

Connect(p) ==
  /\ p \notin conn
  /\ Hear(p)
  /\ UNCHANGED <<messagesStarted, loopVars, taskVars>>

Disconnect(p) ==
  /\ p \in conn
  /\ Drop(p)
  /\ UNCHANGED <<messagesStarted, loopVars, taskVars>>

IdleClose(p) ==
  /\ p \in conn
  /\ idle[p] = IdleTimeout
  /\ Drop(p)
  /\ UNCHANGED <<messagesStarted, loopVars, taskVars>>

\* The handler of the topic ignores warm-up messages; any other one stops
\* the pings.
Heed(warmup) == messagesStarted' = (messagesStarted \/ ~warmup)

HandleMessage(p, warmup) ==
  /\ p \in conn
  /\ Hear(p)
  /\ Heed(warmup)
  /\ UNCHANGED <<loopVars, taskVars>>

-----------------------------------------------------------------------------
(* pingLoop and pingAllOnce.                                               *)

\* The loop is spawned and sleeps a random part of the interval.
BeginLoop ==
  /\ loop' = "stagger"
  /\ timer' \in 0..PingInterval
  /\ age' = 0
  /\ UNCHANGED todo

StopAtFirst == loop = "stagger" /\ messagesStarted \* wrong: the flag is read once
Stop == messagesStarted

\* A sleep ends.  The snapshot is of all connections, in the mesh or not.
Wake ==
  /\ loop \in {"stagger", "interval"}
  /\ timer = 0
  /\ IF Stop
     THEN loop' = "stopped" /\ UNCHANGED todo
     ELSE loop' = "sweep" /\ todo' = conn
  /\ UNCHANGED <<messagesStarted, linkVars, timer, taskVars, age>>

\* What is left of the snapshot after a batch.
RestSkipsOne(B) ==                    \* wrong: the slice is one too long
  IF todo = B THEN {} ELSE todo \ (B \cup {CHOOSE p \in todo \ B : TRUE})
Rest(B) == todo \ B

\* The loop looks at the flag before every batch, not only before a sweep.
MoreUntilSwept == todo # {}           \* wrong: a sweep is always finished
More == todo # {} /\ ~messagesStarted

BatchSizeAll == Cardinality(todo)     \* wrong: all at once
BatchSize == Earlier(PingBatch, Cardinality(todo))

\* A batch is started; peers without an address are passed over.
StartBatch ==
  /\ loop = "sweep"
  /\ timer = 0
  /\ More
  /\ \E B \in SUBSET todo :
       /\ Cardinality(B) = BatchSize
       /\ todo' = Rest(B)
       /\ task' = [p \in Peer |-> IF p \in B \cap Booked THEN "dial" ELSE task[p]]
       /\ left' = [p \in Peer |-> IF p \in B \cap Booked
                                  THEN Earlier(Slowest, DialTimeout) ELSE left[p]]
  /\ loop' = "batch"
  /\ UNCHANGED <<messagesStarted, linkVars, timer, age>>

\* allFutures(futs) completes; there is a pause before another batch.
EndBatch ==
  /\ loop = "batch"
  /\ Busy = {}
  /\ loop' = "sweep"
  /\ timer' = IF todo = {} THEN 0 ELSE BatchGap
  /\ UNCHANGED <<messagesStarted, linkVars, todo, taskVars, age>>

EndSweep ==
  /\ loop = "sweep"
  /\ timer = 0
  /\ ~More
  /\ loop' = "interval"
  /\ timer' = PingInterval
  /\ todo' = {}
  /\ UNCHANGED <<messagesStarted, linkVars, taskVars, age>>

-----------------------------------------------------------------------------
(* pingPeer.                                                               *)

Begin(p, stage, timeout) ==
  /\ task' = [task EXCEPT ![p] = stage]
  /\ left' = [left EXCEPT ![p] = IF stage = "none" THEN 0 ELSE Earlier(Slowest, timeout)]

\* The dial of a stream also opens a connection that is gone meanwhile.
DialStream(p) ==
  /\ task[p] = "dial"
  /\ Hear(p)
  /\ Begin(p, "ping", PingTimeout)
  /\ UNCHANGED <<messagesStarted, loopVars>>

Pong(p) ==
  /\ task[p] = "ping"
  /\ p \in conn
  /\ Hear(p)
  /\ Begin(p, "close", CloseTimeout)
  /\ UNCHANGED <<messagesStarted, loopVars>>

Close(p) ==
  /\ task[p] = "close"
  /\ Begin(p, "none", 0)
  /\ UNCHANGED <<messagesStarted, linkVars, loopVars>>

\* An error or the timeout of a stage.  Without a stream, or with one that died
\* with its connection, there is nothing to close.
Fail(p) ==
  /\ task[p] # "none"
  /\ p \in Prompt => p \notin conn /\ task[p] # "dial"
  /\ IF task[p] = "ping" /\ p \in conn THEN Begin(p, "close", CloseTimeout) ELSE Begin(p, "none", 0)
  /\ UNCHANGED <<messagesStarted, linkVars, loopVars>>

-----------------------------------------------------------------------------

\* Nothing is due now.
Due ==
  \/ \E p \in conn : idle[p] = IdleTimeout
  \/ \E p \in Busy : left[p] = 0
  \/ Active /\ loop # "batch" /\ timer = 0
  \/ loop = "batch" /\ Busy = {}

\* A unit of time passes.
Tick ==
  /\ ~Due
  /\ idle' = [p \in Peer |-> IF p \in conn THEN idle[p] + 1 ELSE idle[p]]
  /\ timer' = IF timer > 0 THEN timer - 1 ELSE 0
  /\ left' = [p \in Peer |-> IF p \in Busy THEN left[p] - 1 ELSE left[p]]
  /\ age' = IF Active THEN Earlier(age + 1, IdleTimeout) ELSE age
  /\ UNCHANGED <<messagesStarted, conn, loop, todo, task>>

-----------------------------------------------------------------------------

\* A ping comes before silence does: while the loop runs and no message has
\* been received, no connection to a peer that answers is closed for silence,
\* be it new, in the middle of a sweep or at the end of one (ping_utils.nim:13,
\* 109-115).  Connections silent from before the loop ran are not its doing.
KeepsAlive ==
  Active /\ ~messagesStarted /\ age = IdleTimeout
    => \A p \in conn \cap Booked \cap Prompt : idle[p] < IdleTimeout

\* Never more dials in flight than a batch (ping_utils.nim:17), and none when
\* the loop sleeps between two sweeps.
InFlightBounded ==
  /\ Cardinality(Busy) <= PingBatch
  /\ Busy # {} => loop = "batch"

\* Once messages flow, no further ping is started, not even by a sweep under
\* way (ping_utils.nim:99).
QuietAfterMessages ==
  [][messagesStarted => \A p \in Peer : task'[p] = "dial" => task[p] = "dial"]_pingVars
=============================================================================
