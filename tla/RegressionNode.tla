--------------------------- MODULE RegressionNode ---------------------------
(***************************************************************************)
(* One process of the Nim regression node, from start to exit: it serves   *)
(* /publish first, then waits its turn, looks up the bootstrap service,    *)
(* dials what it finds, seeds its Kademlia table with those that answered, *)
(* and then keeps its connections alive with KeepalivePing.  The bootstrap *)
(* nodes, which only listen, are among its peers.                          *)
(*                                                                         *)
(* The sleeps of the start-up are places to be: each may take any time.    *)
(* GossipSub, Kademlia and the name service are external.                  *)
(***************************************************************************)
EXTENDS KeepalivePing, Sequences

CONSTANTS
  Lookups,        \* what a lookup of the service may yield: sequences of peers
  ResolveAttempts, \* 20 in the code
  DialAttempts,    \* 10 in the code
  SelfTrigger      \* SELFTRIGGER: the node's handler sees its own messages

ASSUME NodeAssumption ==
  /\ Lookups \subseteq Seq(Peer)
  /\ {ResolveAttempts, DialAttempts} \subseteq Nat \ {0}
  /\ SelfTrigger \in BOOLEAN

VARIABLES
  main,       \* where main is
  serving,    \* the publish endpoint is bound
  attempt,    \* failed attempts of the current lookup or dial
  addrs,      \* bootstrap addresses still to dial
  bootstraps, \* those that answered
  seeds,      \* what the Kademlia table was seeded with
  failures    \* history: dials that failed, per bootstrap, while joining

mainVars == <<main, serving, attempt, addrs, bootstraps, seeds, failures>>
vars == <<pingVars, mainVars>>

-----------------------------------------------------------------------------

Up == main # "exited"

TypeOK ==
  /\ PingTypeOK
  /\ main \in {"start", "jitter", "resolve", "dial", "seed", "settle", "run", "exited"}
  /\ serving \in BOOLEAN
  /\ attempt \in 0..((IF main = "resolve" THEN ResolveAttempts ELSE DialAttempts) - 1)
  /\ addrs \in Seq(Peer)
  /\ bootstraps \subseteq Peer
  /\ seeds \subseteq bootstraps
  /\ failures \in [Peer -> 0..DialAttempts]

Init ==
  /\ PingInit
  /\ main = "start"
  /\ serving = FALSE
  /\ attempt = 0
  /\ addrs = <<>>
  /\ bootstraps = {}
  /\ seeds = {}
  /\ failures = [p \in Peer |-> 0]

-----------------------------------------------------------------------------

\* The process ends, and with it its connections and tasks.
Exit ==
  /\ main' = "exited"
  /\ serving' = FALSE
  /\ conn' = {}
  /\ idle' = [p \in Peer |-> 0]
  /\ loop' = "off"
  /\ timer' = 0
  /\ todo' = {}
  /\ task' = [p \in Peer |-> "none"]
  /\ left' = [p \in Peer |-> 0]
  /\ age' = 0
  /\ attempt' = 0
  /\ UNCHANGED <<messagesStarted, addrs, bootstraps, seeds, failures>>

\* An unknown muxer ends main; else the node listens, and serves /publish
\* unless the port is taken, which nobody is told: the future that startHttpServer
\* returns is discarded.
Start(known, bound) ==
  /\ main = "start"
  /\ IF known
     THEN /\ main' = "jitter"
          /\ serving' = bound
          /\ UNCHANGED <<pingVars, attempt, addrs, bootstraps, seeds, failures>>
     ELSE Exit

EndJitter ==
  /\ main = "jitter"
  /\ main' = "resolve"
  /\ UNCHANGED <<pingVars, serving, attempt, addrs, bootstraps, seeds, failures>>

\* A lookup: an error and an empty answer both cost an attempt.
LastLookupLate == attempt = ResolveAttempts \* wrong: one lookup too many
LastLookup == attempt + 1 = ResolveAttempts

Resolve(found) ==
  /\ main = "resolve"
  /\ IF found # <<>>
     THEN /\ addrs' = found
          /\ attempt' = 0
          /\ main' = "dial"
          /\ UNCHANGED <<pingVars, serving, bootstraps, seeds, failures>>
     ELSE IF LastLookup
     THEN Exit
     ELSE /\ attempt' = attempt + 1
          /\ UNCHANGED <<pingVars, main, serving, addrs, bootstraps, seeds, failures>>

DialAnswered ==
  /\ main = "dial"
  /\ addrs # <<>>
  /\ Hear(Head(addrs))
  /\ bootstraps' = bootstraps \cup {Head(addrs)}
  /\ addrs' = Tail(addrs)
  /\ attempt' = 0
  /\ UNCHANGED <<messagesStarted, loopVars, taskVars, main, serving, seeds, failures>>

\* A refusal, an error or the timeout of a dial, then the back-off.
LastDialEarly == TRUE                 \* wrong: an address is dialled once
LastDial == attempt + 1 = DialAttempts

DialFailed ==
  /\ main = "dial"
  /\ addrs # <<>>
  /\ failures' = [failures EXCEPT ![Head(addrs)] = Earlier(@ + 1, DialAttempts)]
  /\ IF LastDial
     THEN addrs' = Tail(addrs) /\ attempt' = 0
     ELSE attempt' = attempt + 1 /\ UNCHANGED addrs
  /\ UNCHANGED <<pingVars, main, serving, bootstraps, seeds>>

\* All addresses tried: with no bootstrap connected, main returns.
DialsEnd ==
  /\ main = "dial"
  /\ addrs = <<>>
  /\ IF bootstraps = {}
     THEN Exit
     ELSE /\ main' = "seed"
          /\ UNCHANGED <<pingVars, serving, attempt, addrs, bootstraps, seeds, failures>>

\* updatePeers and one round of kad.bootstrap, whose own connections are
\* Connect steps.
Seed ==
  /\ main = "seed"
  /\ seeds' = bootstraps
  /\ main' = "settle"
  /\ UNCHANGED <<pingVars, serving, attempt, addrs, bootstraps, failures>>

\* After five seconds the ping loop is spawned and main waits for a signal;
\* what the start-up found is not used again.
Settle ==
  /\ main = "settle"
  /\ main' = "run"
  /\ BeginLoop
  /\ bootstraps' = {}
  /\ seeds' = {}
  /\ failures' = [p \in Peer |-> 0]
  /\ UNCHANGED <<messagesStarted, linkVars, taskVars, serving, attempt, addrs>>

\* SIGINT or SIGTERM.
Signal == Up /\ Exit

\* POST /publish, before or after the node has joined.  A buffer with no room
\* for the chunk number behind stamp and id is a Defect, which ends the
\* process; else the node's own handler sees the message.
Publish(short) ==
  /\ Up
  /\ serving
  /\ IF short
     THEN Exit
     ELSE /\ Heed(~SelfTrigger)
          /\ UNCHANGED <<linkVars, loopVars, taskVars, mainVars>>

-----------------------------------------------------------------------------

MainStep ==
  \/ \E known, bound \in BOOLEAN : Start(known, bound)
  \/ EndJitter
  \/ \E found \in Lookups : Resolve(found)
  \/ DialAnswered \/ DialFailed \/ DialsEnd
  \/ Seed \/ Settle

\* What the node does beside main, once it listens.
Beside(A) == main \notin {"start", "exited"} /\ A /\ UNCHANGED mainVars

PingLoopStep == Wake \/ StartBatch \/ EndBatch \/ EndSweep
PingPeerStep(p) == DialStream(p) \/ Pong(p) \/ Close(p) \/ Fail(p)

Next ==
  \/ MainStep
  \/ Signal
  \/ \E short \in BOOLEAN : Publish(short)
  \/ \E p \in Peer : Beside(Connect(p))
  \/ \E p \in Peer : Beside(Disconnect(p))
  \/ \E p \in Peer : Beside(IdleClose(p))
  \/ \E p \in Peer, warmup \in BOOLEAN : Beside(HandleMessage(p, warmup))
  \/ \E p \in Peer : Beside(PingPeerStep(p))
  \/ Beside(PingLoopStep)
  \/ Beside(Tick)

Spec == Init /\ [][Next]_vars

\* chronos runs what is ready and time passes.  Nothing obliges a peer to
\* connect, to send or to answer, nor anyone to publish or to signal.
Fairness ==
  /\ WF_vars(MainStep)
  /\ WF_vars(Beside(PingLoopStep))
  /\ WF_vars(Beside(Tick))
  /\ \A p \in Peer :
       /\ WF_vars(Beside(IdleClose(p)))
       /\ WF_vars(Beside(PingPeerStep(p)))

FairSpec == Spec /\ Fairness

-----------------------------------------------------------------------------

\* Kademlia is seeded with bootstraps that answered, and one that did not is
\* left out only after all its attempts: a node never starts with fewer
\* anchors than it could reach (kad_utils.nim:62-85).
SeedsAreReached ==
  main = "settle" =>
    /\ seeds = bootstraps
    /\ seeds # {}
    /\ \A p \in Peer \ seeds : failures[p] \in {0, DialAttempts}

\* Nothing a node begins goes on for ever.  The start-up ends, with the node
\* running or its process gone, whatever the name service and the bootstraps
\* do: both retries are bounded (kad_utils.nim:46, 64).  Once messages flow the
\* ping loop ends, from wherever it is: no task of a sweep holds it up, since
\* each of its awaits has a timeout (ping_utils.nim:118).
PhasesEnd ==
  /\ <>(main \in {"run", "exited"})
  /\ (messagesStarted /\ main = "run") ~> (loop = "stopped" \/ main = "exited")
=============================================================================
