----------------------------- MODULE PeerDialer -----------------------------
(***************************************************************************)
(* How a node finds its peers: connect_gossipsub_peers of the Rust node,   *)
(* connectToPeers of the Go node and connectGossipsubPeers of the Nim      *)
(* gossipsub-queues node, which are one algorithm in three hands.  In      *)
(* Shadow a node draws twice as many host names as it wants peers; outside *)
(* it asks the name service for one name, which stands for all pods.  It   *)
(* looks the names up, dials the addresses in random order up to its       *)
(* target, and then serves /publish, or ends.                              *)
(*                                                                         *)
(* One node is modelled; name service and peers change as they like.       *)
(***************************************************************************)
EXTENDS Naturals, FiniteSets

CONSTANTS
  Peer,       \* the other nodes
  Self,       \* this node, whose own address the service may return
  Service,    \* the name of the service
  Targets,    \* values of CONNECTTO
  Attempts    \* maxRetries of the Go node, 5 in the code

ASSUME DialerAssumption ==
  /\ IsFiniteSet(Peer)
  /\ Self \notin Peer
  /\ Service \notin Peer
  /\ Targets \subseteq Nat
  /\ Attempts \in Nat \ {0}

VARIABLES
  lang,       \* which of the three nodes this is
  inShadow,   \* SHADOWENV is "true"
  target,     \* CONNECTTO
  phase,      \* where main is
  names,      \* names still to look up
  misses,     \* failed lookups of the current name
  addrs,      \* addresses still to dial
  connected,  \* dials counted as connections
  dialled,    \* history: addresses dialled
  found,      \* history: addresses the lookups returned
  known,      \* names the name service resolves now
  up          \* peers that complete a connection now

config  == <<lang, inShadow, target>>
nodeVars == <<phase, names, misses, addrs, connected, dialled, found>>
vars == <<config, nodeVars, known, up>>

-----------------------------------------------------------------------------

\* PEERS, which a deployment sets to the number of its nodes.
NetworkSize == Cardinality(Peer) + 1
Done == phase \in {"serving", "ended"}

TypeOK ==
  /\ lang \in {"rust", "go", "nim"}
  /\ inShadow \in BOOLEAN
  /\ target \in Targets
  /\ phase \in {"starting", "waiting", "resolving", "dialling", "window", "serving", "ended"}
  /\ names \subseteq Peer \cup {Service}
  /\ misses \in 0..(Attempts - 1)
  /\ addrs \subseteq Peer \cup {Self}
  /\ connected \in 0..(NetworkSize)
  /\ dialled \subseteq Peer \cup {Self}
  /\ found \subseteq Peer \cup {Self}
  /\ known \subseteq Peer \cup {Service}
  /\ up \subseteq Peer

Init ==
  /\ lang \in {"rust", "go", "nim"}
  /\ inShadow \in BOOLEAN
  /\ target \in Targets
  /\ phase = "starting"
  /\ names = {}
  /\ misses = 0
  /\ addrs = {}
  /\ connected = 0
  /\ dialled = {}
  /\ found = {}
  /\ known = {}
  /\ up = {}

-----------------------------------------------------------------------------
(* Starting and looking up.                                                *)

\* Rust and Nim refuse a target that the network is too small for.
Refused == lang # "go" /\ target >= NetworkSize

\* The environment is read.
Start ==
  /\ phase = "starting"
  /\ phase' = IF Refused THEN "ended" ELSE "waiting"
  /\ UNCHANGED <<config, names, misses, addrs, connected, dialled, found, known, up>>

\* The names to look up, after the sleep that lets the others start.
BeginResolving(S) ==
  /\ phase = "waiting"
  /\ IF inShadow
     THEN /\ S \subseteq Peer
          /\ Cardinality(S) = IF 2 * target < Cardinality(Peer) THEN 2 * target
                                                                ELSE Cardinality(Peer)
     ELSE S = {Service}
  /\ names' = S
  /\ phase' = "resolving"
  /\ UNCHANGED <<config, misses, addrs, connected, dialled, found, known, up>>

\* resolve_address gives a name up at its first failure in Shadow; elsewhere
\* Rust and Nim try for ever and Go a number of times.
GivesUpElsewhere == lang = "go" /\ misses + 1 = Attempts         \* wrong: Shadow forgotten
GivesUpLate == inShadow \/ (lang = "go" /\ misses = Attempts)    \* wrong: one attempt more
GivesUp == inShadow \/ (lang = "go" /\ misses + 1 = Attempts)

LookupFails(a) ==
  /\ phase = "resolving"
  /\ a \in names \ known
  /\ IF GivesUp
     THEN names' = names \ {a} /\ misses' = 0
     ELSE UNCHANGED names /\ misses' = IF lang = "go" THEN misses + 1 ELSE misses
  /\ UNCHANGED <<config, phase, addrs, connected, dialled, found, known, up>>

\* A host name has one address.  The service has those of some pods, this one
\* perhaps among them; Rust keeps the IPv4 ones, Go those with a host name, so
\* that nothing may be left.
LookupAnswers(a, S) ==
  /\ phase = "resolving"
  /\ a \in names \cap known
  /\ IF a = Service THEN lang = "nim" => S # {} ELSE S = {a}
  /\ names' = names \ {a}
  /\ misses' = 0
  /\ addrs' = addrs \cup S
  /\ found' = found \cup S
  /\ UNCHANGED <<config, phase, connected, dialled, known, up>>

BeginDialling ==
  /\ phase = "resolving"
  /\ names = {}
  /\ phase' = "dialling"
  /\ UNCHANGED <<config, names, misses, addrs, connected, dialled, found, known, up>>

-----------------------------------------------------------------------------
(* Dialling.                                                               *)

\* The test at the head of the dial loop.
EnoughEarly == connected + 1 >= target             \* wrong: one short
Enough == IF lang = "nim" THEN connected >= target ELSE connected > target

\* Whether a dial may be counted: Rust counts it when the swarm accepts it,
\* the others when the peer has answered.  Whether a dial of itself is an
\* error to nim-libp2p is left open; it is one to go-libp2p.
MayCount(p) ==
  \/ lang = "rust"
  \/ lang = "nim" /\ p \in up \cup {Self}
  \/ lang = "go" /\ p \in up

\* One turn of the loop.  A dial that might have counted may also fail: a
\* refused dial in Rust, a timeout of 5 seconds in the others.
Dial(p, counts) ==
  /\ phase = "dialling"
  /\ ~Enough
  /\ p \in addrs
  /\ counts => MayCount(p)
  /\ addrs' = addrs \ {p}
  /\ dialled' = dialled \cup {p}
  /\ connected' = IF counts THEN connected + 1 ELSE connected
  /\ UNCHANGED <<config, phase, names, misses, found, known, up>>

\* A node without a connection ends, except in Go.
EndsAloneNever == FALSE                            \* wrong: the error is ignored
EndsAlone == lang # "go" /\ connected = 0

\* The loop is over.  Rust polls its swarm for 20 seconds before it decides.
StopDialling ==
  /\ phase = "dialling"
  /\ Enough \/ addrs = {}
  /\ phase' = IF lang = "rust" THEN "window" ELSE IF EndsAlone THEN "ended" ELSE "serving"
  /\ UNCHANGED <<config, names, misses, addrs, connected, dialled, found, known, up>>

EndWindow ==
  /\ phase = "window"
  /\ phase' = IF EndsAlone THEN "ended" ELSE "serving"
  /\ UNCHANGED <<config, names, misses, addrs, connected, dialled, found, known, up>>

-----------------------------------------------------------------------------
(* The surroundings, which matter until the node is set up.                *)

NamesChange ==
  /\ ~Done
  /\ \E a \in IF inShadow THEN Peer ELSE {Service} :
       known' = IF a \in known THEN known \ {a} ELSE known \cup {a}
  /\ UNCHANGED <<config, nodeVars, up>>

PeersChange ==
  /\ ~Done
  /\ \E p \in Peer : up' = IF p \in up THEN up \ {p} ELSE up \cup {p}
  /\ UNCHANGED <<config, nodeVars, known>>

Next ==
  \/ Start
  \/ \E S \in SUBSET Peer \cup {{Service}} : BeginResolving(S)
  \/ \E a \in names : LookupFails(a)
  \/ \E a \in names, S \in SUBSET (Peer \cup {Self}) : LookupAnswers(a, S)
  \/ BeginDialling
  \/ \E p \in addrs, counts \in BOOLEAN : Dial(p, counts)
  \/ StopDialling
  \/ EndWindow
  \/ NamesChange
  \/ PeersChange

Spec == Init /\ [][Next]_vars

\* A lookup ends one way or the other.
Lookup ==
  \E a \in names :
    LookupFails(a) \/ \E S \in SUBSET (Peer \cup {Self}) : LookupAnswers(a, S)

\* The node's own steps happen; nothing obliges the surroundings.
Fairness ==
  /\ WF_vars(Start)
  /\ WF_vars(\E S \in SUBSET Peer \cup {{Service}} : BeginResolving(S))
  /\ WF_vars(Lookup)
  /\ WF_vars(BeginDialling)
  /\ WF_vars(\E p \in addrs, counts \in BOOLEAN : Dial(p, counts))
  /\ WF_vars(StopDialling)
  /\ WF_vars(EndWindow)

FairSpec == Spec /\ Fairness

-----------------------------------------------------------------------------

\* However lookups and dials go, a node neither overshoots nor falls short of
\* its own accord: it counts at most one connection more than its target, the
\* Nim node none (main.rs:337, main.go:319, main.nim:421), and when it has fewer
\* it has dialled all that its lookups returned.
DialsToTarget ==
  /\ connected <= target + IF lang = "nim" THEN 0 ELSE 1
  /\ phase \in {"window", "serving", "ended"} /\ connected < target => dialled = found

\* A Rust or Nim node serves only when it counted a connection, though it
\* skips every lookup and every dial that fails, and ends for want of one only
\* after it has dialled all it found (main.rs:380, main.nim:500).  A Nim node
\* told to dial none dials none.
ServesConnected ==
  /\ phase = "serving" /\ lang # "go" => connected > 0
  /\ phase = "ended" /\ target \in 1..(NetworkSize - 1) => dialled = found /\ connected = 0

\* A node gets through its set-up, if only the lookups it repeats without
\* bound find an answer in the end (main.rs:277-298, main.nim:375-389).
SetupEnds ==
  <>[](inShadow \/ lang = "go" \/ Service \in known) => <>Done
=============================================================================
