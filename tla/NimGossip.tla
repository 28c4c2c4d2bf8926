----------------------------- MODULE NimGossip ------------------------------
(***************************************************************************)
(* A network of Nim nodes (nim-test-node/gossipsub-queues/main.nim).  One  *)
(* chronos event loop serves POST /publish and receives fragments; a       *)
(* publication awaits after each fragment, so other work may come between  *)
(* two of them.  Fragments are counted by the random 63-bit id they carry; *)
(* no two messages draw the same, so the message itself stands for it.     *)
(*                                                                         *)
(* nim-libp2p is external: publish runs the node's own handler (unless     *)
(* SELFTRIGGER is off), then returns the number of peers it sent to, 0 for *)
(* a message id it knows or when there are none.  It copies the buffer.    *)
(* Fragments arrive in any order, once per id, or are lost.                *)
(***************************************************************************)
EXTENDS Naturals, FiniteSets

CONSTANTS
  Node,
  Message,      \* publications, each made by one node
  Chunks,       \* chunks, the same on all nodes
  SelfTriggered, \* the nodes with SELFTRIGGER on
  MaxLost,      \* model bound on the fragments that are lost
  None

ASSUME NimAssumption ==
  /\ None \notin Node
  /\ Chunks \in Nat \ {0}
  /\ SelfTriggered \subseteq Node
  /\ MaxLost \in Nat

VARIABLES
  up,         \* nodes whose process runs
  pc,         \* where the publication of each message is
  origin,     \* the node that serves it
  tried,      \* how many of its fragments it has published, or tried to
  res,        \* the last publish reached a peer
  accepted,   \* which of its fragments gossipsub took
  requests,   \* dst_testnode_publish_requests_total
  failures,   \* dst_testnode_publish_failures_total
  cache,      \* fragments each node's gossipsub knows
  wire,       \* fragments on their way to each node
  lost,       \* number of fragments lost
  messagesChunks, \* fragments each node has counted per message
  completed,  \* dst_testnode_completed_messages_total
  handled,    \* history: fragments from the network each node has counted
  reports     \* history: latency lines printed per message

vars == <<up, pc, origin, tried, res, accepted, requests, failures, cache, wire, lost,
          messagesChunks, completed, handled, reports>>
handlerVars == <<messagesChunks, completed, reports>>

-----------------------------------------------------------------------------

\* A fragment as the network tells it from others: byte 16 wraps at 256.
Fragment(m, c) == [msg |-> m, mark |-> c % 256]
Fragments == [msg : Message, mark : 0..255]

TypeOK ==
  /\ up \subseteq Node
  /\ pc \in [Message -> {"idle", "publishing", "success", "error", "crashed"}]
  /\ origin \in [Message -> Node \cup {None}]
  /\ tried \in [Message -> 0..Chunks]
  /\ res \in [Message -> BOOLEAN]
  /\ accepted \in [Message -> SUBSET (0..(Chunks - 1))]
  /\ requests \in [Node -> Nat]
  /\ failures \in [Node -> Nat]
  /\ cache \in [Node -> SUBSET Fragments]
  /\ wire \in [Node -> SUBSET Fragments]
  /\ lost \in 0..MaxLost
  /\ messagesChunks \in [Node -> [Message -> Nat]]
  /\ completed \in [Node -> Nat]
  /\ handled \in [Node -> SUBSET Fragments]
  /\ reports \in [Node -> [Message -> Nat]]

\* Every node has connected and serves /publish.
Init ==
  /\ up = Node
  /\ pc = [m \in Message |-> "idle"]
  /\ origin = [m \in Message |-> None]
  /\ tried = [m \in Message |-> 0]
  /\ res = [m \in Message |-> FALSE]
  /\ accepted = [m \in Message |-> {}]
  /\ requests = [n \in Node |-> 0]
  /\ failures = [n \in Node |-> 0]
  /\ cache = [n \in Node |-> {}]
  /\ wire = [n \in Node |-> {}]
  /\ lost = 0
  /\ messagesChunks = [n \in Node |-> [m \in Message |-> 0]]
  /\ completed = [n \in Node |-> 0]
  /\ handled = [n \in Node |-> {}]
  /\ reports = [n \in Node |-> [m \in Message |-> 0]]

-----------------------------------------------------------------------------
(* createMessageHandler.                                                   *)

\* The test that a message is not complete yet.
IncompleteShort(count) == count + 1 < Chunks   \* wrong: one fragment short
IncompleteLate(count) == count <= Chunks       \* wrong: one fragment too many
Incomplete(count) == count < Chunks

\* Count a fragment of m at n; print and measure once the count is full.  The
\* entry stays.
Handle(n, m) ==
  /\ messagesChunks' = [messagesChunks EXCEPT ![n][m] = @ + 1]
  /\ \/ /\ Incomplete(messagesChunks'[n][m])
        /\ UNCHANGED <<completed, reports>>
     \/ /\ ~Incomplete(messagesChunks'[n][m])
        /\ completed' = [completed EXCEPT ![n] = @ + 1]
        /\ reports' = [reports EXCEPT ![n][m] = @ + 1]

-----------------------------------------------------------------------------
(* publishNewMessage.                                                      *)

\* A request is accepted: an id is drawn and the buffer made.
Ask(n, m) ==
  /\ n \in up
  /\ pc[m] = "idle"
  /\ pc' = [pc EXCEPT ![m] = "publishing"]
  /\ origin' = [origin EXCEPT ![m] = n]
  /\ requests' = [requests EXCEPT ![n] = @ + 1]
  /\ UNCHANGED <<up, tried, res, accepted, failures, cache, wire, lost, handlerVars, handled>>

\* A msgSize that leaves no byte 16 in the buffer: a Defect, which the handler
\* does not catch and which ends the process.
Crash(n, m) ==
  /\ n \in up
  /\ pc[m] = "idle"
  /\ up' = up \ {n}
  /\ pc' = [o \in Message |->
              IF o = m \/ (origin[o] = n /\ pc[o] = "publishing") THEN "crashed" ELSE pc[o]]
  /\ requests' = [requests EXCEPT ![n] = @ + 1]
  /\ wire' = [wire EXCEPT ![n] = {}]
  /\ UNCHANGED <<origin, tried, res, accepted, failures, cache, lost, handlerVars, handled>>

\* The fragments still to try.
MoreInclusive(m) == tried[m] <= Chunks   \* wrong: 0 .. chunks
More(m) == tried[m] < Chunks

\* One turn of the fragment loop: the node's own handler, then the network.
PublishChunk(m, reached) ==
  /\ pc[m] = "publishing"
  /\ More(m)
  /\ tried' = [tried EXCEPT ![m] = @ + 1]
  /\ IF origin[m] \in SelfTriggered THEN Handle(origin[m], m) ELSE UNCHANGED handlerVars
  /\ LET n == origin[m]
         f == Fragment(m, tried[m])
     IN  IF reached /\ f \notin cache[n]
         THEN /\ res' = [res EXCEPT ![m] = TRUE]
              /\ accepted' = [accepted EXCEPT ![m] = @ \cup {tried[m]}]
              /\ cache' = [cache EXCEPT ![n] = @ \cup {f}]
              /\ wire' = [q \in Node |-> IF q \in up \ {n} THEN wire[q] \cup {f} ELSE wire[q]]
         ELSE /\ res' = [res EXCEPT ![m] = FALSE]
              /\ UNCHANGED <<accepted, cache, wire>>
  /\ UNCHANGED <<up, pc, origin, requests, failures, lost, handled>>

\* The outcome of the last fragment is the outcome of the message.
Finish(m) ==
  /\ pc[m] = "publishing"
  /\ ~More(m)
  /\ failures' = IF res[m] THEN failures ELSE [failures EXCEPT ![origin[m]] = @ + 1]
  /\ pc' = [pc EXCEPT ![m] = IF res[m] THEN "success" ELSE "error"]
  /\ UNCHANGED <<up, origin, tried, res, accepted, requests, cache, wire, lost,
                 handlerVars, handled>>

-----------------------------------------------------------------------------
(* The network.                                                            *)

\* A fragment arrives; the handler sees it if its id is new.
Deliver(n, f) ==
  /\ n \in up
  /\ f \in wire[n]
  /\ wire' = [wire EXCEPT ![n] = @ \ {f}]
  /\ cache' = [cache EXCEPT ![n] = @ \cup {f}]
  /\ handled' = [handled EXCEPT ![n] = @ \cup {f}]
  /\ Handle(n, f.msg)
  /\ UNCHANGED <<up, pc, origin, tried, res, accepted, requests, failures, lost>>

Lose(n, f) ==
  /\ f \in wire[n]
  /\ lost < MaxLost
  /\ lost' = lost + 1
  /\ wire' = [wire EXCEPT ![n] = @ \ {f}]
  /\ UNCHANGED <<up, pc, origin, tried, res, accepted, requests, failures, cache,
                 handlerVars, handled>>

Next ==
  \/ \E n \in Node, m \in Message : Ask(n, m)
  \/ \E n \in Node, m \in Message : Crash(n, m)
  \/ \E m \in Message, reached \in BOOLEAN : PublishChunk(m, reached)
  \/ \E m \in Message : Finish(m)
  \/ \E n \in Node : \E f \in wire[n] : Deliver(n, f)
  \/ \E n \in Node : \E f \in wire[n] : Lose(n, f)

Spec == Init /\ [][Next]_vars

\* The event loop resumes every publication whose await is over, and the
\* network delivers what it does not lose.
Fairness ==
  /\ \A m \in Message :
       WF_vars(\E reached \in BOOLEAN : PublishChunk(m, reached)) /\ WF_vars(Finish(m))
  /\ \A n \in Node : \A f \in Fragments : f.mark < Chunks => WF_vars(Deliver(n, f))

FairSpec == Spec /\ Fairness

-----------------------------------------------------------------------------

\* A node other than the publisher measures a message
\* only when it has counted every fragment of it, and so only when gossipsub
\* took them all (main.nim:145-149).
ReportsAreWhole ==
  \A n \in Node, m \in Message :
    reports[n][m] > 0 /\ n # origin[m] =>
      {f \in handled[n] : f.msg = m} = {Fragment(m, c) : c \in 0..(Chunks - 1)}

\* Each node measures a message at most once, and only when its publisher has
\* been through all its fragments; with SELFTRIGGER, the publisher does so
\* with the last one, whether or not any of them reached a peer.
Broadcast == INSTANCE FragmentBroadcast WITH
  whole <- {m \in Message : tried[m] = Chunks}

MeasuresOnce == Broadcast!Spec

\* A message gossipsub took whole is measured by every node that stays up,
\* unless a fragment is lost.
WholeIsReported ==
  \A n \in Node, m \in Message :
    accepted[m] = 0..(Chunks - 1) ~> (lost > 0 \/ n \notin up \/ reports[n][m] > 0
                                       \/ (n = origin[m] /\ n \notin SelfTriggered))

\* What the help text at main.nim:37 says: the counter counts the publish
\* attempts that failed.
FailuresCounted ==
  \A n \in Node :
    Cardinality({m \in Message : /\ origin[m] = n
                                 /\ pc[m] \in {"success", "error"}
                                 /\ accepted[m] # 0..(Chunks - 1)}) <= failures[n]
=============================================================================
