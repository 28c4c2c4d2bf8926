------------------------------ MODULE GoGossip ------------------------------
(***************************************************************************)
(* A network of Go nodes (go-test-node/main.go).  Each POST /publish has a *)
(* goroutine of its own, which cuts its message into fragments by writing  *)
(* their index into byte 10 of ONE payload and publishing that payload     *)
(* again and again.  A reader goroutine counts fragments by time stamp; no *)
(* two messages read the same time, so the message stands for its stamp.   *)
(*                                                                         *)
(* go-libp2p-pubsub is external.  Publish hashes the payload at once but   *)
(* keeps the slice, and the writer goroutine of each peer marshals it when *)
(* it sends: what goes out is the payload as it is THEN.  A node forwards  *)
(* what it receives once per message id; fragments arrive in any order, or *)
(* are lost, in the network or at a full subscription.  A node hears its   *)
(* own messages.                                                           *)
(***************************************************************************)
EXTENDS Naturals, FiniteSets, Sequences, Functions

CONSTANTS
  Node,
  Message,        \* publications, each made by one node
  Sizes,          \* lengths of the payload, 8 + msgSize/chunks
  Chunks,         \* chunks, the same on all nodes
  MaxLost,        \* model bound on the fragments that are lost
  None

ASSUME GoAssumption ==
  /\ None \notin Node
  /\ Sizes \subseteq {l \in Nat : l >= 8}
  /\ Chunks \in Nat \ {0}
  /\ MaxLost \in Nat

VARIABLES
  pc,           \* where the goroutine of each publication is
  origin,       \* the node that serves it
  len,          \* the length of its payload
  written,      \* how many indices it has written to byte 10
  published,    \* libp2p_pubsub_messages_published_total of each node
  cache,        \* message ids each node has seen
  unsent,       \* per peer, messages queued for it that hold the payload
  wire,         \* fragments on their way to each node
  inbox,        \* buffer of each node's subscription
  lost,         \* number of fragments lost
  msgSeen,      \* fragments each node has counted per message
  handled,      \* history: fragments messageHandler has counted
  reports,      \* history: latency lines printed per message
  transmitted   \* history: byte 10 of each message as sent to each peer

vars == <<pc, origin, len, written, published, cache, unsent, wire, inbox, lost,
          msgSeen, handled, reports, transmitted>>
askVars  == <<origin, len>>
readVars == <<msgSeen, handled, reports>>

-----------------------------------------------------------------------------

\* Byte 10 of the shared payload now: the last index written.
Mark(m) == (written[m] - 1) % 256

\* The payload of m as it is now.  Equal bytes, equal id.
Payload(m) == [msg |-> m, len |-> len[m], mark |-> Mark(m)]

Fragment == [msg : Message, len : Sizes, mark : 0..255]

TypeOK ==
  /\ pc \in [Message -> {"idle", "write", "publish", "succeeded", "failed", "panicked"}]
  /\ origin \in [Message -> Node \cup {None}]
  /\ len \in [Message -> {0} \cup Sizes]
  /\ written \in [Message -> 0..Chunks]
  /\ published \in [Node -> Nat]
  /\ cache \in [Node -> SUBSET Fragment]
  /\ unsent \in [Node -> [Message -> 0..Chunks]]
  /\ wire \in [Node -> SUBSET Fragment]
  /\ inbox \in [Node -> SUBSET Fragment]
  /\ lost \in 0..MaxLost
  /\ msgSeen \in [Node -> [Message -> Nat]]
  /\ handled \in [Node -> SUBSET Fragment]
  /\ reports \in [Node -> [Message -> Nat]]
  /\ transmitted \in [Node -> [Message -> Seq(0..255)]]

\* Every node has connected and serves /publish.
Init ==
  /\ pc = [m \in Message |-> "idle"]
  /\ origin = [m \in Message |-> None]
  /\ len = [m \in Message |-> 0]
  /\ written = [m \in Message |-> 0]
  /\ published = [n \in Node |-> 0]
  /\ cache = [n \in Node |-> {}]
  /\ unsent = [n \in Node |-> [m \in Message |-> 0]]
  /\ wire = [n \in Node |-> {}]
  /\ inbox = [n \in Node |-> {}]
  /\ lost = 0
  /\ msgSeen = [n \in Node |-> [m \in Message |-> 0]]
  /\ handled = [n \in Node |-> {}]
  /\ reports = [n \in Node |-> [m \in Message |-> 0]]
  /\ transmitted = [n \in Node |-> [m \in Message |-> <<>>]]

-----------------------------------------------------------------------------
(* publishNewMessage, on the goroutine of its request.                     *)

\* The time is read and the payload made.
Ask(n, m, l) ==
  /\ pc[m] = "idle"
  /\ origin' = [origin EXCEPT ![m] = n]
  /\ len' = [len EXCEPT ![m] = l]
  /\ pc' = [pc EXCEPT ![m] = "write"]
  /\ UNCHANGED <<written, published, cache, unsent, wire, inbox, lost, readVars, transmitted>>

\* payload[10] = byte(chunk), in the payload earlier fragments still share.
WriteIndex(m) ==
  /\ pc[m] = "write"
  /\ len[m] > 10
  /\ written' = [written EXCEPT ![m] = @ + 1]
  /\ pc' = [pc EXCEPT ![m] = "publish"]
  /\ UNCHANGED <<askVars, published, cache, unsent, wire, inbox, lost, readVars, transmitted>>

\* A payload without byte 10: the index panics and net/http recovers, so only
\* this request is lost.
IndexPanics(m) ==
  /\ pc[m] = "write"
  /\ len[m] <= 10
  /\ pc' = [pc EXCEPT ![m] = "panicked"]
  /\ UNCHANGED <<askVars, written, published, cache, unsent, wire, inbox, lost, readVars, transmitted>>

\* The loop's test for a last fragment.
LastInclusive(m) == written[m] > Chunks    \* wrong: chunk <= chunks
Last(m) == written[m] = Chunks

\* topic.Publish: the subscription and the queue of every peer get the
\* message; one whose id has been seen is dropped without an error.
PublishFragment(m) ==
  /\ pc[m] = "publish"
  /\ LET n == origin[m]
     IN  /\ IF Payload(m) \in cache[n]
            THEN UNCHANGED <<cache, inbox, unsent>>
            ELSE /\ cache' = [cache EXCEPT ![n] = @ \cup {Payload(m)}]
                 /\ inbox' = [inbox EXCEPT ![n] = @ \cup {Payload(m)}]
                 /\ unsent' = [q \in Node |->
                      IF q = n THEN unsent[q] ELSE [unsent[q] EXCEPT ![m] = @ + 1]]
         /\ published' = [published EXCEPT ![n] = @ + 1]
  /\ pc' = [pc EXCEPT ![m] = IF Last(m) THEN "succeeded" ELSE "write"]
  /\ UNCHANGED <<askVars, written, wire, lost, readVars, transmitted>>

\* topic.Publish returns another error: the rest is not published.
PublishFails(m) ==
  /\ pc[m] = "publish"
  /\ pc' = [pc EXCEPT ![m] = "failed"]
  /\ UNCHANGED <<askVars, written, published, cache, unsent, wire, inbox, lost, readVars, transmitted>>

-----------------------------------------------------------------------------
(* The network.                                                            *)

\* The writer of peer q marshals the payload, and sends it.
Transmit(m, q) ==
  /\ unsent[q][m] > 0
  /\ unsent' = [unsent EXCEPT ![q][m] = @ - 1]
  /\ transmitted' = [transmitted EXCEPT ![q][m] = Append(@, Mark(m))]
  /\ wire' = [wire EXCEPT ![q] = @ \cup ({Payload(m)} \ cache[q])]
  /\ UNCHANGED <<pc, askVars, written, published, cache, inbox, lost, readVars>>

\* A fragment arrives: one of a new id is delivered, and forwarded.
Receive(n, p) ==
  /\ p \in wire[n]
  /\ IF p \in cache[n]
     THEN /\ wire' = [wire EXCEPT ![n] = @ \ {p}]
          /\ UNCHANGED <<cache, inbox>>
     ELSE /\ wire' = [q \in Node |-> IF q = n THEN wire[n] \ {p} ELSE wire[q] \cup ({p} \ cache[q])]
          /\ cache' = [cache EXCEPT ![n] = @ \cup {p}]
          /\ inbox' = [inbox EXCEPT ![n] = @ \cup {p}]
  /\ UNCHANGED <<pc, askVars, written, published, unsent, lost, readVars, transmitted>>

\* A fragment never reaches n, or finds its subscription's buffer full.
Lose(n, p) ==
  /\ lost < MaxLost
  /\ lost' = lost + 1
  /\ \/ /\ p \in wire[n]
        /\ wire' = [wire EXCEPT ![n] = @ \ {p}]
        /\ UNCHANGED inbox
     \/ /\ p \in inbox[n]
        /\ inbox' = [inbox EXCEPT ![n] = @ \ {p}]
        /\ UNCHANGED wire
  /\ UNCHANGED <<pc, askVars, written, published, cache, unsent, readVars, transmitted>>

-----------------------------------------------------------------------------
(* readLoop and messageHandler.                                            *)

\* The test that a message is not complete yet.
IncompleteShort(count) == count + 1 < Chunks   \* wrong: one fragment short
IncompleteLate(count) == count <= Chunks       \* wrong: one fragment too many
Incomplete(count) == count < Chunks

\* messageHandler: count the fragment, and print once the count is full.  The
\* entry stays: a further fragment of the same stamp would print again.
Read(n, p) ==
  /\ p \in inbox[n]
  /\ inbox' = [inbox EXCEPT ![n] = @ \ {p}]
  /\ handled' = [handled EXCEPT ![n] = @ \cup {p}]
  /\ msgSeen' = [msgSeen EXCEPT ![n][p.msg] = @ + 1]
  /\ \/ Incomplete(msgSeen'[n][p.msg]) /\ UNCHANGED reports
     \/ /\ ~Incomplete(msgSeen'[n][p.msg])
        /\ reports' = [reports EXCEPT ![n][p.msg] = @ + 1]
  /\ UNCHANGED <<pc, askVars, written, published, cache, unsent, wire, lost, transmitted>>

-----------------------------------------------------------------------------

Next ==
  \/ \E n \in Node, m \in Message, l \in Sizes : Ask(n, m, l)
  \/ \E m \in Message : WriteIndex(m)
  \/ \E m \in Message : IndexPanics(m)
  \/ \E m \in Message : PublishFragment(m)
  \/ \E m \in Message : PublishFails(m)
  \/ \E m \in Message, q \in Node : Transmit(m, q)
  \/ \E n \in Node : \E p \in wire[n] : Receive(n, p)
  \/ \E n \in Node : \E p \in wire[n] \cup inbox[n] : Lose(n, p)
  \/ \E n \in Node : \E p \in inbox[n] : Read(n, p)

Spec == Init /\ [][Next]_vars

\* The Go scheduler runs every goroutine that can run; a writer sends what is
\* queued and the network delivers what it does not lose.
Fairness ==
  /\ \A m \in Message :
       /\ WF_vars(WriteIndex(m))
       /\ WF_vars(IndexPanics(m))
       /\ WF_vars(PublishFragment(m) \/ PublishFails(m))
       /\ \A q \in Node : WF_vars(Transmit(m, q))
  /\ \A n \in Node, m \in Message, l \in Sizes, c \in 0..(Chunks - 1) :
       LET p == [msg |-> m, len |-> l, mark |-> c % 256]
       IN  WF_vars(Receive(n, p)) /\ WF_vars(Read(n, p))

FairSpec == Spec /\ Fairness

-----------------------------------------------------------------------------

Reported(n, m) == reports[n][m] > 0

\* A node prints a latency only when it has counted
\* every fragment of the message, each once, however the shared payload was
\* overwritten on its way (main.go:40-44, 73-75).
ReportsAreWhole ==
  \A n \in Node, m \in Message :
    Reported(n, m) =>
      {p \in handled[n] : p.msg = m}
        = {[msg |-> m, len |-> len[m], mark |-> c % 256] : c \in 0..(Chunks - 1)}

\* Each node measures a message at most once, and
\* not before its publisher has written the last index, though no entry of
\* msgSeen is ever removed.  (Not: before it has published the last fragment;
\* a queued earlier one may carry its bytes first.)
Broadcast == INSTANCE FragmentBroadcast WITH
  whole <- {m \in Message : written[m] = Chunks}

MeasuresOnce == Broadcast!Spec

\* The publisher itself measures every message it has published in full, even
\* when fragments with its bytes come back to it first (main.go:52-61).
PublisherMeasuresItself ==
  \A m \in Message :
    pc[m] = "succeeded" ~> (lost > 0 \/ \E n \in Node : origin[m] = n /\ Reported(n, m))

\* What the comment at main.go:72 says: each fragment differs by one byte.
\* The fragments a peer is sent do not, when a payload is overwritten before
\* its writer gets to it.
FragmentsDiffer ==
  \A q \in Node, m \in Message : IsInjective(transmitted[q][m])
=============================================================================
