------------------------- MODULE RustMetricsProofs --------------------------
(***************************************************************************)
(* Proofs about the metrics of a Rust node in RustMetrics: subscriptions   *)
(* balance, the gauges fit each other between two health updates, and the  *)
(* torn pages stay readable, for every number of peers and of network      *)
(* changes, every GOSSIPSUB_D_LOW and every choice of metrics to watch.    *)
(***************************************************************************)
EXTENDS RustMetrics, SequenceTheorems, TLAPS

USE MetricsAssumption

-----------------------------------------------------------------------------
(* Metrics, their places and their lines.                                  *)

LEMMA RegistryFacts ==
  /\ DOMAIN Registry = 1..14 /\ Len(Registry) = 14
  /\ Names = {"peers", "pubsub_peers", "topics", "mesh", "topic", "no_peers", "low_peers",
              "healthy", "received", "published", "success", "failure", "subscriptions",
              "unsubscriptions"}
  /\ \A i \in 1..14 : /\ Registry[i] \in Names
                      /\ Registry[i] = "topics" <=> i = 3
                      /\ Registry[i] = "mesh" <=> i = 4
                      /\ Registry[i] = "topic" <=> i = 5
                      /\ Registry[i] = "received" <=> i = 9
                      /\ Registry[i] = "success" <=> i = 11
                      /\ \A j \in 1..14 : Registry[i] = Registry[j] => i = j
<1>1. DOMAIN Registry = 1..14 /\ Len(Registry) = 14
  BY DEF Registry
<1>2. Names = {"peers", "pubsub_peers", "topics", "mesh", "topic", "no_peers", "low_peers",
               "healthy", "received", "published", "success", "failure", "subscriptions",
               "unsubscriptions"}
  BY <1>1 DEF Names, Registry
<1>3. ASSUME NEW i \in 1..14
      PROVE  /\ Registry[i] \in Names
             /\ Registry[i] = "topics" <=> i = 3
             /\ Registry[i] = "mesh" <=> i = 4
             /\ Registry[i] = "topic" <=> i = 5
             /\ Registry[i] = "received" <=> i = 9
             /\ Registry[i] = "success" <=> i = 11
             /\ \A j \in 1..14 : Registry[i] = Registry[j] => i = j
  BY <1>1 DEF Names, Registry
<1> QED
  BY <1>1, <1>2, <1>3

\* A line changes the value of its metric and of no other.
LEMMA WithFacts ==
  ASSUME NEW f, NEW m, NEW v, NEW g, g = With(f, m, v)
  PROVE  /\ DOMAIN g = DOMAIN f \cup {m}
         /\ \A x \in DOMAIN g : g[x] = IF x = m THEN v ELSE f[x]
         /\ \A x : Value(g, x) = IF x = m THEN v ELSE Value(f, x)
BY DEF With, Value

\* The writes of one tick from the k-th on.
Rest(k) == [i \in 1..(9 - k) |-> HealthWrites[i + k - 1]]

LEMMA EightTuple ==
  ASSUME NEW a, NEW b, NEW c, NEW d, NEW e, NEW f, NEW g, NEW h,
         NEW s, s = <<a, b, c, d, e, f, g, h>>
  PROVE  s \in Seq({s[i] : i \in 1..8}) /\ Len(s) = 8
<1>1. s = [i \in 1..8 |-> s[i]]
  OBVIOUS
<1>2. Len(s) = 8
  OBVIOUS
<1> QED
  BY <1>1, <1>2, IsASeq

LEMMA RestFacts ==
  /\ HealthWrites = Rest(1)
  /\ Rest(9) = <<>>
  /\ \A k \in 1..8 : /\ Rest(k) # <<>>
                     /\ Head(Rest(k)) = HealthWrites[k]
                     /\ Tail(Rest(k)) = Rest(k + 1)
<1> DEFINE S == {HealthWrites[i] : i \in 1..8}
<1>1. HealthWrites \in Seq(S) /\ Len(HealthWrites) = 8
  BY EightTuple DEF HealthWrites
<1>2. \A k \in 1..9 : Rest(k) \in Seq(S) /\ Len(Rest(k)) = 9 - k
  <2> SUFFICES ASSUME NEW k \in 1..9
               PROVE  Rest(k) \in Seq(S) /\ Len(Rest(k)) = 9 - k
    OBVIOUS
  <2>1. \A i \in 1..(9 - k) : i + k - 1 \in 1..8
    OBVIOUS
  <2>2. Rest(k) \in [1..(9 - k) -> S]
    BY <2>1 DEF Rest
  <2>3. 9 - k \in Nat
    OBVIOUS
  <2> QED
    BY <2>2, <2>3, IsASeq, LenProperties
<1> HIDE DEF S
<1>3. HealthWrites = Rest(1)
  <2>1. \A i \in 1..Len(HealthWrites) : HealthWrites[i] = Rest(1)[i]
    BY <1>1 DEF Rest
  <2>2. Rest(1) \in Seq(S) /\ Len(HealthWrites) = Len(Rest(1))
    <3>1. 1 \in 1..9 /\ 9 - 1 = 8
      OBVIOUS
    <3> QED
      BY <1>1, <1>2, <3>1, Zenon
  <2> QED
    BY <1>1, <2>1, <2>2, SeqEqual, Zenon
<1>4. Rest(9) = <<>>
  BY <1>2
<1>5. ASSUME NEW k \in 1..8
      PROVE  /\ Rest(k) # <<>>
             /\ Head(Rest(k)) = HealthWrites[k]
             /\ Tail(Rest(k)) = Rest(k + 1)
  <2>1. /\ Rest(k) \in Seq(S) /\ Len(Rest(k)) = 9 - k
        /\ Rest(k + 1) \in Seq(S) /\ Len(Rest(k + 1)) = 8 - k
    <3>1. k + 1 \in 1..9 /\ 9 - (k + 1) = 8 - k
      OBVIOUS
    <3>2. Rest(k + 1) \in Seq(S) /\ Len(Rest(k + 1)) = 9 - (k + 1)
      BY <1>2, <3>1
    <3>3. Rest(k) \in Seq(S) /\ Len(Rest(k)) = 9 - k
      <4>1. k \in 1..9
        OBVIOUS
      <4> QED
        BY <1>2, <4>1, Zenon
    <3> QED
      BY <3>1, <3>2, <3>3, Zenon
  <2>2. Rest(k)[1] = HealthWrites[k]
    BY DEF Rest
  <2>3. \A i \in 1..(8 - k) : Rest(k)[i + 1] = Rest(k + 1)[i]
    BY DEF Rest
  <2>4. PICK s \in Seq(S), u \in Seq(S) : s = Rest(k) /\ u = Rest(k + 1)
    BY <2>1
  <2>5. 8 - k \in Nat /\ 9 - k = (8 - k) + 1
    OBVIOUS
  <2>6. s # <<>> /\ Head(s) = s[1] /\ Tail(s) \in Seq(S) /\ Len(Tail(s)) = 8 - k
    BY <2>1, <2>4, <2>5
  <2>7. \A i \in 1..(8 - k) : Tail(s)[i] = u[i]
    BY <2>1, <2>3, <2>4, <2>5
  <2>8. Tail(s) = u
    BY <2>1, <2>4, <2>6, <2>7, SeqEqual
  <2> QED
    BY <2>2, <2>4, <2>6, <2>8
<1> QED
  BY <1>3, <1>4, <1>5
-----------------------------------------------------------------------------
(* The inductive invariant.                                                *)

\* What GaugesFit says of the gauges, whatever is left to write.
FitOf(lines) ==
  lines["topics"] = 1 =>
    /\ lines["no_peers"] + lines["low_peers"] + lines["healthy"] = 1
    /\ lines["no_peers"] = 1 <=> lines["mesh"] = 0
    /\ lines["healthy"] = 1 <=> lines["mesh"] >= DLow
    /\ lines["mesh"] <= lines["topic"]
    /\ lines["topic"] <= lines["pubsub_peers"]
    /\ lines["pubsub_peers"] <= lines["peers"]

Fits == FitOf(metric)

\* The subscriptions counted and to come exceed those there are by d.
Balance(d) ==
  Value(metric, "subscriptions") - Value(metric, "unsubscriptions")
    + pending["subscribed"] - pending["unsubscribed"] = net.subs + left + d

\* The received messages counted exceed the validated ones by d.
Ahead(d) == metric["received"] = metric["success"] + d

\* A tick has done its first k - 1 writes.
Ticking(k) ==
  /\ todo = Rest(k)
  /\ \A i \in 1..(k - 1) : /\ HealthWrites[i][1] \in DOMAIN metric
                           /\ metric[HealthWrites[i][1]] = HealthWrites[i][2]

\* What main may be in the middle of, and what it then has left undone.
WorkInv ==
  \/ todo = <<>> /\ Fits /\ Balance(0) /\ Ahead(0)
  \/ todo = <<Increment("subscriptions")>> /\ Fits /\ Balance(0 - 1) /\ Ahead(0)
  \/ todo = <<Increment("unsubscriptions")>> /\ Fits /\ Balance(1) /\ Ahead(0)
  \/ todo = <<Increment("published")>> /\ Fits /\ Balance(0) /\ Ahead(0)
  \/ todo = <<Increment("received"), Increment("success")>> /\ Fits /\ Balance(0) /\ Ahead(0)
  \/ todo = <<Increment("success")>> /\ Fits /\ Balance(0) /\ Ahead(1)
  \/ Balance(0) /\ Ahead(0) /\ \E k \in 1..8 : Ticking(k)

\* Metrics outside the families have a line from the start, and the topic is
\* counted after its own lines are there.
LinesInv ==
  /\ Names \ Families \subseteq DOMAIN metric
  /\ metric["topics"] = 1 => {"mesh", "topic"} \subseteq DOMAIN metric

\* A page has the lines the encoder has passed, as old as they may be.
PageInv ==
  /\ at = 0 => page = <<>>
  /\ \A m \in DOMAIN page : page[m] \in Nat /\ \E i \in Places : i < at /\ m = Registry[i]
  /\ \A i \in Places : i < at /\ Registry[i] \notin Families => Registry[i] \in DOMAIN page
  /\ Value(page, "topics") = 1 =>
       /\ metric["topics"] = 1
       /\ \A i \in Places :
            i < at /\ Registry[i] \in {"mesh", "topic"} => Registry[i] \in DOMAIN page
  /\ "received" \in DOMAIN page => page["received"] <= metric["success"] + 1
  /\ {"received", "success"} \subseteq DOMAIN page => page["received"] <= page["success"] + 1

IInv ==
  /\ TypeOK
  /\ WorkInv
  /\ LinesInv
  /\ PageInv

\* What is left to write is due as long as neither it nor what it tells moves.
LEMMA WorkKept ==
  ASSUME WorkInv, UNCHANGED <<net, pending, left, metric, todo>>
  PROVE  WorkInv'
<1>1. Fits' <=> Fits
  BY DEF Fits, FitOf
<1>2. \A d \in {0, 1, 0 - 1} : Balance(d)' <=> Balance(d)
  BY DEF Balance, Value
<1>3. \A d \in {0, 1} : Ahead(d)' <=> Ahead(d)
  BY DEF Ahead
<1>4. \A k \in 1..8 : Ticking(k) => Ticking(k)'
  BY DEF Ticking, Rest, HealthWrites
<1>5. todo' = todo
  OBVIOUS
<1>6. CASE \E k \in 1..8 : Balance(0) /\ Ahead(0) /\ Ticking(k)
  BY <1>2, <1>3, <1>4, <1>6 DEF WorkInv
<1>7. CASE ~\E k \in 1..8 : Balance(0) /\ Ahead(0) /\ Ticking(k)
  BY <1>1, <1>2, <1>3, <1>5, <1>7 DEF WorkInv, Increment
<1> QED
  BY <1>6, <1>7

-----------------------------------------------------------------------------
(* What the invariant says of the state.                                   *)

Gauges == {"topics", "no_peers", "low_peers", "healthy"}

LEMMA TypeFacts ==
  ASSUME TypeOK
  PROVE  /\ net.conn \in Nat /\ net.known \in Nat /\ net.subs \in Nat /\ net.mesh \in Nat
         /\ net.mesh <= net.subs /\ net.subs <= net.known /\ net.known <= net.conn
         /\ \A e \in Events : pending[e] \in Nat
         /\ left \in Nat
         /\ \A m : Value(metric, m) \in Nat
         /\ DOMAIN metric \subseteq Names
         /\ \A m \in DOMAIN metric : metric[m] \in Nat /\ metric[m] = Value(metric, m)
<1>1. \A n \in Nets : /\ n.conn \in Nat /\ n.known \in Nat /\ n.subs \in Nat /\ n.mesh \in Nat
                      /\ n.mesh <= n.subs /\ n.subs <= n.known /\ n.known <= n.conn
  BY DEF Nets
<1>2. net \in Nets /\ pending \in [Events -> Nat] /\ left \in Nat /\ DOMAIN metric \subseteq Names
  BY DEF TypeOK
<1>3. \A m \in DOMAIN metric : metric[m] \in Nat
  BY DEF TypeOK
<1> QED
  BY <1>1, <1>2, <1>3 DEF Value

\* Metrics that count without a label have lines of their own.
LEMMA PlainLines ==
  ASSUME LinesInv
  PROVE  {"peers", "pubsub_peers", "topics", "no_peers", "low_peers", "healthy", "received",
          "success"} \subseteq DOMAIN metric
BY RegistryFacts DEF LinesInv, Families

\* What a tick writes.
LEMMA HealthFacts ==
  ASSUME TypeOK
  PROVE  /\ \A i \in 1..8 : /\ HealthWrites[i] \in Names \X Nat
                            /\ HealthWrites[i][1] \in Gauges => HealthWrites[i][2] <= 1
                            /\ HealthWrites[i][1] = "topics" <=> i = 5
                            /\ HealthWrites[i][1] \notin
                                 {"received", "success", "subscriptions", "unsubscriptions"}
                            /\ \A j \in 1..8 : HealthWrites[i][1] = HealthWrites[j][1] => i = j
         /\ HealthWrites[1] = <<"peers", net.conn>>
         /\ HealthWrites[2] = <<"pubsub_peers", net.known>>
         /\ HealthWrites[3] = <<"mesh", net.mesh>>
         /\ HealthWrites[4] = <<"topic", net.subs>>
         /\ HealthWrites[5] = <<"topics", 1>>
         /\ HealthWrites[6] = <<"no_peers", Health(net.mesh).no_peers>>
         /\ HealthWrites[7] = <<"low_peers", Health(net.mesh).low_peers>>
         /\ HealthWrites[8] = <<"healthy", Health(net.mesh).healthy>>
<1> DEFINE h == Health(net.mesh)
<1>1. h.no_peers \in 0..1 /\ h.low_peers \in 0..1 /\ h.healthy \in 0..1
  BY TypeFacts DEF Health
<1>2. /\ HealthWrites[1] = <<"peers", net.conn>>
      /\ HealthWrites[2] = <<"pubsub_peers", net.known>>
      /\ HealthWrites[3] = <<"mesh", net.mesh>>
      /\ HealthWrites[4] = <<"topic", net.subs>>
      /\ HealthWrites[5] = <<"topics", 1>>
      /\ HealthWrites[6] = <<"no_peers", h.no_peers>>
      /\ HealthWrites[7] = <<"low_peers", h.low_peers>>
      /\ HealthWrites[8] = <<"healthy", h.healthy>>
  BY DEF HealthWrites
<1> HIDE DEF h
<1>3. ASSUME NEW i \in 1..8
      PROVE  /\ HealthWrites[i] \in Names \X Nat
             /\ HealthWrites[i][1] \in Gauges => HealthWrites[i][2] <= 1
             /\ HealthWrites[i][1] = "topics" <=> i = 5
             /\ HealthWrites[i][1] \notin
                  {"received", "success", "subscriptions", "unsubscriptions"}
             /\ \A j \in 1..8 : HealthWrites[i][1] = HealthWrites[j][1] => i = j
  <2>1. i = 1 \/ i = 2 \/ i = 3 \/ i = 4 \/ i = 5 \/ i = 6 \/ i = 7 \/ i = 8
    OBVIOUS
  <2>2. /\ HealthWrites[i] \in Names \X Nat
        /\ HealthWrites[i][1] \in Gauges => HealthWrites[i][2] <= 1
    <3>1. /\ {"peers", "pubsub_peers", "mesh", "topic", "topics", "no_peers", "low_peers",
              "healthy"} \subseteq Names
          /\ net.conn \in Nat /\ net.known \in Nat /\ net.subs \in Nat /\ net.mesh \in Nat
      BY TypeFacts, RegistryFacts
    <3>2. CASE i \in {1, 2, 3, 4}
      <4>1. PICK m \in Names \ Gauges, v \in Nat : HealthWrites[i] = <<m, v>>
        <5>1. CASE i = 1
          BY <1>2, <3>1, <5>1 DEF Gauges
        <5>2. CASE i = 2
          BY <1>2, <3>1, <5>2 DEF Gauges
        <5>3. CASE i = 3
          BY <1>2, <3>1, <5>3 DEF Gauges
        <5>4. CASE i = 4
          BY <1>2, <3>1, <5>4 DEF Gauges
        <5> QED
          BY <3>2, <5>1, <5>2, <5>3, <5>4
      <4> QED
        BY <4>1
    <3>3. CASE i \in {5, 6, 7, 8}
      <4>1. PICK m \in Names, v \in {0, 1} : HealthWrites[i] = <<m, v>>
        <5>1. CASE i = 5
          BY <1>2, <3>1, <5>1
        <5>2. CASE i = 6
          BY <1>1, <1>2, <3>1, <5>2
        <5>3. CASE i = 7
          BY <1>1, <1>2, <3>1, <5>3
        <5>4. CASE i = 8
          BY <1>1, <1>2, <3>1, <5>4
        <5> QED
          BY <3>3, <5>1, <5>2, <5>3, <5>4
      <4> QED
        BY <4>1
    <3> QED
      BY <2>1, <3>2, <3>3
  <2>3. /\ HealthWrites[1][1] = "peers" /\ HealthWrites[2][1] = "pubsub_peers"
        /\ HealthWrites[3][1] = "mesh" /\ HealthWrites[4][1] = "topic"
        /\ HealthWrites[5][1] = "topics" /\ HealthWrites[6][1] = "no_peers"
        /\ HealthWrites[7][1] = "low_peers" /\ HealthWrites[8][1] = "healthy"
    BY <1>2
  <2>4. /\ HealthWrites[i][1] = "topics" <=> i = 5
        /\ HealthWrites[i][1] \notin {"received", "success", "subscriptions", "unsubscriptions"}
    BY <2>1, <2>3
  <2>5. ASSUME NEW j \in 1..8, HealthWrites[i][1] = HealthWrites[j][1]
        PROVE  i = j
    <3>1. j = 1 \/ j = 2 \/ j = 3 \/ j = 4 \/ j = 5 \/ j = 6 \/ j = 7 \/ j = 8
      OBVIOUS
    <3> QED
      BY <2>1, <2>3, <2>5, <3>1
  <2> QED
    BY <2>2, <2>4, <2>5
<1> QED
  BY <1>2, <1>3 DEF h

\* The gauges fit once a tick has done all its writes.
LEMMA TickFits ==
  ASSUME TypeOK, NEW lines, \A i \in 1..8 : lines[HealthWrites[i][1]] = HealthWrites[i][2]
  PROVE  FitOf(lines)
<1> DEFINE h == Health(net.mesh)
<1>1. /\ lines["peers"] = net.conn /\ lines["pubsub_peers"] = net.known
      /\ lines["mesh"] = net.mesh /\ lines["topic"] = net.subs
      /\ lines["no_peers"] = h.no_peers /\ lines["low_peers"] = h.low_peers
      /\ lines["healthy"] = h.healthy
  BY HealthFacts
<1>2. /\ h.no_peers = IF net.mesh = 0 THEN 1 ELSE 0
      /\ h.low_peers = IF 0 < net.mesh /\ net.mesh < DLow THEN 1 ELSE 0
      /\ h.healthy = IF net.mesh >= DLow THEN 1 ELSE 0
  BY DEF Health
<1> HIDE DEF h
<1> QED
  BY <1>1, <1>2, TypeFacts DEF FitOf

\* Between two events nothing is left undone.
LEMMA IdleFacts ==
  ASSUME WorkInv, todo = <<>>
  PROVE  Fits /\ Balance(0) /\ Ahead(0)
<1>1. \A k \in 1..8 : Rest(k) # <<>>
  BY RestFacts
<1>2. \A a, b : <<a>> # <<>> /\ <<a, b>> # <<>>
  OBVIOUS
<1> QED
  BY <1>1, <1>2 DEF WorkInv, Ticking

\* A metric that is being counted up is one of the registry.
LEMMA IncrementFacts ==
  ASSUME TypeOK, NEW m \in Names
  PROVE  /\ Increment(m) \in Names \X Nat
         /\ Increment(m)[1] = m
         /\ Increment(m)[2] = Value(metric, m) + 1
BY TypeFacts DEF Increment

-----------------------------------------------------------------------------
(* Each action preserves the inductive invariant.                          *)

LEMMA InitHolds ==
  ASSUME Init
  PROVE  IInv
<1>1. /\ net = [conn |-> 0, known |-> 0, subs |-> 0, mesh |-> 0] /\ left = 0 /\ inputs = 0
      /\ pending = [e \in Events |-> 0] /\ todo = <<>> /\ at = 0 /\ page = <<>>
      /\ metric = [m \in Names \ Families |-> 0]
      /\ phase = "starting"
  BY DEF Init
<1>2. /\ DOMAIN metric = Names \ Families
      /\ \A m \in Names \ Families : metric[m] = 0
      /\ {"topics", "no_peers", "low_peers", "healthy", "received", "success"}
           \subseteq Names \ Families
  BY <1>1, RegistryFacts DEF Families
<1>3. TypeOK
  <2>1. net \in Nets
    BY <1>1 DEF Nets
  <2>2. DOMAIN page = {} /\ DOMAIN todo = {}
    BY <1>1
  <2> QED
    BY <1>1, <1>2, <2>1, <2>2 DEF TypeOK
<1>4. WorkInv
  <2>1. Balance(0)
    BY <1>1, <1>2 DEF Balance, Value, Events, Families
  <2>2. Fits /\ Ahead(0)
    BY <1>2 DEF Fits, FitOf, Ahead
  <2> QED
    BY <1>1, <2>1, <2>2 DEF WorkInv
<1>5. LinesInv
  BY <1>2 DEF LinesInv
<1>6. PageInv
  <2>1. DOMAIN page = {}
    BY <1>1
  <2>2. \A i \in Places : ~(i < at)
    BY <1>1, RegistryFacts DEF Places
  <2> QED
    BY <1>1, <2>1, <2>2 DEF PageInv, Value
<1> QED
  BY <1>3, <1>4, <1>5, <1>6 DEF IInv

\* main enters its window and leaves it.
LEMMA PhasePreserves ==
  ASSUME IInv,
         \/ OpenWindow
         \/ \E dialled \in BOOLEAN : CloseWindow(dialled)
         \/ UNCHANGED vars
  PROVE  IInv'
<1> USE DEF IInv
<1>1. /\ UNCHANGED <<net, pending, left, inputs, metric, todo, at, page>>
      /\ phase' \in {"starting", "window", "loop", "ended"}
  BY DEF OpenWindow, CloseWindow, vars, netVars, pageVars, TypeOK
<1>2. TypeOK'
  BY <1>1 DEF TypeOK
<1>3. WorkInv'
  BY <1>1, WorkKept
<1>4. LinesInv' /\ PageInv'
  BY <1>1 DEF LinesInv, PageInv
<1> QED
  BY <1>2, <1>3, <1>4

\* The network moves only while main has nothing left to write.
LEMMA NetworkPreserves ==
  ASSUME IInv,
         \/ \E n \in Nets, came, ended \in 0..MaxPeers : NetworkMoves(n, came, ended)
         \/ MessageComes
  PROVE  IInv'
<1> USE DEF IInv
<1>1. UNCHANGED <<phase, metric, todo, at, page>> /\ todo = <<>> /\ inputs' = inputs + 1
      /\ inputs < MaxInputs
  BY DEF NetworkMoves, MessageComes, Polls, pageVars
<1>2. /\ net' \in Nets
      /\ pending' \in [Events -> Nat]
      /\ left' \in Nat
      /\ Balance(0)'
  <2>1. CASE MessageComes
    <3>1. net' = net /\ left' = left /\ pending' = [pending EXCEPT !["message"] = @ + 1]
      BY <2>1 DEF MessageComes
    <3>2. pending \in [Events -> Nat] /\ net \in Nets /\ left \in Nat
      BY DEF TypeOK
    <3>3. /\ pending' \in [Events -> Nat]
          /\ pending'["subscribed"] = pending["subscribed"]
          /\ pending'["unsubscribed"] = pending["unsubscribed"]
      BY <3>1, <3>2 DEF Events
    <3> QED
      BY <1>1, <3>1, <3>2, <3>3, IdleFacts DEF Balance
  <2>2. ASSUME NEW n \in Nets, NEW came \in 0..MaxPeers, NEW ended \in 0..MaxPeers,
               NetworkMoves(n, came, ended)
        PROVE  <1>2
    <3>1. /\ net' = n
          /\ left' = left + net.subs + came - ended - n.subs
          /\ pending' = [pending EXCEPT !["subscribed"] = @ + came, !["unsubscribed"] = @ + ended]
          /\ net.subs + came - ended - n.subs \in 0..net.subs
      BY <2>2 DEF NetworkMoves
    <3>2. pending \in [Events -> Nat] /\ net.subs \in Nat /\ n.subs \in Nat /\ left \in Nat
      BY TypeFacts DEF TypeOK, Nets
    <3>3. came \in Nat /\ ended \in Nat
      OBVIOUS
    <3>4. /\ pending' \in [Events -> Nat]
          /\ pending'["subscribed"] = pending["subscribed"] + came
          /\ pending'["unsubscribed"] = pending["unsubscribed"] + ended
      BY <3>1, <3>2, <3>3 DEF Events
    <3>5. left' \in Nat
      BY <3>1, <3>2, <3>3
    <3>6. Balance(0)'
      <4>1. Balance(0)
        BY <1>1, IdleFacts
      <4>2. /\ Value(metric, "subscriptions") \in Nat /\ Value(metric, "unsubscriptions") \in Nat
            /\ pending["subscribed"] \in Nat /\ pending["unsubscribed"] \in Nat
        BY TypeFacts DEF Events
      <4>3. Value(metric, "subscriptions") - Value(metric, "unsubscriptions")
              + pending["subscribed"] - pending["unsubscribed"] = net.subs + left
        BY <3>2, <4>1, <4>2 DEF Balance
      <4>4. Value(metric, "subscriptions") - Value(metric, "unsubscriptions")
              + (pending["subscribed"] + came) - (pending["unsubscribed"] + ended)
              = n.subs + (left + net.subs + came - ended - n.subs) + 0
        BY <3>2, <3>3, <4>2, <4>3
      <4> QED
        BY <1>1, <3>1, <3>4, <4>4, Zenon DEF Balance
    <3> QED
      BY <3>1, <3>4, <3>5, <3>6
  <2> QED
    BY <2>1, <2>2
<1>3. TypeOK'
  BY <1>1, <1>2 DEF TypeOK
<1>4. WorkInv'
  BY <1>1, <1>2, IdleFacts DEF WorkInv, Fits, FitOf, Ahead
<1>5. LinesInv' /\ PageInv'
  BY <1>1 DEF LinesInv, PageInv
<1> QED
  BY <1>3, <1>4, <1>5

\* An event, a command or a tick gives main something to write.
LEMMA WorkPreserves ==
  ASSUME IInv,
         \/ \E event \in Events, whole \in BOOLEAN : HandleEvent(event, whole)
         \/ CountCommand
         \/ HealthTick
  PROVE  IInv'
<1> USE DEF IInv
<1>1. UNCHANGED <<phase, net, left, metric, at, page>> /\ todo = <<>>
  BY DEF HandleEvent, CountCommand, HealthTick, Polls, netVars, pageVars
<1>2. Fits /\ Balance(0) /\ Ahead(0)
  BY <1>1, IdleFacts
<1>3. \A m : Increment(m)' = Increment(m)
  BY <1>1 DEF Increment
<1>4. Fits' /\ Ahead(0)'
  BY <1>1, <1>2 DEF Fits, FitOf, Ahead
<1>5. /\ {"subscriptions", "unsubscriptions", "published", "received", "success"} \subseteq Names
      /\ \A a : DOMAIN <<a>> = {1} /\ <<a>>[1] = a
      /\ \A a, b : DOMAIN <<a, b>> = {1, 2} /\ <<a, b>>[1] = a /\ <<a, b>>[2] = b
      /\ DOMAIN <<>> = {}
  BY RegistryFacts
<1>6. ASSUME NEW event \in Events, NEW whole \in BOOLEAN, HandleEvent(event, whole)
      PROVE  /\ pending' \in [Events -> Nat] /\ inputs' = inputs
             /\ \A i \in DOMAIN todo' : todo'[i] \in Names \X Nat
             /\ WorkInv'
  <2>1. /\ pending[event] > 0
        /\ pending' = [pending EXCEPT ![event] = @ - 1]
        /\ todo' = IF Heeded(event) THEN Writes(event, whole) ELSE <<>>
        /\ inputs' = inputs
    BY <1>6 DEF HandleEvent
  <2>2. pending \in [Events -> Nat]
    BY DEF TypeOK
  <2>3. /\ pending' \in [Events -> Nat]
        /\ \A e \in Events : pending'[e] = IF e = event THEN pending[e] - 1 ELSE pending[e]
    BY <2>1, <2>2
  <2>4. /\ Value(metric, "subscriptions") \in Nat /\ Value(metric, "unsubscriptions") \in Nat
        /\ pending["subscribed"] \in Nat /\ pending["unsubscribed"] \in Nat
        /\ net.subs \in Nat /\ left \in Nat
    BY TypeFacts DEF Events
  <2>5. CASE event = "subscribed"
    <3>1. todo' = <<Increment("subscriptions")>>
      BY <2>1, <2>5 DEF Heeded, Writes
    <3>2. Balance(0 - 1)'
      <4>1. /\ pending'["subscribed"] = pending["subscribed"] - 1
            /\ pending'["unsubscribed"] = pending["unsubscribed"]
        BY <2>3, <2>5 DEF Events
      <4>2. UNCHANGED <<net, left, metric>>
        BY <1>1
      <4> QED
        BY <1>2, <2>4, <4>1, <4>2 DEF Balance
    <3>3. todo' = <<Increment("subscriptions")'>>
      BY <1>3, <3>1
    <3>4. WorkInv'
      BY <1>4, <3>2, <3>3 DEF WorkInv
    <3>5. \A i \in DOMAIN todo' : todo'[i] \in Names \X Nat
      BY <1>5, <3>1, IncrementFacts
    <3> QED
      BY <2>1, <2>3, <3>4, <3>5
  <2>6. CASE event = "unsubscribed"
    <3>1. todo' = <<Increment("unsubscriptions")>>
      BY <2>1, <2>6 DEF Heeded, Writes
    <3>2. Balance(1)'
      <4>1. /\ pending'["subscribed"] = pending["subscribed"]
            /\ pending'["unsubscribed"] = pending["unsubscribed"] - 1
        BY <2>3, <2>6 DEF Events
      <4>2. UNCHANGED <<net, left, metric>>
        BY <1>1
      <4> QED
        BY <1>2, <2>4, <4>1, <4>2 DEF Balance
    <3>3. todo' = <<Increment("unsubscriptions")'>>
      BY <1>3, <3>1
    <3>4. WorkInv'
      BY <1>4, <3>2, <3>3 DEF WorkInv
    <3>5. \A i \in DOMAIN todo' : todo'[i] \in Names \X Nat
      BY <1>5, <3>1, IncrementFacts
    <3> QED
      BY <2>1, <2>3, <3>4, <3>5
  <2>7. CASE event = "message"
    <3>1. todo' = <<>> \/ todo' = <<Increment("received"), Increment("success")>>
      BY <2>1, <2>7 DEF Heeded, Writes
    <3>2. Balance(0)'
      BY <1>1, <1>2, <2>3, <2>4, <2>7 DEF Balance, Events
    <3>3. CASE todo' = <<>>
      BY <1>4, <1>5, <2>1, <2>3, <3>2, <3>3 DEF WorkInv
    <3>4. CASE todo' = <<Increment("received"), Increment("success")>>
      BY <1>3, <1>4, <1>5, <2>1, <2>3, <3>2, <3>4, IncrementFacts DEF WorkInv
    <3> QED
      BY <3>1, <3>3, <3>4
  <2> QED
    BY <2>5, <2>6, <2>7 DEF Events
<1>7. ASSUME CountCommand
      PROVE  /\ pending' = pending /\ inputs' \in 0..MaxInputs
             /\ \A i \in DOMAIN todo' : todo'[i] \in Names \X Nat
             /\ WorkInv'
  <2>1. /\ todo' = <<Increment("published")>> /\ pending' = pending
        /\ inputs' = inputs + 1 /\ inputs < MaxInputs
    BY <1>7 DEF CountCommand
  <2>2. Balance(0)'
    BY <1>1, <1>2, <2>1 DEF Balance
  <2>3. inputs' \in 0..MaxInputs
    BY <2>1 DEF TypeOK
  <2> QED
    BY <1>3, <1>4, <1>5, <2>1, <2>2, <2>3, IncrementFacts DEF WorkInv
<1>8. ASSUME HealthTick
      PROVE  /\ pending' = pending /\ inputs' = inputs
             /\ \A i \in DOMAIN todo' : todo'[i] \in Names \X Nat
             /\ WorkInv'
  <2>1. /\ todo' = HealthWrites /\ pending' = pending /\ inputs' = inputs
    BY <1>8 DEF HealthTick, netVars
  <2>2. HealthWrites' = HealthWrites
    BY <1>1 DEF HealthWrites
  <2>3. Balance(0)'
    BY <1>1, <1>2, <2>1 DEF Balance
  <2>4. Ticking(1)'
    <3>1. Rest(1)' = Rest(1)
      BY <2>2 DEF Rest
    <3>2. todo' = Rest(1)'
      BY <2>1, <3>1, RestFacts
    <3>3. 1..(1 - 1) = {}
      OBVIOUS
    <3> QED
      BY <3>2, <3>3 DEF Ticking
  <2>5. WorkInv'
    <3>1. 1 \in 1..8
      OBVIOUS
    <3> QED
      BY <1>4, <2>3, <2>4, <3>1 DEF WorkInv
  <2>6. DOMAIN HealthWrites = 1..8
    BY DEF HealthWrites
  <2> QED
    BY <2>1, <2>5, <2>6, HealthFacts
<1>9. TypeOK'
  BY <1>1, <1>6, <1>7, <1>8 DEF TypeOK
<1>10. WorkInv'
  BY <1>6, <1>7, <1>8
<1>11. LinesInv' /\ PageInv'
  BY <1>1 DEF LinesInv, PageInv
<1> QED
  BY <1>9, <1>10, <1>11

\* A step that keeps the gauges keeps their fit.
LEMMA FitStays ==
  ASSUME Fits, LinesInv,
         \A m \in DOMAIN metric :
           m \in {"peers", "pubsub_peers", "topics", "mesh", "topic", "no_peers", "low_peers",
                  "healthy"} => metric'[m] = metric[m]
  PROVE  Fits'
<1>1. {"peers", "pubsub_peers", "topics", "no_peers", "low_peers", "healthy"} \subseteq DOMAIN metric
  BY PlainLines
<1>2. CASE metric["topics"] = 1
  <2>1. {"mesh", "topic"} \subseteq DOMAIN metric
    BY <1>2 DEF LinesInv
  <2> QED
    BY <1>1, <2>1 DEF Fits, FitOf
<1>3. CASE metric["topics"] # 1
  BY <1>1, <1>3 DEF Fits, FitOf
<1> QED
  BY <1>2, <1>3

\* One write of main: counters are counted up one at a time, and a tick writes
\* the topic's lines before it counts the topic.
LEMMA WritePreserves ==
  ASSUME IInv, Write
  PROVE  IInv'
<1> USE DEF IInv
<1> DEFINE m == Head(todo)[1]
           v == Head(todo)[2]
<1>1. /\ todo # <<>>
      /\ metric' = With(metric, m, v)
      /\ todo' = Tail(todo)
      /\ UNCHANGED <<phase, net, pending, left, inputs, at, page>>
  BY DEF Write, netVars, pageVars
<1>2. /\ DOMAIN metric' = DOMAIN metric \cup {m}
      /\ \A x \in DOMAIN metric' : metric'[x] = IF x = m THEN v ELSE metric[x]
      /\ \A x : Value(metric', x) = IF x = m THEN v ELSE Value(metric, x)
  <2>1. metric' = With(metric, m, v)
    BY <1>1
  <2> HIDE DEF m, v
  <2>2. /\ DOMAIN metric' = DOMAIN metric \cup {m}
        /\ \A x \in DOMAIN metric' : metric'[x] = IF x = m THEN v ELSE metric[x]
    BY <2>1 DEF With
  <2> QED
    BY <2>2 DEF Value
<1>3. \A a, b : /\ Head(<<a>>) = a /\ Tail(<<a>>) = <<>>
                /\ Head(<<a, b>>) = a /\ Tail(<<a, b>>) = <<b>>
                /\ DOMAIN <<a>> = {1} /\ <<a>>[1] = a /\ DOMAIN <<>> = {}
  OBVIOUS
<1>4. {"peers", "pubsub_peers", "topics", "no_peers", "low_peers", "healthy", "received", "success"}
        \subseteq DOMAIN metric
  BY PlainLines
<1>5. /\ {"subscriptions", "unsubscriptions", "published", "received", "success"} \subseteq Names
      /\ \A x \in Names : Increment(x) \in Names \X Nat /\ Increment(x)[1] = x
                            /\ Increment(x)[2] = Value(metric, x) + 1
  BY RegistryFacts, IncrementFacts
<1>6. /\ \A x : Value(metric, x) \in Nat
      /\ metric["received"] \in Nat /\ metric["success"] \in Nat
      /\ Value(metric, "received") = metric["received"]
      /\ Value(metric, "success") = metric["success"]
      /\ pending["subscribed"] \in Nat /\ pending["unsubscribed"] \in Nat
      /\ net.subs \in Nat /\ left \in Nat
  BY <1>4, TypeFacts DEF Events
<1> DEFINE Counts(x) == todo' = <<>> /\ m = x /\ v = Value(metric, x) + 1
           Kept == /\ m \in Names /\ v \in Nat
                   /\ m \in Gauges => v <= 1
                   /\ m = "topics" => {"mesh", "topic"} \subseteq DOMAIN metric /\ v = 1
                   /\ m = "success" => v >= metric["success"]
                   /\ \A i \in DOMAIN todo' : todo'[i] \in Names \X Nat
                   /\ WorkInv'
<1>7. ASSUME NEW x \in {"subscriptions", "unsubscriptions", "published"}, Fits, Ahead(0),
             todo = <<Increment(x)>>
      PROVE  Counts(x) /\ Fits' /\ Ahead(0)'
  <2>1. Counts(x)
    <3>1. x \in Names
      BY <1>5
    <3>2. Head(todo) = Increment(x) /\ Tail(todo) = <<>>
      BY <1>3, <1>7
    <3>3. m = Increment(x)[1] /\ v = Increment(x)[2]
      BY <3>2
    <3>4. Increment(x)[1] = x /\ Increment(x)[2] = Value(metric, x) + 1
      BY <1>5, <3>1, Zenon
    <3>5. todo' = <<>>
      BY <1>1, <3>2
    <3> QED
      BY <3>3, <3>4, <3>5, Zenon
  <2> HIDE DEF m, v
  <2>2. Fits'
    BY <1>2, <1>7, <2>1, FitStays
  <2>3. Ahead(0)'
    BY <1>2, <1>4, <1>7, <2>1 DEF Ahead
  <2> QED
    BY <2>1, <2>2, <2>3
<1>8. ASSUME todo = <<Increment("subscriptions")>>, Fits, Balance(0 - 1), Ahead(0)
      PROVE  Kept
  <2>1. Counts("subscriptions") /\ Fits' /\ Ahead(0)'
    BY <1>7, <1>8
  <2>2. "subscriptions" \in Names /\ Value(metric, "subscriptions") \in Nat
    BY <1>5, <1>6
  <2> HIDE DEF m, v
  <2>3. Balance(0)'
    <3>1. /\ Value(metric', "subscriptions") = Value(metric, "subscriptions") + 1
          /\ Value(metric', "unsubscriptions") = Value(metric, "unsubscriptions")
      BY <1>2, <2>1
    <3>2. /\ Value(metric, "subscriptions") \in Nat /\ Value(metric, "unsubscriptions") \in Nat
          /\ pending["subscribed"] \in Nat /\ pending["unsubscribed"] \in Nat
          /\ net.subs \in Nat /\ left \in Nat
      BY <1>6
    <3>3. Value(metric, "subscriptions") - Value(metric, "unsubscriptions")
            + pending["subscribed"] - pending["unsubscribed"] = net.subs + left + (0 - 1)
      BY <1>8, Zenon DEF Balance
    <3>4. Value(metric', "subscriptions") - Value(metric', "unsubscriptions")
            + pending["subscribed"] - pending["unsubscribed"] = net.subs + left + 0
      BY <3>1, <3>2, <3>3
    <3>5. UNCHANGED <<pending, net, left>>
      BY <1>1
    <3> QED
      BY <3>4, <3>5 DEF Balance
  <2>4. WorkInv'
    BY <2>1, <2>3 DEF WorkInv
  <2> QED
    BY <1>3, <2>1, <2>2, <2>4 DEF Gauges
<1>9. ASSUME todo = <<Increment("unsubscriptions")>>, Fits, Balance(1), Ahead(0)
      PROVE  Kept
  <2>1. Counts("unsubscriptions") /\ Fits' /\ Ahead(0)'
    BY <1>7, <1>9
  <2>2. "unsubscriptions" \in Names /\ Value(metric, "unsubscriptions") \in Nat
    BY <1>5, <1>6
  <2> HIDE DEF m, v
  <2>3. Balance(0)'
    <3>1. /\ Value(metric', "subscriptions") = Value(metric, "subscriptions")
          /\ Value(metric', "unsubscriptions") = Value(metric, "unsubscriptions") + 1
      BY <1>2, <2>1
    <3>2. /\ Value(metric, "subscriptions") \in Nat /\ Value(metric, "unsubscriptions") \in Nat
          /\ pending["subscribed"] \in Nat /\ pending["unsubscribed"] \in Nat
          /\ net.subs \in Nat /\ left \in Nat
      BY <1>6
    <3>3. Value(metric, "subscriptions") - Value(metric, "unsubscriptions")
            + pending["subscribed"] - pending["unsubscribed"] = net.subs + left + 1
      BY <1>9, Zenon DEF Balance
    <3>4. Value(metric', "subscriptions") - Value(metric', "unsubscriptions")
            + pending["subscribed"] - pending["unsubscribed"] = net.subs + left + 0
      BY <3>1, <3>2, <3>3
    <3>5. UNCHANGED <<pending, net, left>>
      BY <1>1
    <3> QED
      BY <3>4, <3>5 DEF Balance
  <2>4. WorkInv'
    BY <2>1, <2>3 DEF WorkInv
  <2> QED
    BY <1>3, <2>1, <2>2, <2>4 DEF Gauges
<1>10. ASSUME todo = <<Increment("published")>>, Fits, Balance(0), Ahead(0)
      PROVE  Kept
  <2>1. Counts("published") /\ Fits' /\ Ahead(0)'
    BY <1>7, <1>10
  <2>2. "published" \in Names /\ Value(metric, "published") \in Nat
    BY <1>5, <1>6
  <2> HIDE DEF m, v
  <2>3. Balance(0)'
    <3>1. /\ Value(metric', "subscriptions") = Value(metric, "subscriptions")
          /\ Value(metric', "unsubscriptions") = Value(metric, "unsubscriptions")
      BY <1>2, <2>1
    <3> QED
      BY <1>1, <1>6, <1>10, <3>1 DEF Balance
  <2>4. WorkInv'
    BY <2>1, <2>3 DEF WorkInv
  <2> QED
    BY <1>3, <2>1, <2>2, <2>4 DEF Gauges
<1>11. ASSUME todo = <<Increment("received"), Increment("success")>>,
              Fits, Balance(0), Ahead(0)
       PROVE  Kept
  <2>1. /\ m = "received" /\ v = metric["received"] + 1
        /\ todo' = <<Increment("success")>>
    BY <1>1, <1>3, <1>5, <1>6, <1>11
  <2> HIDE DEF m, v
  <2>2. Increment("success")' = Increment("success")
    BY <1>2, <2>1 DEF Increment
  <2>3. Fits'
    BY <1>2, <1>11, <2>1, FitStays
  <2>4. Balance(0)'
    BY <1>1, <1>2, <1>11, <2>1 DEF Balance
  <2>5. Ahead(1)'
    BY <1>2, <1>4, <1>6, <1>11, <2>1 DEF Ahead
  <2>6. WorkInv'
    BY <2>1, <2>2, <2>3, <2>4, <2>5 DEF WorkInv
  <2>7. \A i \in DOMAIN todo' : todo'[i] \in Names \X Nat
    BY <1>3, <1>5, <2>1
  <2> QED
    BY <1>5, <1>6, <2>1, <2>6, <2>7 DEF Gauges
<1>12. ASSUME todo = <<Increment("success")>>, Fits, Balance(0), Ahead(1)
       PROVE  Kept
  <2>1. m = "success" /\ v = metric["success"] + 1 /\ todo' = <<>>
    BY <1>1, <1>3, <1>5, <1>6, <1>12
  <2> HIDE DEF m, v
  <2>2. Fits'
    BY <1>2, <1>12, <2>1, FitStays
  <2>3. Balance(0)'
    BY <1>1, <1>2, <1>12, <2>1 DEF Balance
  <2>4. Ahead(0)'
    BY <1>2, <1>4, <1>6, <1>12, <2>1 DEF Ahead
  <2>5. WorkInv'
    BY <2>1, <2>2, <2>3, <2>4 DEF WorkInv
  <2> QED
    BY <1>3, <1>5, <1>6, <2>1, <2>5 DEF Gauges
<1>13. ASSUME NEW k \in 1..8, Ticking(k), Balance(0), Ahead(0)
       PROVE  Kept
  <2>1. /\ m = HealthWrites[k][1] /\ v = HealthWrites[k][2]
        /\ todo' = Rest(k + 1)
    BY <1>1, <1>13, RestFacts DEF Ticking
  <2> HIDE DEF m, v
  <2>2. HealthWrites' = HealthWrites /\ \A j : Rest(j)' = Rest(j)
    BY <1>1 DEF HealthWrites, Rest
  <2>3. /\ m \in Names /\ v \in Nat
        /\ m \in Gauges => v <= 1
        /\ m \notin {"received", "success", "subscriptions", "unsubscriptions"}
    BY <2>1, HealthFacts
  <2>4. \A i \in 1..k : /\ HealthWrites[i][1] \in DOMAIN metric'
                        /\ metric'[HealthWrites[i][1]] = HealthWrites[i][2]
    <3> SUFFICES ASSUME NEW i \in 1..k
                 PROVE  /\ HealthWrites[i][1] \in DOMAIN metric'
                        /\ metric'[HealthWrites[i][1]] = HealthWrites[i][2]
      OBVIOUS
    <3>1. CASE i = k
      BY <1>2, <2>1, <3>1
    <3>2. CASE i # k
      <4>1. i \in 1..(k - 1) /\ i \in 1..8
        BY <3>2
      <4>2. HealthWrites[i][1] # m
        BY <2>1, <3>2, <4>1, HealthFacts
      <4> QED
        BY <1>2, <1>13, <4>1, <4>2 DEF Ticking
    <3> QED
      BY <3>1, <3>2
  <2>5. Balance(0)' /\ Ahead(0)'
    BY <1>1, <1>2, <1>4, <1>13, <2>3 DEF Balance, Ahead
  <2>6. m = "topics" => {"mesh", "topic"} \subseteq DOMAIN metric /\ v = 1
    <3> SUFFICES ASSUME m = "topics"
                 PROVE  {"mesh", "topic"} \subseteq DOMAIN metric /\ v = 1
      OBVIOUS
    <3>1. k = 5
      BY <2>1, HealthFacts
    <3>2. /\ HealthWrites[3][1] = "mesh" /\ HealthWrites[4][1] = "topic"
          /\ HealthWrites[5][2] = 1
      BY HealthFacts
    <3> QED
      BY <1>13, <2>1, <3>1, <3>2 DEF Ticking
  <2>9. m = "success" => v >= metric["success"]
    BY <2>3
  <2>7. CASE k < 8
    <3>1. k + 1 \in 1..8 /\ (k + 1) - 1 = k
      BY <2>7
    <3>2. Ticking(k + 1)'
      BY <2>1, <2>2, <2>4, <3>1 DEF Ticking
    <3>3. WorkInv'
      BY <2>5, <3>1, <3>2 DEF WorkInv
    <3>4. \A i \in DOMAIN todo' : todo'[i] \in Names \X Nat
      <4>1. \A i \in DOMAIN todo' : i + k \in 1..8 /\ todo'[i] = HealthWrites[i + k]
        <5>1. todo' = [i \in 1..(8 - k) |-> HealthWrites[i + k]]
          <6>1. 9 - (k + 1) = 8 - k /\ \A i \in 1..(8 - k) : i + (k + 1) - 1 = i + k
            OBVIOUS
          <6> QED
            BY <2>1, <6>1 DEF Rest
        <5>2. \A i \in 1..(8 - k) : i + k \in 1..8
          OBVIOUS
        <5> QED
          BY <5>1, <5>2
      <4> QED
        BY <4>1, HealthFacts
    <3> QED
      BY <2>3, <2>6, <2>9, <3>3, <3>4, Zenon
  <2>8. CASE k = 8
    <3>1. todo' = <<>>
      BY <2>1, <2>8, RestFacts
    <3>2. Fits'
      BY <2>4, <2>8, TickFits DEF Fits
    <3>3. WorkInv'
      BY <2>5, <3>1, <3>2 DEF WorkInv
    <3>4. DOMAIN todo' = {}
      BY <1>3, <3>1
    <3> QED
      BY <2>3, <2>6, <2>9, <3>3, <3>4, Zenon
  <2> QED
    BY <2>7, <2>8
<1>14. Kept
  BY <1>1, <1>8, <1>9, <1>10, <1>11, <1>12, <1>13 DEF WorkInv
<1> HIDE DEF m, v
<1>15. TypeOK'
  BY <1>1, <1>2, <1>4, <1>14 DEF TypeOK, Gauges
<1>16. LinesInv'
  BY <1>2, <1>4, <1>14 DEF LinesInv
<1>17. PageInv'
  <2>1. metric'["success"] >= metric["success"] /\ metric'["success"] \in Nat
    BY <1>2, <1>4, <1>6, <1>14
  <2>2. metric["topics"] = 1 => metric'["topics"] = 1
    BY <1>2, <1>4, <1>14
  <2> QED
    BY <1>1, <1>6, <2>1, <2>2 DEF PageInv
<1> QED
  BY <1>14, <1>15, <1>16, <1>17

\* The encoder goes on to the first place after the one it is at.
LEMMA GoOnFacts ==
  ASSUME GoOn, at \in Places \cup {0}
  PROVE  /\ at' \in Places \cup {End} /\ at' # 0
         /\ at \in 0..14
         /\ \A i \in Places : i < at' => i < at \/ i = at
<1>1. Places \subseteq 1..14 /\ End = 15
  BY RegistryFacts DEF Places, End
<1> QED
  BY <1>1 DEF GoOn

\* The page grows by what a metric is worth when the encoder reads it.
LEMMA ReadPreserves ==
  ASSUME IInv, ReadMetric
  PROVE  PageInv' /\ DOMAIN page' \subseteq DOMAIN metric /\ at' \in Places \cup {End}
<1> USE DEF IInv
<1> DEFINE m == Registry[at]
<1>1. /\ at \in Places /\ GoOn /\ metric' = metric
      /\ page' = IF m \in DOMAIN metric THEN With(page, m, metric[m]) ELSE page
  BY DEF ReadMetric
<1>2. /\ at' \in Places \cup {End} /\ at' # 0 /\ at < at' /\ at \in 0..14
      /\ \A i \in Places : i < at' => i < at \/ i = at
      /\ \A i \in Places : i < at => i < at'
  <2>1. at < at' /\ at \in 1..14 /\ at' \in 1..15 /\ Places \subseteq 1..14
    BY <1>1, RegistryFacts DEF GoOn, Places, End
  <2> QED
    BY <1>1, <2>1, GoOnFacts
<1>3. /\ m \in Names
      /\ m = "topics" <=> at = 3
      /\ m = "received" <=> at = 9
      /\ m = "success" <=> at = 11
      /\ \A i \in Places : /\ i \in 1..14
                           /\ Registry[i] = m => i = at
                           /\ Registry[i] \in {"mesh", "topic"} => i \in {4, 5}
                           /\ Registry[i] = "success" => i = 11
  BY <1>1, RegistryFacts DEF Places
<1>4. /\ DOMAIN page' = DOMAIN page \cup (IF m \in DOMAIN metric THEN {m} ELSE {})
      /\ \A x \in DOMAIN page' : page'[x] = IF x = m THEN metric[m] ELSE page[x]
      /\ DOMAIN page \subseteq DOMAIN metric
  <2>1. \A x \in DOMAIN page : x # m
    BY <1>1, <1>3 DEF PageInv
  <2>2. DOMAIN page \subseteq DOMAIN metric
    BY DEF TypeOK
  <2> HIDE DEF m
  <2>3. CASE m \in DOMAIN metric
    BY <1>1, <2>2, <2>3 DEF With
  <2>4. CASE m \notin DOMAIN metric
    BY <1>1, <2>1, <2>2, <2>4
  <2> QED
    BY <2>3, <2>4
<1>5. /\ "received" \in DOMAIN metric /\ "success" \in DOMAIN metric
      /\ metric["received"] \in Nat /\ metric["success"] \in Nat
      /\ metric["received"] <= metric["success"] + 1
  <2>1. "received" \in DOMAIN metric /\ "success" \in DOMAIN metric
    BY PlainLines
  <2>2. metric["received"] \in Nat /\ metric["success"] \in Nat
    BY <2>1, TypeFacts
  <2>3. Ahead(0) \/ Ahead(1)
    BY Zenon DEF WorkInv
  <2> QED
    BY <2>1, <2>2, <2>3 DEF Ahead
<1> HIDE DEF m
<1>6. \A x \in DOMAIN page' : page'[x] \in Nat /\ \E i \in Places : i < at' /\ x = Registry[i]
  <2> SUFFICES ASSUME NEW x \in DOMAIN page'
               PROVE  page'[x] \in Nat /\ \E i \in Places : i < at' /\ x = Registry[i]
    OBVIOUS
  <2>1. CASE x = m
    <3>1. m \in DOMAIN metric
      BY <1>4, <2>1
    <3>2. m = Registry[at]
      BY DEF m
    <3> QED
      BY <1>1, <1>2, <1>4, <2>1, <3>1, <3>2, TypeFacts
  <2>2. CASE x # m
    <3>1. x \in DOMAIN page /\ page'[x] = page[x]
      BY <1>4, <2>2
    <3> QED
      BY <1>2, <3>1 DEF PageInv
  <2> QED
    BY <2>1, <2>2
<1>7. \A i \in Places : i < at' /\ Registry[i] \notin Families => Registry[i] \in DOMAIN page'
  <2> SUFFICES ASSUME NEW i \in Places, i < at', Registry[i] \notin Families
               PROVE  Registry[i] \in DOMAIN page'
    OBVIOUS
  <2>1. CASE i < at
    BY <1>4, <2>1 DEF PageInv
  <2>2. CASE i = at
    <3>1. Registry[i] = m /\ m \in Names \ Families
      BY <1>3, <2>2 DEF m
    <3> QED
      BY <1>4, <3>1 DEF LinesInv
  <2> QED
    BY <1>2, <2>1, <2>2
<1>8. ASSUME Value(page', "topics") = 1
      PROVE  /\ metric'["topics"] = 1
             /\ \A i \in Places :
                  i < at' /\ Registry[i] \in {"mesh", "topic"} => Registry[i] \in DOMAIN page'
  <2>1. "topics" \in DOMAIN page' /\ page'["topics"] = 1
    BY <1>8 DEF Value
  <2>2. CASE m = "topics"
    <3>1. metric["topics"] = 1
      BY <1>4, <2>1, <2>2
    <3>2. \A i \in Places : i < at' => i <= 3
      BY <1>2, <1>3, <2>2
    <3>3. \A i \in Places : Registry[i] \in {"mesh", "topic"} => ~(i < at')
      BY <1>3, <3>2
    <3> QED
      BY <1>1, <3>1, <3>3
  <2>3. CASE m # "topics"
    <3>1. "topics" \in DOMAIN page /\ page["topics"] = 1
      BY <1>4, <2>1, <2>3
    <3>2. /\ metric["topics"] = 1
          /\ \A i \in Places :
               i < at /\ Registry[i] \in {"mesh", "topic"} => Registry[i] \in DOMAIN page
      BY <3>1 DEF PageInv, Value
    <3>3. {"mesh", "topic"} \subseteq DOMAIN metric
      BY <3>2 DEF LinesInv
    <3>4. ASSUME NEW i \in Places, i < at', Registry[i] \in {"mesh", "topic"}
          PROVE  Registry[i] \in DOMAIN page'
      <4>1. CASE i < at
        BY <1>4, <3>2, <3>4, <4>1
      <4>2. CASE i = at
        <5>1. Registry[i] = m
          BY <4>2 DEF m
        <5> QED
          BY <1>4, <3>3, <3>4, <5>1
      <4> QED
        BY <1>2, <3>4, <4>1, <4>2
    <3> QED
      BY <1>1, <3>2, <3>4
  <2> QED
    BY <2>2, <2>3
<1>9. "received" \in DOMAIN page' => page'["received"] <= metric'["success"] + 1
  BY <1>1, <1>4, <1>5 DEF PageInv
<1>10. {"received", "success"} \subseteq DOMAIN page' => page'["received"] <= page'["success"] + 1
  <2> SUFFICES ASSUME {"received", "success"} \subseteq DOMAIN page'
               PROVE  page'["received"] <= page'["success"] + 1
    OBVIOUS
  <2>1. CASE m = "success"
    <3>1. /\ "received" \in DOMAIN page /\ page'["received"] = page["received"]
          /\ page'["success"] = metric["success"]
      BY <1>4, <2>1
    <3> QED
      BY <3>1 DEF PageInv
  <2>2. CASE m # "success"
    <3>1. "success" \in DOMAIN page /\ page'["success"] = page["success"]
      BY <1>4, <2>2
    <3>2. m # "received"
      <4>1. PICK i \in Places : i < at /\ "success" = Registry[i]
        BY <3>1 DEF PageInv
      <4> QED
        BY <1>2, <1>3, <4>1
    <3>3. "received" \in DOMAIN page /\ page'["received"] = page["received"]
      BY <1>4, <3>2
    <3> QED
      BY <3>1, <3>3 DEF PageInv
  <2> QED
    BY <2>1, <2>2
<1>11. PageInv'
  BY <1>2, <1>6, <1>7, <1>8, <1>9, <1>10 DEF PageInv, Places
<1>12. DOMAIN page' \subseteq DOMAIN metric
  BY <1>4
<1> QED
  BY <1>2, <1>11, <1>12

\* A page is begun, read line by line and ended; main does not notice.
LEMMA PagePreserves ==
  ASSUME IInv, BeginPage \/ ReadMetric \/ EndPage
  PROVE  IInv'
<1> USE DEF IInv
<1>1. UNCHANGED <<phase, net, pending, left, inputs, metric, todo>>
  BY DEF BeginPage, ReadMetric, EndPage, netVars
<1>2. WorkInv' /\ LinesInv'
  BY <1>1, WorkKept DEF LinesInv
<1>3. PageInv' /\ DOMAIN page' \subseteq DOMAIN metric /\ at' \in Places \cup {0, End}
  <2>1. CASE BeginPage
    <3>1. at = 0 /\ GoOn /\ page' = page
      BY <2>1 DEF BeginPage
    <3>2. /\ at' \in Places \cup {End} /\ at' # 0
          /\ \A i \in Places : ~(i < at')
      BY <3>1, GoOnFacts, RegistryFacts DEF Places
    <3>3. DOMAIN page = {}
      BY <3>1 DEF PageInv
    <3> QED
      BY <3>1, <3>2, <3>3 DEF PageInv, Value, Places
  <2>2. CASE ReadMetric
    BY <2>2, ReadPreserves
  <2>3. CASE EndPage
    <3>1. at' = 0 /\ page' = <<>> /\ DOMAIN page' = {}
      BY <2>3 DEF EndPage
    <3>2. \A i \in Places : ~(i < at')
      BY <3>1, RegistryFacts DEF Places
    <3> QED
      BY <3>1, <3>2 DEF PageInv, Value, Places
  <2> QED
    BY <2>1, <2>2, <2>3
<1>4. TypeOK'
  BY <1>1, <1>3 DEF TypeOK
<1> QED
  BY <1>2, <1>3, <1>4

-----------------------------------------------------------------------------
(* The theorems.                                                           *)

\* IInv is an inductive invariant: the actions of main and of the network, and
\* those of a scrape, preserve it.
THEOREM Invariance == Spec => []IInv
<1>1. Init => IInv
  BY InitHolds
<1>2. IInv /\ [Next]_vars => IInv'
  <2> SUFFICES ASSUME IInv, [Next]_vars
               PROVE  IInv'
    OBVIOUS
  <2> QED
    BY PhasePreserves, NetworkPreserves, WorkPreserves, WritePreserves, PagePreserves DEF Next
<1> QED
  BY <1>1, <1>2, PTL DEF Spec

\* Every gauge and counter is a number of a registered metric, and a page has
\* only lines the node has (metrics.rs).
THEOREM TypeCorrect == Spec => []TypeOK
<1>1. IInv => TypeOK
  BY DEF IInv
<1> QED
  BY <1>1, Invariance, PTL

\* Between two events the subscription counters tell how many peers are
\* subscribed or left without a word (main.rs:364-377, 523-539).
THEOREM SubscriptionsAddUp == Spec => []SubscriptionsBalance
<1>1. IInv => SubscriptionsBalance
  <2> SUFFICES ASSUME IInv, todo = <<>>
               PROVE  Value(metric, "subscriptions") - Value(metric, "unsubscriptions")
                        + pending["subscribed"] - pending["unsubscribed"] = net.subs + left
    BY DEF SubscriptionsBalance
  <2>1. Balance(0)
    BY IdleFacts DEF IInv
  <2>2. net.subs \in Nat /\ left \in Nat
    BY TypeFacts DEF IInv
  <2> QED
    BY <2>1, <2>2 DEF Balance
<1> QED
  BY <1>1, Invariance, PTL

\* Between two ticks the health gauges fit the mesh gauge, and mesh, topic and
\* connections are nested (main.rs:480-507).
THEOREM GaugesAgree == Spec => []GaugesFit
<1>1. IInv => GaugesFit
  <2> SUFFICES ASSUME IInv, todo = <<>>
               PROVE  FitOf(metric)
    BY DEF GaugesFit, FitOf
  <2> QED
    BY IdleFacts DEF IInv, Fits
<1> QED
  BY <1>1, Invariance, PTL

\* However torn, a page that counts the topic has its lines, and it has at most
\* one message more received than validated (main.rs:499-505, metrics.rs:178-181).
THEOREM PagesStayReadable == Spec => []PagesReadable
<1>1. IInv => PagesReadable
  <2> SUFFICES ASSUME IInv, at = End
               PROVE  /\ Value(page, "topics") = 1 =>
                           Watched \cap {"mesh", "topic"} \subseteq DOMAIN page
                      /\ {"received", "success"} \subseteq Watched =>
                           page["received"] <= page["success"] + 1
    BY DEF PagesReadable
  <2>1. /\ Places \subseteq 1..14 /\ \A i \in Places : i < at
        /\ \A i \in 1..14 : Registry[i] \in Watched => i \in Places
    BY RegistryFacts DEF Places, End
  <2>2. /\ Registry[4] = "mesh" /\ Registry[5] = "topic"
        /\ Registry[9] = "received" /\ Registry[11] = "success"
    BY DEF Registry
  <2>3. Value(page, "topics") = 1 => Watched \cap {"mesh", "topic"} \subseteq DOMAIN page
    <3>1. "mesh" \in Watched => 4 \in Places
      BY <2>1, <2>2
    <3>2. "topic" \in Watched => 5 \in Places
      BY <2>1, <2>2
    <3> QED
      BY <2>1, <2>2, <3>1, <3>2 DEF IInv, PageInv
  <2>4. ASSUME {"received", "success"} \subseteq Watched
        PROVE  page["received"] <= page["success"] + 1
    <3>1. 9 \in Places /\ 11 \in Places
      BY <2>1, <2>2, <2>4
    <3>2. {"received", "success"} \subseteq DOMAIN page
      BY <2>1, <2>2, <3>1 DEF IInv, PageInv, Families
    <3> QED
      BY <3>2 DEF IInv, PageInv
  <2> QED
    BY <2>3, <2>4
<1> QED
  BY <1>1, Invariance, PTL
=============================================================================
