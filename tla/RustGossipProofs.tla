-------------------------- MODULE RustGossipProofs --------------------------
(***************************************************************************)
(* Proofs that the Rust nodes of RustGossip count fragments exactly, print *)
(* a latency only for a message received whole, and at most once, so that  *)
(* they implement FragmentBroadcast: for every network, set of messages    *)
(* and sizes, number of fragments and number of losses.                    *)
(***************************************************************************)
EXTENDS RustGossip, FiniteSetTheorems, TLAPS

USE GossipAssumption

Fragment == [stamp : Stamp, len : Sizes, mark : 0..255]

\* The fragments of m that gossipsub has accepted.
Sent(m) == {Payload(stamp[m], len[m], c) : c \in 0..(out[m] - 1)}

\* A message has its time stamp and its length from its publication on, and
\* one of Distinct shares its stamp with no other.
MessageInv ==
  /\ \A m \in Message :
       IF origin[m] = None THEN stamp[m] = 0 /\ out[m] = 0
                           ELSE stamp[m] \in Stamp /\ len[m] \in Sizes
  /\ \A m \in Distinct, o \in Message :
       origin[m] # None /\ stamp[m] = stamp[o] => m = o

\* Whatever a node knows was sent, and it has counted only what it knows.
FragmentInv ==
  \A n \in Node :
    /\ handled[n] \subseteq cache[n]
    /\ IsFiniteSet(handled[n])
    /\ \A p \in wire[n] \cup cache[n] :
         \E m \in Message : origin[m] # None /\ p \in Sent(m)

IInv ==
  /\ TypeOK
  /\ MessageInv
  /\ FragmentInv
  /\ CountsAreExact

-----------------------------------------------------------------------------
(* Fragments.                                                              *)

\* Counters per node and stamp, read and written.
LEMMA CounterTypes ==
  ASSUME TypeOK, NEW n \in Node, NEW s \in Stamp
  PROVE  msgSeen[n][s] \in Nat /\ reports[n][s] \in Nat
<1>1. msgSeen \in [Node -> [Stamp -> Nat]] /\ reports \in [Node -> [Stamp -> Nat]]
  BY DEF TypeOK
<1> QED
  BY <1>1

LEMMA CounterUpdate ==
  ASSUME NEW f \in [Node -> [Stamp -> Nat]], NEW n \in Node, NEW s \in Stamp, NEW v \in Nat
  PROVE  [f EXCEPT ![n][s] = v] \in [Node -> [Stamp -> Nat]]
OBVIOUS

LEMMA PayloadFacts ==
  ASSUME NEW s \in Stamp, NEW l \in Sizes, NEW c \in Nat
  PROVE  Payload(s, l, c) \in Fragment /\ Payload(s, l, c).stamp = s
<1>1. c % 256 \in 0..255
  OBVIOUS
<1> QED
  BY <1>1 DEF Payload, Fragment

\* k chunks make at most k different fragments.
LEMMA FragmentsBounded ==
  ASSUME NEW s, NEW l, NEW k \in Nat
  PROVE  LET F == {Payload(s, l, c) : c \in 0..(k - 1)}
         IN  IsFiniteSet(F) /\ Cardinality(F) <= k
<1> DEFINE F == {Payload(s, l, c) : c \in 0..(k - 1)}
           f == [c \in 0..(k - 1) |-> Payload(s, l, c)]
<1>1. f \in Surjection(0..(k - 1), F)
  BY DEF Surjection
<1>2. IsFiniteSet(0..(k - 1)) /\ Cardinality(0..(k - 1)) = k
  BY FS_Interval
<1> HIDE DEF F, f
<1>3. IsFiniteSet(F) /\ Cardinality(F) <= k
  BY <1>1, <1>2, FS_Surjection
<1> QED
  BY <1>3 DEF F

\* What a node has counted under the stamp of a message of Distinct are
\* fragments of that message.
LEMMA CountedAreSent ==
  ASSUME TypeOK, MessageInv, FragmentInv, NEW n \in Node, NEW m \in Distinct, origin[m] # None
  PROVE  /\ Counted(n, stamp[m]) \subseteq Sent(m)
         /\ IsFiniteSet(Sent(m))
         /\ IsFiniteSet(Counted(n, stamp[m]))
         /\ Cardinality(Counted(n, stamp[m])) <= Cardinality(Sent(m))
         /\ Cardinality(Sent(m)) <= out[m]
<1>1. Counted(n, stamp[m]) \subseteq Sent(m)
  <2> SUFFICES ASSUME NEW p \in handled[n], p.stamp = stamp[m]
               PROVE  p \in Sent(m)
    BY DEF Counted
  <2>1. PICK o \in Message : origin[o] # None /\ p \in Sent(o)
    BY DEF FragmentInv
  <2>2. p.stamp = stamp[o]
    <3>1. PICK c \in 0..(out[o] - 1) : p = Payload(stamp[o], len[o], c)
      BY <2>1 DEF Sent
    <3> QED
      BY <3>1 DEF Payload
  <2> QED
    BY <2>1, <2>2 DEF MessageInv
<1>2. IsFiniteSet(Sent(m)) /\ Cardinality(Sent(m)) <= out[m]
  <2>1. out[m] \in Nat
    BY DEF TypeOK
  <2> QED
    BY <2>1, FragmentsBounded DEF Sent
<1> QED
  BY <1>1, <1>2, FS_Subset

-----------------------------------------------------------------------------
(* Each action preserves the inductive invariant.                          *)

LEMMA InitHolds ==
  ASSUME Init
  PROVE  IInv
<1>1. TypeOK
  BY DEF Init, TypeOK
<1>2. MessageInv
  BY DEF Init, MessageInv
<1>3. FragmentInv
  BY FS_EmptySet DEF Init, FragmentInv
<1>4. CountsAreExact
  <2> SUFFICES ASSUME NEW n \in Node, NEW s \in Stamp
               PROVE  /\ Cardinality(Counted(n, s)) = Chunks * reports[n][s] + msgSeen[n][s]
                      /\ msgSeen[n][s] < Chunks
    BY DEF CountsAreExact
  <2>1. Counted(n, s) = {}
    BY DEF Init, Counted
  <2>2. msgSeen[n][s] = 0 /\ reports[n][s] = 0
    BY DEF Init
  <2> QED
    BY <2>1, <2>2, FS_EmptySet
<1> QED
  BY <1>1, <1>2, <1>3, <1>4 DEF IInv

\* A publication adds fragments of a message that had none.
LEMMA PublishPreserves ==
  ASSUME IInv, NEW n \in Node, NEW m \in Message, NEW l \in Sizes, NEW s \in Stamp,
         Publish(n, m, l, s)
  PROVE  IInv'
<1> USE DEF IInv
<1>1. PICK k \in ChunksTried :
        LET sent == {Payload(s, l, c) : c \in 0..(k - 1)}
        IN  /\ out' = [out EXCEPT ![m] = k]
            /\ cache' = [cache EXCEPT ![n] = @ \cup sent]
            /\ wire' = [q \in Node |-> IF q = n THEN wire[q] ELSE wire[q] \cup (sent \ cache[q])]
  BY DEF Publish, Accepted
<1> DEFINE sent == {Payload(s, l, c) : c \in 0..(k - 1)}
<1>2. /\ origin[m] = None
      /\ \A o \in Message : stamp[o] = s => {m, o} \cap Distinct = {}
      /\ origin' = [origin EXCEPT ![m] = n]
      /\ stamp' = [stamp EXCEPT ![m] = s]
      /\ len' = [len EXCEPT ![m] = l]
      /\ UNCHANGED <<phase, lost, msgSeen, handled, discarded, reports>>
  BY DEF Publish, appVars
<1>3. k \in 0..Chunks
  BY DEF ChunksTried
<1>4. sent \subseteq Fragment
  BY <1>3, PayloadFacts
<1>5. /\ Sent(m)' = sent
      /\ \A o \in Message \ {m} : Sent(o)' = Sent(o)
  BY <1>1, <1>2 DEF Sent, TypeOK
<1> HIDE DEF sent
<1>6. TypeOK'
  <2>1. /\ out' = [out EXCEPT ![m] = k]
        /\ cache' = [cache EXCEPT ![n] = @ \cup sent]
        /\ wire' = [q \in Node |-> IF q = n THEN wire[q] ELSE wire[q] \cup (sent \ cache[q])]
    BY <1>1 DEF sent
  <2>2. origin' \in [Message -> Node \cup {None}] /\ out' \in [Message -> 0..Chunks]
    BY <1>2, <1>3, <2>1 DEF TypeOK
  <2>3. stamp' \in [Message -> {0} \cup Stamp] /\ len' \in [Message -> {0} \cup Sizes]
    BY <1>2 DEF TypeOK
  <2>4. cache' \in [Node -> SUBSET Fragment] /\ wire' \in [Node -> SUBSET Fragment]
    <3>1. cache \in [Node -> SUBSET Fragment] /\ wire \in [Node -> SUBSET Fragment]
      BY DEF TypeOK, Fragment
    <3> QED
      BY <1>4, <2>1, <3>1
  <2> QED
    BY <1>2, <2>2, <2>3, <2>4 DEF TypeOK, Fragment
<1>7. MessageInv'
  BY <1>1, <1>2, <1>3 DEF MessageInv, TypeOK
<1>8. FragmentInv'
  <2> SUFFICES ASSUME NEW q \in Node
               PROVE  /\ handled'[q] \subseteq cache'[q]
                      /\ IsFiniteSet(handled'[q])
                      /\ \A p \in wire'[q] \cup cache'[q] :
                           \E o \in Message : origin'[o] # None /\ p \in Sent(o)'
    BY DEF FragmentInv
  <2>1. cache'[q] \subseteq cache[q] \cup sent /\ cache[q] \subseteq cache'[q]
    BY <1>1 DEF TypeOK, sent
  <2>2. wire'[q] \subseteq wire[q] \cup sent
    BY <1>1 DEF TypeOK, sent
  <2>3. ASSUME NEW p \in wire'[q] \cup cache'[q]
        PROVE  \E o \in Message : origin'[o] # None /\ p \in Sent(o)'
    <3>1. CASE p \in sent
      BY <3>1, <1>2, <1>5 DEF TypeOK
    <3>2. CASE p \in wire[q] \cup cache[q]
      <4>1. PICK o \in Message : origin[o] # None /\ p \in Sent(o)
        BY <3>2 DEF FragmentInv
      <4>2. o # m
        BY <1>2, <4>1
      <4>3. Sent(o)' = Sent(o)
        BY <1>5, <4>2
      <4>4. origin'[o] = origin[o]
        <5>1. origin \in [Message -> Node \cup {None}]
          BY DEF TypeOK
        <5> QED
          BY <1>2, <4>2, <5>1
      <4> QED
        BY <4>1, <4>3, <4>4
    <3> QED
      BY <2>1, <2>2, <3>1, <3>2
  <2> QED
    BY <1>2, <2>1, <2>3 DEF FragmentInv
<1>9. CountsAreExact'
  BY <1>2 DEF CountsAreExact, Counted
<1> QED
  BY <1>6, <1>7, <1>8, <1>9

\* A fragment that is counted was not counted before: the duplicate cache
\* keeps handled from growing by less than the count.
LEMMA HandleCounts ==
  ASSUME IInv, NEW n \in Node, NEW p \in wire[n], p \notin cache[n], Handle(n, p)
  PROVE  CountsAreExact'
<1> USE DEF IInv
<1>1. p \in Fragment /\ p.stamp \in Stamp
  BY DEF TypeOK, Fragment
<1>2. p \notin handled[n] /\ IsFiniteSet(handled[n])
  BY DEF FragmentInv
<1> DEFINE s == p.stamp
           count == msgSeen[n][s] + 1
<1>3. /\ handled' = [handled EXCEPT ![n] = @ \cup {p}]
      /\ msgSeen' = [msgSeen EXCEPT ![n][s] = Kept(count)]
      /\ \/ ~Complete(count) /\ reports' = reports
         \/ Complete(count) /\ reports' = [reports EXCEPT ![n][s] = @ + 1]
  BY DEF Handle
<1> SUFFICES ASSUME NEW q \in Node, NEW t \in Stamp
             PROVE  /\ Cardinality(Counted(q, t)') = Chunks * reports'[q][t] + msgSeen'[q][t]
                    /\ msgSeen'[q][t] < Chunks
  BY DEF CountsAreExact
<1>4. CASE q = n /\ t = s
  <2>1. Counted(n, s)' = Counted(n, s) \cup {p} /\ p \notin Counted(n, s)
    BY <1>2, <1>3 DEF Counted, TypeOK
  <2>2. Cardinality(Counted(n, s)') = Cardinality(Counted(n, s)) + 1
    <3>1. IsFiniteSet(Counted(n, s))
      BY <1>2, FS_Subset DEF Counted
    <3> QED
      BY <2>1, <3>1, FS_AddElement
  <2>3. /\ Cardinality(Counted(n, s)) = Chunks * reports[n][s] + msgSeen[n][s]
        /\ msgSeen[n][s] < Chunks
        /\ reports[n][s] \in Nat /\ msgSeen[n][s] \in Nat
    <3>1. reports[n][s] \in Nat /\ msgSeen[n][s] \in Nat
      BY <1>1, CounterTypes
    <3>2. /\ Cardinality(Counted(n, s)) = Chunks * reports[n][s] + msgSeen[n][s]
          /\ msgSeen[n][s] < Chunks
      BY <1>1, Zenon DEF CountsAreExact
    <3> QED
      BY <3>1, <3>2
  <2>0. /\ msgSeen'[n][s] = Kept(count)
        /\ ~Complete(count) => reports'[n][s] = reports[n][s]
        /\ Complete(count) => reports'[n][s] = reports[n][s] + 1
    <3>1. /\ msgSeen \in [Node -> [Stamp -> Nat]] /\ reports \in [Node -> [Stamp -> Nat]]
      BY DEF TypeOK
    <3> HIDE DEF s, count
    <3>2. s \in Stamp
      BY <1>1 DEF s
    <3> QED
      BY <1>3, <3>1, <3>2
  <2>4. CASE ~Complete(count)
    <3>1. msgSeen'[n][s] = count /\ reports'[n][s] = reports[n][s] /\ count < Chunks
      <4>1. Kept(count) = count /\ count < Chunks
        BY <2>3, <2>4 DEF Kept, Complete
      <4> QED
        BY <2>0, <2>4, <4>1
    <3> QED
      BY <1>4, <2>2, <2>3, <3>1
  <2>5. CASE Complete(count)
    <3>1. msgSeen'[n][s] = 0 /\ reports'[n][s] = reports[n][s] + 1 /\ count = Chunks
      <4>1. Kept(count) = 0 /\ count = Chunks
        BY <2>3, <2>5 DEF Kept, Complete
      <4> QED
        BY <2>0, <2>5, <4>1
    <3> QED
      BY <1>4, <2>2, <2>3, <3>1
  <2> QED
    BY <2>4, <2>5
<1>5. CASE ~(q = n /\ t = s)
  <2>1. Counted(q, t)' = Counted(q, t)
    BY <1>3, <1>5 DEF Counted, TypeOK
  <2>2. msgSeen'[q][t] = msgSeen[q][t] /\ reports'[q][t] = reports[q][t]
    BY <1>1, <1>3, <1>5 DEF TypeOK
  <2> QED
    BY <2>1, <2>2 DEF CountsAreExact
<1> QED
  BY <1>4, <1>5

\* A delivery moves a fragment from the wire to the cache, and perhaps into
\* the count.
LEMMA DeliverPreserves ==
  ASSUME IInv, NEW n \in Node, NEW p \in wire[n], Deliver(n, p)
  PROVE  IInv'
<1> USE DEF IInv
<1>1. /\ wire' = [wire EXCEPT ![n] = @ \ {p}]
      /\ cache' = [cache EXCEPT ![n] = @ \cup {p}]
      /\ UNCHANGED <<phase, origin, stamp, len, out, lost>>
  BY DEF Deliver, netVars
<1>2. p \in Fragment /\ p.stamp \in Stamp
  BY DEF TypeOK, Fragment
<1>3. /\ handled' = handled \/ handled' = [handled EXCEPT ![n] = @ \cup {p}]
      /\ discarded' = discarded \/ discarded' = [discarded EXCEPT ![n] = @ \cup {p}]
  BY DEF Deliver, Discard, Handle, appVars
<1>4. TypeOK'
  <2>1. msgSeen' \in [Node -> [Stamp -> Nat]] /\ reports' \in [Node -> [Stamp -> Nat]]
    <3>1. CASE UNCHANGED <<msgSeen, reports>>
      BY <3>1 DEF TypeOK
    <3>2. CASE Handle(n, p)
      <4>0. msgSeen[n][p.stamp] \in Nat /\ reports[n][p.stamp] \in Nat
        BY <1>2, CounterTypes
      <4>1. Kept(msgSeen[n][p.stamp] + 1) \in Nat /\ reports[n][p.stamp] + 1 \in Nat
        BY <4>0 DEF Kept
      <4>2. /\ msgSeen' = [msgSeen EXCEPT ![n][p.stamp] = Kept(msgSeen[n][p.stamp] + 1)]
            /\ \/ reports' = reports
               \/ reports' = [reports EXCEPT ![n][p.stamp] = reports[n][p.stamp] + 1]
        BY <3>2 DEF Handle
      <4>3. msgSeen' \in [Node -> [Stamp -> Nat]]
        BY <4>1, <4>2, <1>2, CounterUpdate DEF TypeOK
      <4>4. reports' \in [Node -> [Stamp -> Nat]]
        <5>1. reports \in [Node -> [Stamp -> Nat]]
          BY DEF TypeOK
        <5>2. [reports EXCEPT ![n][p.stamp] = reports[n][p.stamp] + 1] \in [Node -> [Stamp -> Nat]]
          BY <4>1, <5>1, <1>2, CounterUpdate
        <5>3. CASE reports' = reports
          BY <5>1, <5>3
        <5>4. CASE reports' = [reports EXCEPT ![n][p.stamp] = reports[n][p.stamp] + 1]
          BY <5>2, <5>4
        <5> QED
          BY <4>2, <5>3, <5>4
      <4> QED
        BY <4>3, <4>4
    <3> QED
      BY <3>1, <3>2 DEF Deliver, Discard, appVars
  <2>2. /\ wire' \in [Node -> SUBSET Fragment]
        /\ cache' \in [Node -> SUBSET Fragment]
        /\ handled' \in [Node -> SUBSET Fragment]
        /\ discarded' \in [Node -> SUBSET Fragment]
    <3>1. /\ wire \in [Node -> SUBSET Fragment] /\ cache \in [Node -> SUBSET Fragment]
          /\ handled \in [Node -> SUBSET Fragment] /\ discarded \in [Node -> SUBSET Fragment]
      BY DEF TypeOK, Fragment
    <3> QED
      BY <1>1, <1>2, <1>3, <3>1
  <2> QED
    BY <1>1, <2>1, <2>2 DEF TypeOK, Fragment
<1>5. MessageInv'
  BY <1>1 DEF MessageInv
<1>6. FragmentInv'
  <2>1. \A m \in Message : Sent(m)' = Sent(m)
    BY <1>1 DEF Sent
  <2>2. \A q \in Node : wire'[q] \cup cache'[q] \subseteq wire[q] \cup cache[q]
    BY <1>1 DEF TypeOK
  <2>3. ASSUME NEW q \in Node
        PROVE  handled'[q] \subseteq cache'[q] /\ IsFiniteSet(handled'[q])
    <3>1. handled'[q] = handled[q] \/ (q = n /\ handled'[q] = handled[q] \cup {p})
      BY <1>3 DEF TypeOK
    <3>2. IsFiniteSet(handled'[q])
      <4>1. IsFiniteSet(handled[q])
        BY DEF FragmentInv
      <4> QED
        BY <3>1, <4>1, FS_AddElement
    <3>3. handled'[q] \subseteq cache'[q]
      BY <1>1, <3>1 DEF FragmentInv, TypeOK
    <3> QED
      BY <3>2, <3>3
  <2> QED
    BY <1>1, <2>1, <2>2, <2>3 DEF FragmentInv
<1>7. CountsAreExact'
  <2>1. CASE UNCHANGED <<msgSeen, handled, reports>>
    BY <2>1 DEF CountsAreExact, Counted
  <2>2. CASE p \notin cache[n] /\ Handle(n, p)
    BY <2>2, HandleCounts
  <2> QED
    BY <2>1, <2>2 DEF Deliver, Discard, appVars
<1> QED
  BY <1>4, <1>5, <1>6, <1>7

\* The other steps count nothing and send nothing.
LEMMA RestPreserves ==
  ASSUME IInv,
         \/ \E n \in Node : StartConnecting(n) \/ StartRunning(n) \/ EndsEarly(n)
         \/ \E n \in Node : \E p \in wire[n] : Lose(n, p)
         \/ UNCHANGED vars
  PROVE  IInv'
<1> USE DEF IInv
<1>1. UNCHANGED <<origin, stamp, len, out, cache, msgSeen, handled, discarded, reports>>
  BY DEF StartConnecting, StartRunning, EndsEarly, Lose, vars, netVars, appVars
<1>2. /\ phase' \in [Node -> {"starting", "connecting", "running", "ended"}]
      /\ lost' \in 0..MaxLost
      /\ wire' \in [Node -> SUBSET Fragment]
      /\ \A n \in Node : wire'[n] \subseteq wire[n]
  <2>1. ASSUME NEW n \in Node, StartConnecting(n) \/ StartRunning(n) \/ EndsEarly(n)
        PROVE  phase' \in [Node -> {"starting", "connecting", "running", "ended"}]
               /\ UNCHANGED <<lost, wire>>
    <3>1. PICK x \in {"connecting", "running", "ended"} : phase' = [phase EXCEPT ![n] = x]
      BY <2>1 DEF StartConnecting, StartRunning, EndsEarly
    <3>2. phase \in [Node -> {"starting", "connecting", "running", "ended"}]
      BY DEF TypeOK
    <3>3. UNCHANGED <<lost, wire>>
      BY <2>1 DEF StartConnecting, StartRunning, EndsEarly
    <3> QED
      BY <3>1, <3>2, <3>3
  <2>2. ASSUME NEW n \in Node, NEW p \in wire[n], Lose(n, p)
        PROVE  /\ UNCHANGED phase /\ lost' \in 0..MaxLost
               /\ wire' = [wire EXCEPT ![n] = @ \ {p}]
    BY <2>2 DEF Lose, TypeOK
  <2>3. /\ phase \in [Node -> {"starting", "connecting", "running", "ended"}]
        /\ lost \in 0..MaxLost
        /\ wire \in [Node -> SUBSET Fragment]
    BY DEF TypeOK, Fragment
  <2>4. CASE UNCHANGED vars
    BY <2>3, <2>4 DEF vars, netVars
  <2>5. CASE \E n \in Node : StartConnecting(n) \/ StartRunning(n) \/ EndsEarly(n)
    BY <2>1, <2>3, <2>5
  <2>6. CASE \E n \in Node : \E p \in wire[n] : Lose(n, p)
    <3>1. PICK n \in Node : \E p \in wire[n] : Lose(n, p)
      BY <2>6
    <3>4. PICK p \in wire[n] : Lose(n, p)
      BY <3>1
    <3>2. UNCHANGED phase /\ lost' \in 0..MaxLost /\ wire' = [wire EXCEPT ![n] = @ \ {p}]
      BY <2>2, <3>4
    <3>3. wire' \in [Node -> SUBSET Fragment] /\ \A q \in Node : wire'[q] \subseteq wire[q]
      BY <2>3, <3>2
    <3> QED
      BY <2>3, <3>2, <3>3
  <2> QED
    BY <2>4, <2>5, <2>6
<1>3. TypeOK'
  BY <1>1, <1>2 DEF TypeOK, Fragment
<1>4. MessageInv'
  BY <1>1 DEF MessageInv
<1>5. FragmentInv'
  <2>1. \A m \in Message : Sent(m)' = Sent(m)
    BY <1>1 DEF Sent
  <2> QED
    BY <1>1, <1>2, <2>1 DEF FragmentInv
<1>6. CountsAreExact'
  BY <1>1 DEF CountsAreExact, Counted
<1> QED
  BY <1>3, <1>4, <1>5, <1>6

-----------------------------------------------------------------------------

\* The inductive invariant holds of every behaviour.
THEOREM Invariance == Spec => []IInv
<1>1. Init => IInv
  BY InitHolds
<1>2. IInv /\ [Next]_vars => IInv'
  BY PublishPreserves, DeliverPreserves, RestPreserves DEF Next
<1> QED
  BY <1>1, <1>2, PTL DEF Spec

\* The variables keep their types.
THEOREM TypeCorrect == Spec => []TypeOK
<1>1. IInv => TypeOK
  BY DEF IInv
<1> QED
  BY <1>1, Invariance, PTL

\* MSG_SEEN counts every fragment once and forgets what it has printed
\* (main.rs:83-96).
THEOREM ExactCounts == Spec => []CountsAreExact
<1>1. IInv => CountsAreExact
  BY DEF IInv
<1> QED
  BY <1>1, Invariance, PTL

\* A report of a message of Distinct needs as many different fragments of it as
\* there can be; and there is one at most.
LEMMA ReportNeedsAll ==
  ASSUME IInv, NEW n \in Node, NEW m \in Distinct, origin[m] # None, reports[n][stamp[m]] > 0
  PROVE  /\ out[m] = Chunks
         /\ Counted(n, stamp[m]) = Sent(m)
         /\ reports[n][stamp[m]] = 1
<1> DEFINE s == stamp[m]
           r == reports[n][s]
<1>1. s \in Stamp
  BY DEF IInv, MessageInv
<1>2. /\ Counted(n, s) \subseteq Sent(m)
      /\ IsFiniteSet(Sent(m)) /\ IsFiniteSet(Counted(n, s))
      /\ Cardinality(Counted(n, s)) <= Cardinality(Sent(m))
      /\ Cardinality(Sent(m)) <= out[m]
  BY CountedAreSent DEF IInv
<1>3. /\ Cardinality(Counted(n, s)) = Chunks * r + msgSeen[n][s]
      /\ r \in Nat /\ msgSeen[n][s] \in Nat
  <2>1. Cardinality(Counted(n, s)) = Chunks * r + msgSeen[n][s]
    BY <1>1, Zenon DEF IInv, CountsAreExact
  <2> QED
    BY <1>1, <2>1, CounterTypes DEF IInv
<1>4. out[m] \in 0..Chunks /\ Cardinality(Sent(m)) \in Nat
  BY <1>2, FS_CardinalityType DEF IInv, TypeOK
<1> HIDE DEF s, r
<1>5. Chunks * r >= Chunks /\ (r > 1 => Chunks * r >= Chunks + Chunks)
  <2>1. r > 0
    BY DEF r, s
  <2> QED
    BY <1>3, <2>1
<1>6. Cardinality(Counted(n, s)) = Chunks /\ Cardinality(Sent(m)) = Chunks /\ out[m] = Chunks /\ r = 1
  BY <1>2, <1>3, <1>4, <1>5
<1>7. Counted(n, s) = Sent(m)
  BY <1>2, <1>6, FS_Subset
<1> QED
  BY <1>6, <1>7 DEF s, r

LEMMA WholeInv ==
  ASSUME IInv
  PROVE  ReportsAreWhole
<1> SUFFICES ASSUME NEW n \in Node, NEW m \in Distinct, Reported(n, m)
             PROVE  out[m] = Chunks /\ Fragments(stamp[m], len[m]) \subseteq handled[n]
  BY DEF ReportsAreWhole
<1>1. reports[n][stamp[m]] > 0 /\ origin[m] # None
  BY DEF Reported, IInv, MessageInv
<1>2. out[m] = Chunks /\ Counted(n, stamp[m]) = Sent(m)
  BY <1>1, ReportNeedsAll
<1> QED
  BY <1>2 DEF Sent, Fragments, Counted

\* A latency line stands for a whole message, though fragments are only counted
\* (main.rs:83-96).
THEOREM ReportsWholeMessages == Spec => []ReportsAreWhole
<1>1. IInv => ReportsAreWhole
  BY WholeInv
<1> QED
  BY <1>1, Invariance, PTL

-----------------------------------------------------------------------------
(* RustGossip implements FragmentBroadcast.                                *)

\* What ReportNeedsAll says of the counters.
ReportInv ==
  \A n \in Node, m \in Distinct :
    origin[m] # None /\ reports[n][stamp[m]] > 0 => out[m] = Chunks /\ reports[n][stamp[m]] = 1

Whole == {m \in Distinct : out[m] = Chunks}
Report == [n \in Node |-> [m \in Distinct |-> IF stamp[m] = 0 THEN 0 ELSE reports[n][stamp[m]]]]

\* A publication that went out whole is a Publish of the abstract network, any
\* other a stutter: nobody has reported under its stamp yet.
LEMMA PublishRefines ==
  ASSUME IInv, NEW n \in Node, NEW m \in Message, NEW l \in Sizes, NEW s \in Stamp,
         Publish(n, m, l, s)
  PROVE  \/ m \in Distinct /\ m \notin Whole /\ Whole' = Whole \cup {m} /\ Report' = Report
         \/ Whole' = Whole /\ Report' = Report
<1>1. /\ origin[m] = None
      /\ \A o \in Message : stamp[o] = s => {m, o} \cap Distinct = {}
      /\ stamp' = [stamp EXCEPT ![m] = s]
      /\ reports' = reports
      /\ \E k \in ChunksTried : out' = [out EXCEPT ![m] = k]
  BY DEF Publish, appVars, Accepted
<1>2. stamp[m] = 0 /\ out[m] = 0 /\ s # 0
  BY <1>1 DEF IInv, MessageInv
<1>3. Report' = Report
  <2>1. ASSUME NEW q \in Node, NEW o \in Distinct
        PROVE  (IF stamp'[o] = 0 THEN 0 ELSE reports'[q][stamp'[o]])
                 = (IF stamp[o] = 0 THEN 0 ELSE reports[q][stamp[o]])
    <3>1. CASE o # m
      BY <1>1, <3>1 DEF IInv, TypeOK
    <3>2. CASE o = m
      <4>1. stamp'[m] = s
        BY <1>1 DEF IInv, TypeOK
      <4>2. Counted(q, s) = {}
        <5> SUFFICES ASSUME NEW p \in handled[q], p.stamp = s
                     PROVE  FALSE
          BY DEF Counted
        <5>1. PICK e \in Message : origin[e] # None /\ p \in Sent(e)
          BY DEF IInv, FragmentInv
        <5>2. p.stamp = stamp[e]
          BY <5>1 DEF Sent, Payload
        <5> QED
          BY <1>1, <3>2, <5>2
      <4>3. Cardinality(Counted(q, s)) = Chunks * reports[q][s] + msgSeen[q][s]
        BY Zenon DEF IInv, CountsAreExact
      <4>4. reports[q][s] \in Nat /\ msgSeen[q][s] \in Nat
        BY CounterTypes DEF IInv
      <4>5. 0 = Chunks * reports[q][s] + msgSeen[q][s]
        BY <4>2, <4>3, FS_EmptySet
      <4>6. reports[q][s] = 0
        BY <4>4, <4>5
      <4> QED
        BY <1>1, <1>2, <3>2, <4>1, <4>6
    <3> QED
      BY <3>1, <3>2
  <2> QED
    BY <2>1 DEF Report
<1>4. \/ Whole' = Whole
      \/ m \in Distinct /\ Whole' = Whole \cup {m}
  BY <1>1, <1>2 DEF Whole, IInv, TypeOK
<1>5. m \notin Whole
  BY <1>2 DEF Whole
<1> QED
  BY <1>3, <1>4, <1>5

\* A delivery that completes a message of Distinct is its Report; any other is
\* a stutter.
LEMMA DeliverRefines ==
  ASSUME IInv, ReportInv', NEW n \in Node, NEW p \in wire[n], Deliver(n, p)
  PROVE  /\ Whole' = Whole
         /\ \/ Report' = Report
            \/ \E m \in Distinct :
                 /\ m \in Whole
                 /\ Report[n][m] = 0
                 /\ Report' = [Report EXCEPT ![n][m] = 1]
<1>1. UNCHANGED <<stamp, out, origin>> /\ Whole' = Whole
  BY DEF Deliver, netVars, Whole
<1>2. p.stamp \in Stamp
  BY DEF IInv, TypeOK
<1>3. reports' = reports \/ reports' = [reports EXCEPT ![n][p.stamp] = reports[n][p.stamp] + 1]
  BY DEF Deliver, Handle, Discard, appVars
<1>4. CASE reports' = reports
  BY <1>1, <1>4 DEF Report
<1>5. CASE reports' = [reports EXCEPT ![n][p.stamp] = reports[n][p.stamp] + 1]
  <2>1. ASSUME NEW q \in Node, NEW t \in Stamp
        PROVE  reports'[q][t] = IF q = n /\ t = p.stamp THEN reports[q][t] + 1 ELSE reports[q][t]
    BY <1>2, <1>5 DEF IInv, TypeOK
  <2>2. CASE \E m \in Distinct : stamp[m] = p.stamp
    <3>1. PICK m \in Distinct : stamp[m] = p.stamp
      BY <2>2
    <3>2. origin[m] # None
      BY <1>2, <3>1 DEF IInv, MessageInv
    <3>3. reports[n][stamp[m]] \in Nat
      BY <1>2, <3>1, CounterTypes DEF IInv
    <3>4. reports'[n][stamp[m]] = reports[n][stamp[m]] + 1
      BY <1>2, <2>1, <3>1
    <3>5. out[m] = Chunks /\ reports'[n][stamp[m]] = 1
      <4>1. reports'[n][stamp'[m]] > 0 /\ origin'[m] # None
        BY <1>1, <3>2, <3>3, <3>4
      <4>2. out'[m] = Chunks /\ reports'[n][stamp'[m]] = 1
        BY <4>1 DEF ReportInv
      <4> QED
        BY <1>1, <4>2
    <3>6. reports[n][stamp[m]] = 0
      BY <3>3, <3>4, <3>5
    <3>7. \A o \in Distinct : stamp[o] = p.stamp => o = m
      BY <3>1, <3>2 DEF IInv, MessageInv
    <3>8. m \in Whole /\ Report[n][m] = 0
      BY <1>2, <3>1, <3>5, <3>6 DEF Whole, Report
    <3>9. Report' = [Report EXCEPT ![n][m] = 1]
      <4>1. ASSUME NEW q \in Node, NEW o \in Distinct
            PROVE  (IF stamp[o] = 0 THEN 0 ELSE reports'[q][stamp[o]])
                     = IF q = n /\ o = m THEN 1
                       ELSE IF stamp[o] = 0 THEN 0 ELSE reports[q][stamp[o]]
        <5>1. stamp[o] = 0 \/ stamp[o] \in Stamp
          BY DEF IInv, MessageInv
        <5> QED
          BY <1>2, <2>1, <3>1, <3>5, <3>7, <5>1
      <4> DEFINE after == [q \in Node |-> [o \in Distinct |->
                             IF q = n /\ o = m THEN 1
                             ELSE IF stamp[o] = 0 THEN 0 ELSE reports[q][stamp[o]]]]
      <4>2. Report' = after
        BY <1>1, <4>1 DEF Report
      <4>3. [Report EXCEPT ![n][m] = 1] = after
        BY DEF Report
      <4> QED
        BY <4>2, <4>3
    <3> QED
      BY <1>1, <3>8, <3>9
  <2>3. CASE ~ \E m \in Distinct : stamp[m] = p.stamp
    <3>1. ASSUME NEW q \in Node, NEW o \in Distinct
          PROVE  (IF stamp[o] = 0 THEN 0 ELSE reports'[q][stamp[o]])
                   = IF stamp[o] = 0 THEN 0 ELSE reports[q][stamp[o]]
      <4>1. stamp[o] = 0 \/ stamp[o] \in Stamp
        BY DEF IInv, MessageInv
      <4> QED
        BY <2>1, <2>3, <4>1
    <3>2. Report' = Report
      BY <1>1, <3>1 DEF Report
    <3> QED
      BY <1>1, <3>2
  <2> QED
    BY <2>2, <2>3
<1> QED
  BY <1>3, <1>4, <1>5

\* Each node measures a message with a stamp of its own at most once, and only
\* when all its fragments went out, whatever the network does to them and
\* whatever becomes of messages that collide (main.rs:79-99).
THEOREM Measures == Spec => MeasuresOnce
<1>1. Init => Broadcast!Init
  BY DEF Init, Broadcast!Init
<1>2. IInv => ReportInv
  BY ReportNeedsAll DEF ReportInv
<1>3. IInv /\ ReportInv' /\ [Next]_vars => [Broadcast!Next]_(Broadcast!vars)
  <2> SUFFICES ASSUME IInv, ReportInv', [Next]_vars
               PROVE  [Broadcast!Next]_(Broadcast!vars)
    OBVIOUS
  <2>1. ASSUME NEW n \in Node, NEW m \in Message, NEW l \in Sizes, NEW s \in Stamp,
               Publish(n, m, l, s)
        PROVE  [Broadcast!Next]_(Broadcast!vars)
    BY <2>1, PublishRefines DEF Broadcast!Next, Broadcast!vars, Broadcast!Publish, Whole, Report
  <2>2. ASSUME NEW n \in Node, NEW p \in wire[n], Deliver(n, p)
        PROVE  [Broadcast!Next]_(Broadcast!vars)
    BY <2>2, DeliverRefines DEF Broadcast!Next, Broadcast!vars, Broadcast!Report, Whole, Report
  <2>3. CASE UNCHANGED <<stamp, out, reports>>
    BY <2>3 DEF Broadcast!vars
  <2> QED
    BY <2>1, <2>2, <2>3
    DEF Next, StartConnecting, StartRunning, EndsEarly, Lose, vars, netVars, appVars
<1> QED
  BY <1>1, <1>2, <1>3, Invariance, PTL DEF Spec, MeasuresOnce, Broadcast!Spec
=============================================================================
