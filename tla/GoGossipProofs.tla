--------------------------- MODULE GoGossipProofs ---------------------------
(***************************************************************************)
(* Proofs that the Go nodes of GoGossip print a latency only for a message *)
(* they have counted every fragment of, and at most once, so that they     *)
(* implement FragmentBroadcast, though a payload is overwritten while it   *)
(* is queued and no entry of msgSeen is ever removed: for every network,   *)
(* set of messages and sizes, number of fragments and number of losses.    *)
(***************************************************************************)
EXTENDS GoGossip, FiniteSetTheorems, TLAPS

USE GoAssumption

\* The fragment of m that carries index c, and those its payload has been.
Part(m, c) == [msg |-> m, len |-> len[m], mark |-> c % 256]
Sent(m) == {Part(m, c) : c \in 0..(written[m] - 1)}

Counted(n, m) == {p \in handled[n] : p.msg = m}

\* A message has its publisher and length from its request on.
MessageInv ==
  \A m \in Message :
    /\ pc[m] = "idle" => written[m] = 0
    /\ pc[m] # "idle" => origin[m] \in Node /\ len[m] \in Sizes
    /\ pc[m] = "write" => written[m] < Chunks
    /\ pc[m] = "publish" => written[m] > 0

\* No queue holds more fragments of a message than were published.
QueueInv ==
  \A q \in Node, m \in Message :
    /\ unsent[q][m] <= written[m]
    /\ pc[m] = "publish" => unsent[q][m] < written[m]

\* Whatever a node knows, the payload of its message has been; what waits in
\* the subscription has not been counted.
FragmentInv ==
  \A n \in Node :
    /\ handled[n] \cup inbox[n] \subseteq cache[n]
    /\ handled[n] \cap inbox[n] = {}
    /\ IsFiniteSet(handled[n])
    /\ \A p \in wire[n] \cup cache[n] : p \in Sent(p.msg)

CountInv == \A n \in Node, m \in Message : msgSeen[n][m] = Cardinality(Counted(n, m))

\* The count stops at Chunks, and it is there that the message is reported.
ReportInv ==
  \A n \in Node, m \in Message :
    /\ msgSeen[n][m] <= Chunks
    /\ reports[n][m] = IF msgSeen[n][m] = Chunks THEN 1 ELSE 0

IInv ==
  /\ TypeOK
  /\ MessageInv
  /\ QueueInv
  /\ FragmentInv
  /\ CountInv
  /\ ReportInv

-----------------------------------------------------------------------------
(* Fragments and counts.                                                   *)

\* k chunks make at most k different fragments.
LEMMA PartsBounded ==
  ASSUME NEW m, NEW k \in Nat
  PROVE  LET F == {Part(m, c) : c \in 0..(k - 1)}
         IN  IsFiniteSet(F) /\ Cardinality(F) <= k
<1> DEFINE F == {Part(m, c) : c \in 0..(k - 1)}
           f == [c \in 0..(k - 1) |-> Part(m, c)]
<1>1. f \in Surjection(0..(k - 1), F)
  BY DEF Surjection
<1>2. IsFiniteSet(0..(k - 1)) /\ Cardinality(0..(k - 1)) = k
  BY FS_Interval
<1> HIDE DEF F, f
<1>3. IsFiniteSet(F) /\ Cardinality(F) <= k
  BY <1>1, <1>2, FS_Surjection
<1> QED
  BY <1>3 DEF F

\* A node has counted at most as many fragments of a message as were written.
LEMMA CountedAreSent ==
  ASSUME TypeOK, FragmentInv, NEW n \in Node, NEW m \in Message
  PROVE  /\ Counted(n, m) \subseteq Sent(m)
         /\ IsFiniteSet(Sent(m))
         /\ IsFiniteSet(Counted(n, m))
         /\ Cardinality(Counted(n, m)) <= Cardinality(Sent(m))
         /\ Cardinality(Sent(m)) <= written[m]
         /\ Cardinality(Sent(m)) \in Nat
         /\ written[m] \in 0..Chunks
<1>1. Counted(n, m) \subseteq Sent(m)
  BY DEF Counted, FragmentInv
<1>2. IsFiniteSet(Sent(m)) /\ Cardinality(Sent(m)) <= written[m] /\ written[m] \in 0..Chunks
  <2>1. written[m] \in Nat /\ written[m] \in 0..Chunks
    BY DEF TypeOK
  <2> QED
    BY <2>1, PartsBounded DEF Sent
<1> QED
  BY <1>1, <1>2, FS_Subset, FS_CardinalityType

\* The payload of a message that is being published is one of its fragments.
LEMMA PayloadIsSent ==
  ASSUME TypeOK, MessageInv, NEW m \in Message, written[m] > 0
  PROVE  Payload(m) \in Fragment /\ Payload(m) \in Sent(m) /\ Payload(m).msg = m
<1>1. written[m] \in 0..Chunks
  BY DEF TypeOK
<1>2. written[m] - 1 \in 0..(written[m] - 1) /\ Mark(m) \in 0..255
  BY <1>1 DEF Mark
<1>3. len[m] \in Sizes
  BY <1>1 DEF MessageInv
<1>4. Payload(m) = Part(m, written[m] - 1)
  BY DEF Payload, Mark, Part
<1>5. Payload(m) \in Sent(m)
  BY <1>2, <1>4 DEF Sent
<1>6. Payload(m) \in Fragment /\ Payload(m).msg = m
  BY <1>2, <1>3 DEF Payload, Fragment
<1> QED
  BY <1>5, <1>6

-----------------------------------------------------------------------------
(* Each action preserves the inductive invariant.                          *)

LEMMA InitHolds ==
  ASSUME Init
  PROVE  IInv
<1>1. TypeOK
  <2>1. <<>> \in Seq(0..255)
    OBVIOUS
  <2> QED
    BY <2>1 DEF Init, TypeOK
<1>2. MessageInv /\ QueueInv /\ ReportInv
  BY DEF Init, MessageInv, QueueInv, ReportInv
<1>3. FragmentInv
  BY FS_EmptySet DEF Init, FragmentInv
<1>4. CountInv
  <2> SUFFICES ASSUME NEW n \in Node, NEW m \in Message
               PROVE  msgSeen[n][m] = Cardinality(Counted(n, m))
    BY DEF CountInv
  <2>1. Counted(n, m) = {}
    BY DEF Init, Counted
  <2> QED
    BY <2>1, FS_EmptySet DEF Init
<1> QED
  BY <1>1, <1>2, <1>3, <1>4 DEF IInv

\* Steps of a publication before its first fragment, and those that stop it.
LEMMA RequestPreserves ==
  ASSUME IInv,
         \/ \E n \in Node, m \in Message, l \in Sizes : Ask(n, m, l)
         \/ \E m \in Message : IndexPanics(m)
         \/ \E m \in Message : PublishFails(m)
         \/ UNCHANGED vars
  PROVE  IInv'
<1> USE DEF IInv
<1>1. UNCHANGED <<written, published, cache, unsent, wire, inbox, lost, msgSeen, handled,
                  reports, transmitted>>
  BY DEF Ask, IndexPanics, PublishFails, vars, askVars, readVars
<1> DEFINE Stays ==
      /\ pc' \in [Message -> {"idle", "write", "publish", "succeeded", "failed", "panicked"}]
      /\ origin' \in [Message -> Node \cup {None}]
      /\ len' \in [Message -> {0} \cup Sizes]
      /\ \A m \in Message :
           \/ pc'[m] = pc[m] /\ origin'[m] = origin[m] /\ len'[m] = len[m]
           \/ /\ pc[m] # "idle" /\ pc'[m] \in {"failed", "panicked"}
              /\ origin'[m] = origin[m] /\ len'[m] = len[m]
           \/ /\ pc[m] = "idle" /\ pc'[m] = "write"
              /\ origin'[m] \in Node /\ len'[m] \in Sizes
<1>2. Stays
  <2>1. ASSUME NEW n \in Node, NEW m \in Message, NEW l \in Sizes, Ask(n, m, l)
        PROVE  Stays
    BY <2>1 DEF Ask, TypeOK
  <2>2. ASSUME NEW m \in Message, IndexPanics(m)
        PROVE  Stays
    BY <2>2 DEF IndexPanics, TypeOK, askVars
  <2>3. ASSUME NEW m \in Message, PublishFails(m)
        PROVE  Stays
    BY <2>3 DEF PublishFails, TypeOK, askVars
  <2>4. CASE UNCHANGED vars
    BY <2>4 DEF vars, TypeOK
  <2> QED
    BY <2>1, <2>2, <2>3, <2>4
<1>3. TypeOK'
  BY <1>1, <1>2 DEF TypeOK
<1>4. MessageInv' /\ QueueInv'
  BY <1>1, <1>2 DEF MessageInv, QueueInv
<1>5. FragmentInv'
  <2>1. ASSUME NEW m \in Message
        PROVE  Sent(m) \subseteq Sent(m)'
    <3>1. CASE len'[m] = len[m]
      BY <1>1, <3>1 DEF Sent, Part
    <3>2. CASE written[m] = 0
      BY <3>2 DEF Sent
    <3> QED
      BY <1>2, <3>1, <3>2 DEF MessageInv
  <2>2. \A n \in Node : \A p \in wire[n] \cup cache[n] : p.msg \in Message
    BY DEF TypeOK, Fragment
  <2> QED
    BY <1>1, <2>1, <2>2 DEF FragmentInv
<1>6. CountInv' /\ ReportInv'
  BY <1>1 DEF CountInv, ReportInv, Counted
<1> QED
  BY <1>3, <1>4, <1>5, <1>6

\* The index is written to the payload: its message may have one fragment more.
LEMMA WriteIndexPreserves ==
  ASSUME IInv, NEW m \in Message, WriteIndex(m)
  PROVE  IInv'
<1> USE DEF IInv
<1>1. /\ pc[m] = "write"
      /\ written' = [written EXCEPT ![m] = written[m] + 1]
      /\ pc' = [pc EXCEPT ![m] = "publish"]
      /\ UNCHANGED <<origin, len, published, cache, unsent, wire, inbox, lost, msgSeen, handled,
                     reports, transmitted>>
  BY DEF WriteIndex, askVars, readVars
<1>2. written[m] \in Nat /\ written[m] < Chunks
  BY <1>1 DEF MessageInv, TypeOK
<1>3. TypeOK'
  <2>1. written' \in [Message -> 0..Chunks]
    BY <1>1, <1>2 DEF TypeOK
  <2>2. pc' \in [Message -> {"idle", "write", "publish", "succeeded", "failed", "panicked"}]
    BY <1>1 DEF TypeOK
  <2> QED
    BY <1>1, <2>1, <2>2 DEF TypeOK
<1>4. MessageInv' /\ QueueInv'
  <2>1. \A o \in Message :
          \/ pc'[o] = pc[o] /\ written'[o] = written[o]
          \/ pc'[o] = "publish" /\ pc[o] = "write" /\ written'[o] = written[o] + 1
    BY <1>1 DEF TypeOK
  <2>2. written \in [Message -> 0..Chunks] /\ unsent \in [Node -> [Message -> 0..Chunks]]
    BY DEF TypeOK
  <2>3. MessageInv'
    BY <1>1, <2>1, <2>2 DEF MessageInv
  <2>4. QueueInv'
    BY <1>1, <2>1, <2>2 DEF QueueInv
  <2> QED
    BY <2>3, <2>4
<1>5. FragmentInv'
  <2>1. ASSUME NEW o \in Message
        PROVE  Sent(o) \subseteq Sent(o)'
    <3>1. written[o] \in Nat /\ (written'[o] = written[o] \/ written'[o] = written[o] + 1)
      BY <1>1 DEF TypeOK
    <3>2. 0..(written[o] - 1) \subseteq 0..(written'[o] - 1)
      BY <3>1
    <3> QED
      BY <1>1, <3>2 DEF Sent, Part
  <2>2. \A n \in Node : \A p \in wire[n] \cup cache[n] : p.msg \in Message
    BY DEF TypeOK, Fragment
  <2> QED
    BY <1>1, <2>1, <2>2 DEF FragmentInv
<1>6. CountInv' /\ ReportInv'
  BY <1>1 DEF CountInv, ReportInv, Counted
<1> QED
  BY <1>3, <1>4, <1>5, <1>6

\* A fragment that is published enters the publisher's cache and subscription,
\* unless it came back to its publisher before.
LEMMA PublishFragmentPreserves ==
  ASSUME IInv, NEW m \in Message, PublishFragment(m)
  PROVE  IInv'
<1> USE DEF IInv
<1> DEFINE n == origin[m]
           p == Payload(m)
<1>1. /\ pc[m] = "publish" /\ n \in Node
      /\ written[m] > 0 /\ written[m] \in 0..Chunks
  BY DEF PublishFragment, MessageInv, TypeOK
<1>2. p \in Fragment /\ p \in Sent(m) /\ p.msg = m
  BY <1>1, PayloadIsSent
<1>3. /\ published' = [published EXCEPT ![n] = @ + 1]
      /\ pc' = [pc EXCEPT ![m] = IF written[m] = Chunks THEN "succeeded" ELSE "write"]
      /\ UNCHANGED <<origin, len, written, wire, lost, msgSeen, handled, reports, transmitted>>
      /\ \/ UNCHANGED <<cache, inbox, unsent>>
         \/ /\ p \notin cache[n]
            /\ cache' = [cache EXCEPT ![n] = @ \cup {p}]
            /\ inbox' = [inbox EXCEPT ![n] = @ \cup {p}]
            /\ unsent' = [q \in Node |->
                 IF q = n THEN unsent[q] ELSE [unsent[q] EXCEPT ![m] = @ + 1]]
  BY DEF PublishFragment, Last, askVars, readVars
<1> HIDE DEF n, p
<1>4. /\ unsent' \in [Node -> [Message -> 0..Chunks]]
      /\ \A q \in Node, o \in Message : unsent'[q][o] = unsent[q][o] \/ o = m
      /\ \A q \in Node : unsent'[q][m] <= written[m]
  <2>1. /\ unsent \in [Node -> [Message -> 0..Chunks]]
        /\ \A q \in Node : unsent[q][m] < written[m]
    BY <1>1 DEF TypeOK, QueueInv
  <2>2. CASE unsent' = unsent
    BY <1>1, <2>1, <2>2
  <2>3. CASE unsent' = [q \in Node |->
               IF q = n THEN unsent[q] ELSE [unsent[q] EXCEPT ![m] = @ + 1]]
    <3>1. ASSUME NEW q \in Node
          PROVE  /\ unsent'[q] \in [Message -> 0..Chunks]
                 /\ \A o \in Message : unsent'[q][o] = unsent[q][o] \/ o = m
                 /\ unsent'[q][m] <= written[m]
      BY <1>1, <2>1, <2>3
    <3> QED
      BY <2>3, <3>1
  <2> QED
    BY <1>3, <2>2, <2>3
<1>5. cache' \in [Node -> SUBSET Fragment] /\ inbox' \in [Node -> SUBSET Fragment]
  <2>1. cache \in [Node -> SUBSET Fragment] /\ inbox \in [Node -> SUBSET Fragment]
    BY DEF TypeOK
  <2> QED
    BY <1>2, <1>3, <2>1
<1>6. /\ pc' \in [Message -> {"idle", "write", "publish", "succeeded", "failed", "panicked"}]
      /\ published' \in [Node -> Nat]
  BY <1>1, <1>3 DEF TypeOK
<1>7. TypeOK'
  BY <1>3, <1>4, <1>5, <1>6 DEF TypeOK
<1>8. MessageInv' /\ QueueInv'
  <2>1. \A o \in Message :
          pc'[o] = IF o # m THEN pc[o] ELSE IF written[m] = Chunks THEN "succeeded" ELSE "write"
    BY <1>3 DEF TypeOK
  <2>2. MessageInv'
    BY <1>1, <1>3, <2>1 DEF MessageInv
  <2>3. QueueInv'
    BY <1>1, <1>3, <1>4, <2>1 DEF QueueInv
  <2> QED
    BY <2>2, <2>3
<1>9. FragmentInv'
  <2>1. \A o \in Message : Sent(o)' = Sent(o)
    BY <1>3 DEF Sent, Part
  <2>2. \A q \in Node : \A g \in wire[q] \cup cache[q] : g.msg \in Message
    BY DEF TypeOK, Fragment
  <2>3. \A q \in Node :
          \/ cache'[q] = cache[q] /\ inbox'[q] = inbox[q]
          \/ /\ p \notin cache[q]
             /\ cache'[q] = cache[q] \cup {p}
             /\ inbox'[q] = inbox[q] \cup {p}
    BY <1>1, <1>3 DEF TypeOK
  <2> QED
    BY <1>2, <1>3, <2>1, <2>2, <2>3 DEF FragmentInv
<1>10. CountInv' /\ ReportInv'
  BY <1>3 DEF CountInv, ReportInv, Counted
<1> QED
  BY <1>7, <1>8, <1>9, <1>10

\* What a writer sends, the payload has been.
LEMMA TransmitPreserves ==
  ASSUME IInv, NEW m \in Message, NEW q \in Node, Transmit(m, q)
  PROVE  IInv'
<1> USE DEF IInv
<1>1. /\ unsent[q][m] > 0
      /\ unsent' = [unsent EXCEPT ![q][m] = unsent[q][m] - 1]
      /\ transmitted' = [transmitted EXCEPT ![q][m] = Append(transmitted[q][m], Mark(m))]
      /\ wire' = [wire EXCEPT ![q] = @ \cup ({Payload(m)} \ cache[q])]
      /\ UNCHANGED <<pc, origin, len, written, published, cache, inbox, lost, msgSeen, handled,
                     reports>>
  BY DEF Transmit, askVars, readVars
<1>2. unsent[q][m] \in 0..Chunks /\ written[m] \in Nat
  BY DEF TypeOK
<1>3. written[m] > 0
  BY <1>1, <1>2 DEF QueueInv
<1>4. Payload(m) \in Fragment /\ Payload(m) \in Sent(m) /\ Payload(m).msg = m
  BY <1>3, PayloadIsSent
<1>5. transmitted' \in [Node -> [Message -> Seq(0..255)]]
  <2>1. Mark(m) \in 0..255
    BY <1>2 DEF Mark
  <2>2. transmitted \in [Node -> [Message -> Seq(0..255)]]
    BY DEF TypeOK
  <2>3. Append(transmitted[q][m], Mark(m)) \in Seq(0..255)
    <3>1. transmitted[q][m] \in Seq(0..255)
      BY <2>2
    <3> QED
      BY <2>1, <3>1
  <2> QED
    BY <1>1, <2>2, <2>3
<1>6. unsent' \in [Node -> [Message -> 0..Chunks]]
  BY <1>1, <1>2 DEF TypeOK
<1>7. wire' \in [Node -> SUBSET Fragment]
  <2>1. wire \in [Node -> SUBSET Fragment]
    BY DEF TypeOK
  <2> QED
    BY <1>1, <1>4, <2>1
<1>8. TypeOK'
  BY <1>1, <1>5, <1>6, <1>7 DEF TypeOK
<1>9. MessageInv' /\ QueueInv'
  <2>1. unsent \in [Node -> [Message -> 0..Chunks]] /\ written \in [Message -> 0..Chunks]
    BY DEF TypeOK
  <2>2. \A r \in Node, o \in Message :
          unsent'[r][o] \in Nat /\ unsent[r][o] \in Nat /\ unsent'[r][o] <= unsent[r][o]
    BY <1>1, <1>2, <2>1
  <2>3. MessageInv'
    BY <1>1 DEF MessageInv
  <2>4. QueueInv'
    BY <1>1, <2>1, <2>2 DEF QueueInv
  <2> QED
    BY <2>3, <2>4
<1>10. FragmentInv'
  <2>1. \A o \in Message : Sent(o)' = Sent(o)
    BY <1>1 DEF Sent, Part
  <2>2. \A r \in Node : \A g \in wire[r] \cup cache[r] : g.msg \in Message
    BY DEF TypeOK, Fragment
  <2>3. \A r \in Node : wire'[r] \subseteq wire[r] \cup {Payload(m)}
    BY <1>1 DEF TypeOK
  <2> QED
    BY <1>1, <1>4, <2>1, <2>2, <2>3 DEF FragmentInv
<1>11. CountInv' /\ ReportInv'
  BY <1>1 DEF CountInv, ReportInv, Counted
<1> QED
  BY <1>8, <1>9, <1>10, <1>11

\* The network hands a node new fragments only, and may lose any.
LEMMA NetworkPreserves ==
  ASSUME IInv, NEW n \in Node,
         NEW p \in wire[n] \cup inbox[n],
         Receive(n, p) \/ Lose(n, p)
  PROVE  IInv'
<1> USE DEF IInv
<1>1. UNCHANGED <<pc, origin, len, written, published, unsent, msgSeen, handled, reports,
                  transmitted>>
  BY DEF Receive, Lose, askVars, readVars
<1>2. p \in Fragment /\ p.msg \in Message /\ p \in Sent(p.msg)
  BY DEF FragmentInv, TypeOK, Fragment
<1> DEFINE Carried ==
      /\ cache' \in [Node -> SUBSET Fragment]
      /\ wire' \in [Node -> SUBSET Fragment]
      /\ inbox' \in [Node -> SUBSET Fragment]
      /\ lost' \in 0..MaxLost
      /\ \A q \in Node :
           /\ wire'[q] \subseteq wire[q] \cup {p}
           /\ \/ cache'[q] = cache[q] /\ inbox'[q] \subseteq inbox[q]
              \/ /\ p \notin cache[q]
                 /\ cache'[q] = cache[q] \cup {p}
                 /\ inbox'[q] = inbox[q] \cup {p}
<1>3. Carried
  <2>0. /\ cache \in [Node -> SUBSET Fragment]
        /\ wire \in [Node -> SUBSET Fragment]
        /\ inbox \in [Node -> SUBSET Fragment]
        /\ lost \in 0..MaxLost
    BY DEF TypeOK
  <2>1. CASE Receive(n, p) /\ p \in cache[n]
    BY <1>2, <2>0, <2>1 DEF Receive
  <2>2. CASE Receive(n, p) /\ p \notin cache[n]
    BY <1>2, <2>0, <2>2 DEF Receive
  <2>3. CASE Lose(n, p)
    BY <1>2, <2>0, <2>3 DEF Lose
  <2> QED
    BY <2>1, <2>2, <2>3
<1>4. TypeOK'
  BY <1>1, <1>3 DEF TypeOK
<1>5. MessageInv' /\ QueueInv'
  BY <1>1 DEF MessageInv, QueueInv
<1>6. FragmentInv'
  <2>1. \A o \in Message : Sent(o)' = Sent(o)
    BY <1>1 DEF Sent, Part
  <2>2. \A r \in Node : \A g \in wire[r] \cup cache[r] : g.msg \in Message
    BY DEF TypeOK, Fragment
  <2> QED
    BY <1>1, <1>2, <1>3, <2>1, <2>2 DEF FragmentInv
<1>7. CountInv' /\ ReportInv'
  BY <1>1 DEF CountInv, ReportInv, Counted
<1> QED
  BY <1>4, <1>5, <1>6, <1>7

\* The reader counts a fragment that it has not counted, of a message it has
\* not reported: not all its fragments were counted.
LEMMA ReadPreserves ==
  ASSUME IInv, NEW n \in Node, NEW p \in inbox[n], Read(n, p)
  PROVE  IInv' /\ msgSeen'[n][p.msg] = msgSeen[n][p.msg] + 1
<1> USE DEF IInv
<1> DEFINE m == p.msg
<1>1. /\ inbox' = [inbox EXCEPT ![n] = @ \ {p}]
      /\ handled' = [handled EXCEPT ![n] = @ \cup {p}]
      /\ msgSeen' = [msgSeen EXCEPT ![n][m] = msgSeen[n][m] + 1]
      /\ UNCHANGED <<pc, origin, len, written, published, cache, unsent, wire, lost, transmitted>>
  BY DEF Read, askVars
<1>2. /\ p \in Fragment /\ m \in Message
      /\ p \notin handled[n] /\ p \in cache[n]
      /\ p \in Sent(m)
  BY DEF TypeOK, FragmentInv, Fragment
<1>3. /\ msgSeen \in [Node -> [Message -> Nat]]
      /\ reports \in [Node -> [Message -> Nat]]
  BY DEF TypeOK
<1>4. \/ reports' = reports /\ msgSeen'[n][m] < Chunks
      \/ ~(msgSeen'[n][m] < Chunks) /\ reports' = [reports EXCEPT ![n][m] = reports[n][m] + 1]
  BY DEF Read, Incomplete
<1> HIDE DEF m
<1>5. FragmentInv'
  <2>1. \A o \in Message : Sent(o)' = Sent(o)
    BY <1>1 DEF Sent, Part, m
  <2>2. \A q \in Node : \A g \in wire[q] \cup cache[q] : g.msg \in Message
    BY DEF TypeOK, Fragment
  <2>3. \A q \in Node :
          \/ handled'[q] = handled[q] /\ inbox'[q] = inbox[q]
          \/ q = n /\ handled'[q] = handled[q] \cup {p} /\ inbox'[q] = inbox[q] \ {p}
    BY <1>1 DEF TypeOK
  <2>4. ASSUME NEW q \in Node
        PROVE  IsFiniteSet(handled'[q])
    <3>1. IsFiniteSet(handled[q])
      BY DEF FragmentInv
    <3>2. IsFiniteSet(handled[q] \cup {p})
      BY <3>1, FS_AddElement
    <3>3. handled'[q] = handled[q] \/ handled'[q] = handled[q] \cup {p}
      BY <2>3
    <3> QED
      BY <3>1, <3>2, <3>3
  <2>5. \A q \in Node :
          /\ handled'[q] \cup inbox'[q] \subseteq cache'[q]
          /\ handled'[q] \cap inbox'[q] = {}
    BY <1>1, <1>2, <2>3 DEF FragmentInv
  <2>6. \A q \in Node : \A g \in wire'[q] \cup cache'[q] : g \in Sent(g.msg)'
    BY <1>1, <2>1, <2>2 DEF FragmentInv
  <2> QED
    BY <2>4, <2>5, <2>6 DEF FragmentInv
<1>6. /\ Counted(n, m)' = Counted(n, m) \cup {p}
      /\ \A q \in Node, o \in Message : q # n \/ o # m => Counted(q, o)' = Counted(q, o)
  BY <1>1 DEF Counted, TypeOK, m
<1>7. Cardinality(Counted(n, m)') = msgSeen[n][m] + 1
  <2>1. p \notin Counted(n, m) /\ IsFiniteSet(Counted(n, m))
    BY <1>2, CountedAreSent DEF Counted
  <2>2. Cardinality(Counted(n, m) \cup {p}) = Cardinality(Counted(n, m)) + 1
    BY <2>1, FS_AddElement
  <2> QED
    BY <1>2, <1>6, <2>2 DEF CountInv
<1>8. msgSeen[n][m] < Chunks
  <2>1. Counted(n, m)' \subseteq Sent(m)
    BY <1>2, <1>6, CountedAreSent
  <2>2. /\ IsFiniteSet(Sent(m)) /\ Cardinality(Sent(m)) <= written[m]
        /\ Cardinality(Sent(m)) \in Nat /\ written[m] \in 0..Chunks
    BY <1>2, CountedAreSent
  <2>3. Cardinality(Counted(n, m)') <= Cardinality(Sent(m))
    BY <2>1, <2>2, FS_Subset
  <2>4. msgSeen[n][m] \in Nat
    BY <1>2, <1>3
  <2> QED
    BY <1>7, <2>2, <2>3, <2>4
<1>9. /\ msgSeen' \in [Node -> [Message -> Nat]]
      /\ msgSeen[n][m] \in Nat
      /\ msgSeen'[n][m] = msgSeen[n][m] + 1
      /\ \A q \in Node, o \in Message : q # n \/ o # m => msgSeen'[q][o] = msgSeen[q][o]
  BY <1>1, <1>2, <1>3 DEF m
<1>10. /\ reports' \in [Node -> [Message -> Nat]]
       /\ reports'[n][m] = IF msgSeen'[n][m] = Chunks THEN 1 ELSE 0
       /\ \A q \in Node, o \in Message : q # n \/ o # m => reports'[q][o] = reports[q][o]
  <2>1. reports[n][m] = 0
    BY <1>2, <1>8, <1>9 DEF ReportInv
  <2>2. CASE reports' = reports /\ msgSeen'[n][m] < Chunks
    BY <1>3, <1>9, <2>1, <2>2
  <2>3. CASE ~(msgSeen'[n][m] < Chunks) /\ reports' = [reports EXCEPT ![n][m] = reports[n][m] + 1]
    <3>1. msgSeen'[n][m] = Chunks
      <4>1. ASSUME NEW x \in Nat, x < Chunks, ~(x + 1 < Chunks)
            PROVE  x + 1 = Chunks
        BY <4>1
      <4>2. ~(msgSeen[n][m] + 1 < Chunks)
        BY <1>9, <2>3
      <4> QED
        BY <1>8, <1>9, <4>1, <4>2
    <3>2. reports' = [reports EXCEPT ![n][m] = 1]
      BY <2>1, <2>3
    <3> QED
      BY <1>2, <1>3, <3>1, <3>2
  <2> QED
    BY <1>4, <2>2, <2>3
<1>11. TypeOK'
  <2>1. inbox \in [Node -> SUBSET Fragment] /\ handled \in [Node -> SUBSET Fragment]
    BY DEF TypeOK
  <2>2. inbox' \in [Node -> SUBSET Fragment] /\ handled' \in [Node -> SUBSET Fragment]
    BY <1>1, <1>2, <2>1
  <2> QED
    BY <1>1, <1>9, <1>10, <2>2 DEF TypeOK
<1>12. MessageInv' /\ QueueInv'
  BY <1>1 DEF MessageInv, QueueInv
<1>13. CountInv'
  <2> SUFFICES ASSUME NEW q \in Node, NEW o \in Message
               PROVE  msgSeen'[q][o] = Cardinality(Counted(q, o)')
    BY DEF CountInv
  <2>1. CASE q = n /\ o = m
    BY <1>7, <1>9, <2>1
  <2>2. CASE ~(q = n /\ o = m)
    BY <1>6, <1>9, <2>2 DEF CountInv
  <2> QED
    BY <2>1, <2>2
<1>14. ReportInv'
  <2> SUFFICES ASSUME NEW q \in Node, NEW o \in Message
               PROVE  /\ msgSeen'[q][o] <= Chunks
                      /\ reports'[q][o] = IF msgSeen'[q][o] = Chunks THEN 1 ELSE 0
    BY DEF ReportInv
  <2>1. CASE q = n /\ o = m
    BY <1>8, <1>9, <1>10, <2>1
  <2>2. CASE ~(q = n /\ o = m)
    BY <1>9, <1>10, <2>2 DEF ReportInv
  <2> QED
    BY <2>1, <2>2
<1> QED
  BY <1>5, <1>9, <1>11, <1>12, <1>13, <1>14 DEF m

-----------------------------------------------------------------------------

\* The inductive invariant holds of every behaviour.
THEOREM Invariance == Spec => []IInv
<1>1. Init => IInv
  BY InitHolds
<1>2. IInv /\ [Next]_vars => IInv'
  BY RequestPreserves, WriteIndexPreserves, PublishFragmentPreserves, TransmitPreserves,
     NetworkPreserves, ReadPreserves DEF Next
<1> QED
  BY <1>1, <1>2, PTL DEF Spec

\* The variables keep their types.
THEOREM TypeCorrect == Spec => []TypeOK
<1>1. IInv => TypeOK
  BY DEF IInv
<1> QED
  BY <1>1, Invariance, PTL

\* A full count stands for all fragments of the message.
LEMMA FullCount ==
  ASSUME IInv, NEW n \in Node, NEW m \in Message, msgSeen[n][m] = Chunks
  PROVE  written[m] = Chunks /\ Counted(n, m) = Sent(m)
<1>1. Cardinality(Counted(n, m)) = Chunks
  BY DEF IInv, CountInv
<1>2. /\ Counted(n, m) \subseteq Sent(m) /\ IsFiniteSet(Sent(m))
      /\ Cardinality(Counted(n, m)) <= Cardinality(Sent(m))
      /\ Cardinality(Sent(m)) <= written[m]
      /\ Cardinality(Sent(m)) \in Nat
      /\ written[m] \in 0..Chunks
  BY CountedAreSent DEF IInv
<1>3. Cardinality(Sent(m)) = Chunks /\ written[m] = Chunks
  BY <1>1, <1>2
<1>4. Counted(n, m) = Sent(m)
  BY <1>1, <1>2, <1>3, FS_Subset
<1> QED
  BY <1>3, <1>4

\* A latency line stands for a whole message, though the shared payload is
\* overwritten on its way (main.go:40-44, 73-75).
THEOREM ReportsWholeMessages == Spec => []ReportsAreWhole
<1>1. IInv => ReportsAreWhole
  <2> SUFFICES ASSUME IInv, NEW n \in Node, NEW m \in Message, Reported(n, m)
               PROVE  {p \in handled[n] : p.msg = m}
                        = {[msg |-> m, len |-> len[m], mark |-> c % 256] : c \in 0..(Chunks - 1)}
    BY DEF ReportsAreWhole
  <2>1. msgSeen[n][m] = Chunks
    BY DEF IInv, ReportInv, Reported
  <2> QED
    BY <2>1, FullCount DEF Counted, Sent, Part
<1> QED
  BY <1>1, Invariance, PTL

-----------------------------------------------------------------------------
(* GoGossip implements FragmentBroadcast.                                  *)

\* What FullCount says of the counters.
FullInv == \A n \in Node, m \in Message : msgSeen[n][m] = Chunks => written[m] = Chunks

Whole == {m \in Message : written[m] = Chunks}

\* Writing the last index is a Publish of the abstract network, any other a
\* stutter.
LEMMA WriteIndexRefines ==
  ASSUME IInv, NEW m \in Message, WriteIndex(m)
  PROVE  /\ reports' = reports
         /\ Whole' = Whole \/ (m \notin Whole /\ Whole' = Whole \cup {m})
<1>1. /\ written' = [written EXCEPT ![m] = written[m] + 1]
      /\ reports' = reports
      /\ written[m] < Chunks
  BY DEF WriteIndex, readVars, IInv, MessageInv
<1>2. written \in [Message -> 0..Chunks]
  BY DEF IInv, TypeOK
<1> QED
  BY <1>1, <1>2 DEF Whole

\* Reading the fragment that fills the count is a Report of a message whose
\* last index was written; reading any other is a stutter.
LEMMA ReadRefines ==
  ASSUME IInv, FullInv', ReportInv', NEW n \in Node, NEW p \in inbox[n], Read(n, p)
  PROVE  /\ Whole' = Whole
         /\ \/ reports' = reports
            \/ \E m \in Message : /\ m \in Whole
                                  /\ reports[n][m] = 0
                                  /\ reports' = [reports EXCEPT ![n][m] = 1]
<1>1. UNCHANGED written /\ Whole' = Whole
  BY DEF Read, Whole
<1>2. p.msg \in Message
  BY DEF IInv, FragmentInv, TypeOK, Fragment
<1>3. /\ msgSeen'[n][p.msg] = msgSeen[n][p.msg] + 1
      /\ msgSeen[n][p.msg] \in Nat
      /\ msgSeen'[n][p.msg] <= Chunks
  BY <1>2, ReadPreserves DEF ReportInv, IInv, TypeOK
<1>4. CASE UNCHANGED reports
  BY <1>1, <1>4
<1>5. CASE ~UNCHANGED reports
  <2>1. /\ ~(msgSeen'[n][p.msg] < Chunks)
        /\ reports' = [reports EXCEPT ![n][p.msg] = reports[n][p.msg] + 1]
    BY <1>5 DEF Read, Incomplete
  <2>2. msgSeen'[n][p.msg] = Chunks /\ msgSeen[n][p.msg] # Chunks
    BY <1>3, <2>1
  <2>3. reports[n][p.msg] = 0
    BY <1>2, <2>2 DEF IInv, ReportInv
  <2>4. p.msg \in Whole
    BY <1>1, <1>2, <2>2 DEF FullInv, Whole
  <2>5. reports' = [reports EXCEPT ![n][p.msg] = 1]
    BY <2>1, <2>3
  <2> QED
    BY <1>1, <1>2, <2>3, <2>4, <2>5
<1> QED
  BY <1>4, <1>5

\* Each node measures a message at most once, and not before its publisher has
\* written the last index, though msgSeen keeps every entry (main.go:40-44).
THEOREM Measures == Spec => MeasuresOnce
<1>1. Init => Broadcast!Init
  BY DEF Init, Broadcast!Init
<1>2. IInv => FullInv
  BY FullCount DEF FullInv
<1>3. IInv => ReportInv
  BY DEF IInv
<1>4. IInv /\ ReportInv' /\ FullInv' /\ [Next]_vars => [Broadcast!Next]_(Broadcast!vars)
  <2> SUFFICES ASSUME IInv, ReportInv', FullInv', [Next]_vars
               PROVE  [Broadcast!Next]_(Broadcast!vars)
    OBVIOUS
  <2>1. ASSUME NEW m \in Message, WriteIndex(m)
        PROVE  [Broadcast!Next]_(Broadcast!vars)
    BY <2>1, WriteIndexRefines DEF Broadcast!Next, Broadcast!vars, Broadcast!Publish, Whole
  <2>2. ASSUME NEW n \in Node, NEW p \in inbox[n], Read(n, p)
        PROVE  [Broadcast!Next]_(Broadcast!vars)
    BY <2>2, ReadRefines DEF Broadcast!Next, Broadcast!vars, Broadcast!Report, Whole
  <2>3. CASE UNCHANGED <<written, reports>>
    BY <2>3 DEF Broadcast!vars
  <2> QED
    BY <2>1, <2>2, <2>3
    DEF Next, Ask, IndexPanics, PublishFragment, PublishFails, Transmit, Receive, Lose, vars, readVars
<1> QED
  BY <1>1, <1>2, <1>3, <1>4, Invariance, PTL DEF Spec, MeasuresOnce, Broadcast!Spec
=============================================================================
