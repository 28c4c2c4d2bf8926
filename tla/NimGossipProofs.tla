-------------------------- MODULE NimGossipProofs ---------------------------
(***************************************************************************)
(* Proofs that the Nim nodes of NimGossip print a latency only for a       *)
(* message they have received whole, and at most once, so that they        *)
(* implement FragmentBroadcast, though no entry of messagesChunks is ever  *)
(* removed: for every network, set of messages, number of fragments and    *)
(* number of losses, with SELFTRIGGER on or off on any of the nodes.       *)
(***************************************************************************)
EXTENDS NimGossip, FiniteSetTheorems, TLAPS

USE NimAssumption

\* The fragments of m that have been tried.
Sent(m) == {Fragment(m, c) : c \in 0..(tried[m] - 1)}

Counted(n, m) == {f \in handled[n] : f.msg = m}

\* A message has a publisher from its request on.
MessageInv ==
  \A m \in Message :
    /\ pc[m] = "idle" => origin[m] = None
    /\ pc[m] = "publishing" => origin[m] # None
    /\ origin[m] = None => tried[m] = 0

\* Whatever a node knows, the publisher sent and knows; what is on its way to
\* a node is new to it, and never its own.
FragmentInv ==
  \A n \in Node :
    /\ handled[n] \subseteq cache[n]
    /\ IsFiniteSet(handled[n])
    /\ wire[n] \cap cache[n] = {}
    /\ \A f \in wire[n] \cup handled[n] : origin[f.msg] # n
    /\ \A f \in wire[n] \cup cache[n] :
         origin[f.msg] # None /\ f \in Sent(f.msg) /\ f \in cache[origin[f.msg]]

\* The publisher counts its turns, any other node the fragments it has handled.
Count(n, m) ==
  IF n # origin[m] THEN Cardinality(Counted(n, m))
  ELSE IF n \in SelfTriggered THEN tried[m] ELSE 0

CountInv == \A n \in Node, m \in Message : messagesChunks[n][m] = Count(n, m)

\* The count stops at Chunks, and it is there that the message is reported.
ReportInv ==
  \A n \in Node, m \in Message :
    /\ messagesChunks[n][m] <= Chunks
    /\ reports[n][m] = IF messagesChunks[n][m] = Chunks THEN 1 ELSE 0

IInv ==
  /\ TypeOK
  /\ MessageInv
  /\ FragmentInv
  /\ CountInv
  /\ ReportInv

-----------------------------------------------------------------------------
(* Fragments and counts.                                                   *)

LEMMA FragmentFacts ==
  ASSUME NEW m \in Message, NEW c \in Nat
  PROVE  Fragment(m, c) \in Fragments /\ Fragment(m, c).msg = m
<1>1. c % 256 \in 0..255
  OBVIOUS
<1> QED
  BY <1>1 DEF Fragment, Fragments

\* k chunks make at most k different fragments.
LEMMA FragmentsBounded ==
  ASSUME NEW m, NEW k \in Nat
  PROVE  LET F == {Fragment(m, c) : c \in 0..(k - 1)}
         IN  IsFiniteSet(F) /\ Cardinality(F) <= k
<1> DEFINE F == {Fragment(m, c) : c \in 0..(k - 1)}
           f == [c \in 0..(k - 1) |-> Fragment(m, c)]
<1>1. f \in Surjection(0..(k - 1), F)
  BY DEF Surjection
<1>2. IsFiniteSet(0..(k - 1)) /\ Cardinality(0..(k - 1)) = k
  BY FS_Interval
<1> HIDE DEF F, f
<1>3. IsFiniteSet(F) /\ Cardinality(F) <= k
  BY <1>1, <1>2, FS_Surjection
<1> QED
  BY <1>3 DEF F

\* A node has handled at most as many fragments of a message as were tried.
LEMMA CountedAreSent ==
  ASSUME TypeOK, FragmentInv, NEW n \in Node, NEW m \in Message
  PROVE  /\ Counted(n, m) \subseteq Sent(m)
         /\ IsFiniteSet(Sent(m))
         /\ IsFiniteSet(Counted(n, m))
         /\ Cardinality(Counted(n, m)) <= Cardinality(Sent(m))
         /\ Cardinality(Sent(m)) <= tried[m]
<1>1. Counted(n, m) \subseteq Sent(m)
  BY DEF Counted, FragmentInv
<1>2. IsFiniteSet(Sent(m)) /\ Cardinality(Sent(m)) <= tried[m]
  <2>1. tried[m] \in Nat
    BY DEF TypeOK
  <2> QED
    BY <2>1, FragmentsBounded DEF Sent
<1> QED
  BY <1>1, <1>2, FS_Subset

\* A count short of Chunks goes up by one, and only there.
LEMMA HandleFacts ==
  ASSUME TypeOK, ReportInv, NEW n \in Node, NEW m \in Message,
         messagesChunks[n][m] < Chunks, Handle(n, m)
  PROVE  /\ messagesChunks' \in [Node -> [Message -> Nat]]
         /\ completed' \in [Node -> Nat]
         /\ reports' \in [Node -> [Message -> Nat]]
         /\ \A q \in Node, o \in Message :
              messagesChunks'[q][o] = messagesChunks[q][o] + IF q = n /\ o = m THEN 1 ELSE 0
         /\ ReportInv'
         /\ \/ reports' = reports /\ messagesChunks'[n][m] < Chunks
            \/ /\ messagesChunks'[n][m] = Chunks
               /\ reports[n][m] = 0
               /\ reports' = [reports EXCEPT ![n][m] = 1]
<1>1. /\ messagesChunks \in [Node -> [Message -> Nat]]
      /\ reports \in [Node -> [Message -> Nat]]
      /\ completed \in [Node -> Nat]
  BY DEF TypeOK
<1>2. messagesChunks' = [messagesChunks EXCEPT ![n][m] = messagesChunks[n][m] + 1]
  BY DEF Handle
<1>3. /\ messagesChunks' \in [Node -> [Message -> Nat]]
      /\ messagesChunks'[n][m] = messagesChunks[n][m] + 1
      /\ \A q \in Node, o \in Message :
           messagesChunks'[q][o] = messagesChunks[q][o] + IF q = n /\ o = m THEN 1 ELSE 0
  <2>1. PICK x \in Nat : x = messagesChunks[n][m] + 1
    BY <1>1
  <2>2. messagesChunks' = [messagesChunks EXCEPT ![n][m] = x]
    BY <1>2, <2>1
  <2>3. /\ messagesChunks' \in [Node -> [Message -> Nat]]
        /\ \A q \in Node, o \in Message :
             messagesChunks'[q][o] = IF q = n /\ o = m THEN x ELSE messagesChunks[q][o]
    BY <1>1, <2>2
  <2>4. \A q \in Node, o \in Message : messagesChunks[q][o] \in Nat
    BY <1>1
  <2> QED
    BY <2>1, <2>3, <2>4
<1>4. completed' \in [Node -> Nat]
  <2>1. completed' = completed \/ completed' = [completed EXCEPT ![n] = @ + 1]
    BY DEF Handle
  <2> QED
    BY <1>1, <2>1
<1>5. reports[n][m] = 0
  BY DEF ReportInv
<1>6. CASE messagesChunks'[n][m] < Chunks
  <2>1. reports' = reports
    BY <1>6 DEF Handle, Incomplete
  <2>2. ASSUME NEW q \in Node, NEW o \in Message
        PROVE  /\ messagesChunks'[q][o] <= Chunks
               /\ reports[q][o] = IF messagesChunks'[q][o] = Chunks THEN 1 ELSE 0
    <3>1. messagesChunks[q][o] \in Nat /\ messagesChunks[n][m] \in Nat
      BY <1>1
    <3>2. CASE q = n /\ o = m
      BY <1>3, <1>5, <1>6, <3>1, <3>2
    <3>3. CASE ~(q = n /\ o = m)
      <4>1. messagesChunks'[q][o] = messagesChunks[q][o]
        BY <1>3, <3>1, <3>3
      <4> QED
        BY <4>1 DEF ReportInv
    <3> QED
      BY <3>2, <3>3
  <2> QED
    BY <1>1, <1>3, <1>4, <1>6, <2>1, <2>2 DEF ReportInv
<1>7. CASE ~(messagesChunks'[n][m] < Chunks)
  <2>1. messagesChunks'[n][m] = Chunks
    BY <1>1, <1>3, <1>7
  <2>2. reports' = [reports EXCEPT ![n][m] = 1]
    BY <1>5, <1>7 DEF Handle, Incomplete
  <2>3. /\ reports' \in [Node -> [Message -> Nat]]
        /\ \A q \in Node, o \in Message :
             reports'[q][o] = IF q = n /\ o = m THEN 1 ELSE reports[q][o]
    BY <1>1, <2>2
  <2>4. ReportInv'
    <3> SUFFICES ASSUME NEW q \in Node, NEW o \in Message
                 PROVE  /\ messagesChunks'[q][o] <= Chunks
                        /\ reports'[q][o] = IF messagesChunks'[q][o] = Chunks THEN 1 ELSE 0
      BY DEF ReportInv
    <3>1. CASE q = n /\ o = m
      BY <2>1, <2>3, <3>1
    <3>2. CASE ~(q = n /\ o = m)
      <4>1. messagesChunks'[q][o] = messagesChunks[q][o] /\ reports'[q][o] = reports[q][o]
        BY <1>1, <1>3, <2>3, <3>2
      <4> QED
        BY <4>1 DEF ReportInv
    <3> QED
      BY <3>1, <3>2
  <2> QED
    BY <1>3, <1>4, <1>5, <2>1, <2>2, <2>3, <2>4
<1> QED
  BY <1>6, <1>7

-----------------------------------------------------------------------------
(* Each action preserves the inductive invariant.                          *)

LEMMA InitHolds ==
  ASSUME Init
  PROVE  IInv
<1>1. TypeOK
  BY DEF Init, TypeOK
<1>2. MessageInv /\ ReportInv
  BY DEF Init, MessageInv, ReportInv
<1>3. FragmentInv
  BY FS_EmptySet DEF Init, FragmentInv
<1>4. CountInv
  <2> SUFFICES ASSUME NEW n \in Node, NEW m \in Message
               PROVE  messagesChunks[n][m] = Count(n, m)
    BY DEF CountInv
  <2>1. Counted(n, m) = {}
    BY DEF Init, Counted
  <2> QED
    BY <2>1, FS_EmptySet DEF Init, Count
<1> QED
  BY <1>1, <1>2, <1>3, <1>4 DEF IInv

\* A request takes a message of which there is no fragment yet.
LEMMA AskPreserves ==
  ASSUME IInv, NEW n \in Node, NEW m \in Message, Ask(n, m)
  PROVE  IInv'
<1> USE DEF IInv
<1>1. /\ origin[m] = None /\ tried[m] = 0
      /\ pc' = [pc EXCEPT ![m] = "publishing"]
      /\ origin' = [origin EXCEPT ![m] = n]
      /\ requests' = [requests EXCEPT ![n] = @ + 1]
      /\ UNCHANGED <<up, tried, res, accepted, failures, cache, wire, lost, messagesChunks,
                     completed, reports, handled>>
  BY DEF Ask, handlerVars, MessageInv
<1>2. TypeOK'
  BY <1>1 DEF TypeOK
<1>3. MessageInv'
  BY <1>1 DEF MessageInv, TypeOK
<1>4. \A q \in Node : \A f \in wire[q] \cup cache[q] \cup handled[q] : f.msg # m
  BY <1>1 DEF FragmentInv
<1>5. \A q \in Node : \A f \in wire[q] \cup cache[q] \cup handled[q] :
        f.msg \in Message /\ origin'[f.msg] = origin[f.msg]
  BY <1>1, <1>4 DEF TypeOK, Fragments
<1>6. \A o \in Message : Sent(o)' = Sent(o)
  BY <1>1 DEF Sent
<1>7. FragmentInv'
  BY <1>1, <1>5, <1>6 DEF FragmentInv
<1>8. CountInv'
  <2> SUFFICES ASSUME NEW q \in Node, NEW o \in Message
               PROVE  messagesChunks'[q][o] = Count(q, o)'
    BY DEF CountInv
  <2>1. messagesChunks[q][o] = Count(q, o)
    BY DEF CountInv
  <2>2. Counted(q, o)' = Counted(q, o)
    BY <1>1 DEF Counted
  <2>3. CASE o # m
    BY <1>1, <2>1, <2>2, <2>3 DEF Count, TypeOK
  <2>4. CASE o = m
    <3>1. Counted(q, m) = {}
      BY <1>4 DEF Counted
    <3>2. messagesChunks[q][m] = 0
      BY <1>1, <2>1, <2>4, <3>1, FS_EmptySet DEF Count
    <3>3. Count(q, m)' = 0
      BY <1>1, <2>2, <2>4, <3>1, FS_EmptySet DEF Count
    <3> QED
      BY <1>1, <2>4, <3>2, <3>3
  <2> QED
    BY <2>3, <2>4
<1>9. ReportInv'
  BY <1>1 DEF ReportInv
<1> QED
  BY <1>2, <1>3, <1>7, <1>8, <1>9

\* Nothing is counted or sent, and fragments only leave the wire.
LEMMA RestPreserves ==
  ASSUME IInv,
         \/ \E n \in Node, m \in Message : Crash(n, m)
         \/ \E m \in Message : Finish(m)
         \/ \E n \in Node : \E f \in wire[n] : Lose(n, f)
         \/ UNCHANGED vars
  PROVE  IInv'
<1> USE DEF IInv
<1>1. UNCHANGED <<origin, tried, res, accepted, cache, messagesChunks, completed, handled, reports>>
  BY DEF Crash, Finish, Lose, vars, handlerVars
<1>2. /\ wire' \in [Node -> SUBSET Fragments]
      /\ \A n \in Node : wire'[n] \subseteq wire[n]
  <2>1. wire \in [Node -> SUBSET Fragments]
    BY DEF TypeOK
  <2>2. ASSUME NEW n \in Node, NEW m \in Message, Crash(n, m)
        PROVE  wire' = [wire EXCEPT ![n] = {}]
    BY <2>2 DEF Crash
  <2>3. ASSUME NEW n \in Node, NEW f \in wire[n], Lose(n, f)
        PROVE  wire' = [wire EXCEPT ![n] = @ \ {f}]
    BY <2>3 DEF Lose
  <2>4. ASSUME NEW m \in Message, Finish(m)
        PROVE  wire' = wire
    BY <2>4 DEF Finish
  <2>5. CASE UNCHANGED vars
    BY <2>1, <2>5 DEF vars
  <2> QED
    BY <2>1, <2>2, <2>3, <2>4, <2>5
<1> DEFINE Kept ==
      /\ up' \subseteq Node
      /\ pc' \in [Message -> {"idle", "publishing", "success", "error", "crashed"}]
      /\ requests' \in [Node -> Nat]
      /\ failures' \in [Node -> Nat]
      /\ lost' \in 0..MaxLost
      /\ \A m \in Message : pc'[m] = pc[m] \/ pc'[m] \notin {"idle", "publishing"}
<1>3. Kept
  <2>1. ASSUME NEW n \in Node, NEW m \in Message, Crash(n, m)
        PROVE  Kept
    BY <2>1 DEF Crash, TypeOK
  <2>2. ASSUME NEW n \in Node, NEW f \in wire[n], Lose(n, f)
        PROVE  Kept
    BY <2>2 DEF Lose, TypeOK
  <2>3. ASSUME NEW m \in Message, Finish(m)
        PROVE  Kept
    <3>1. origin[m] \in Node
      BY <2>3 DEF Finish, MessageInv, TypeOK
    <3>2. failures' \in [Node -> Nat]
      BY <2>3, <3>1 DEF Finish, TypeOK
    <3> DEFINE outcome == IF res[m] THEN "success" ELSE "error"
    <3>3. outcome \in {"success", "error"} /\ pc' = [pc EXCEPT ![m] = outcome]
      BY <2>3 DEF Finish
    <3> HIDE DEF outcome
    <3>4. UNCHANGED <<up, requests, lost>>
      BY <2>3 DEF Finish
    <3> QED
      BY <3>2, <3>3, <3>4 DEF TypeOK
  <2>4. CASE UNCHANGED vars
    BY <2>4 DEF vars, TypeOK
  <2> QED
    BY <2>1, <2>2, <2>3, <2>4
<1>4. TypeOK'
  BY <1>1, <1>2, <1>3 DEF TypeOK
<1>5. MessageInv'
  BY <1>1, <1>3 DEF MessageInv
<1>6. FragmentInv'
  <2>1. \A m \in Message : Sent(m)' = Sent(m)
    BY <1>1 DEF Sent
  <2>2. \A n \in Node : \A f \in wire[n] \cup cache[n] : f.msg \in Message
    BY DEF TypeOK, Fragments
  <2> QED
    BY <1>1, <1>2, <2>1, <2>2 DEF FragmentInv
<1>7. CountInv' /\ ReportInv'
  BY <1>1 DEF CountInv, ReportInv, Count, Counted
<1> QED
  BY <1>4, <1>5, <1>6, <1>7

\* A turn of the fragment loop: a fragment that is sent is new to every node,
\* for the publisher is the first to know it.
LEMMA PublishChunkPreserves ==
  ASSUME IInv, NEW m \in Message, NEW reached \in BOOLEAN, PublishChunk(m, reached)
  PROVE  IInv'
<1> USE DEF IInv
<1> DEFINE n == origin[m]
           f == Fragment(m, tried[m])
<1>1. /\ tried[m] < Chunks
      /\ tried' = [tried EXCEPT ![m] = tried[m] + 1]
      /\ UNCHANGED <<up, pc, origin, requests, failures, lost, handled>>
  BY DEF PublishChunk, More
<1>2. n \in Node /\ tried[m] \in Nat
  BY DEF PublishChunk, MessageInv, TypeOK
<1>3. f \in Fragments /\ f.msg = m
  BY <1>2, FragmentFacts
<1>4. /\ \A o \in Message : tried'[o] = tried[o] + IF o = m THEN 1 ELSE 0
      /\ tried' \in [Message -> 0..Chunks]
  BY <1>1, <1>2 DEF TypeOK
<1>5. \/ UNCHANGED <<accepted, cache, wire>>
      \/ /\ f \notin cache[n]
         /\ accepted' = [accepted EXCEPT ![m] = @ \cup {tried[m]}]
         /\ cache' = [cache EXCEPT ![n] = @ \cup {f}]
         /\ wire' = [q \in Node |-> IF q \in up \ {n} THEN wire[q] \cup {f} ELSE wire[q]]
  BY DEF PublishChunk
<1>6. res' \in [Message -> BOOLEAN]
  BY DEF PublishChunk, TypeOK
<1>7. \/ n \notin SelfTriggered /\ UNCHANGED <<messagesChunks, completed, reports>>
      \/ /\ n \in SelfTriggered /\ Handle(n, m)
         /\ messagesChunks[n][m] < Chunks
  <2>1. n \in SelfTriggered => messagesChunks[n][m] = tried[m]
    BY <1>2 DEF CountInv, Count
  <2> QED
    BY <1>1, <2>1 DEF PublishChunk, handlerVars
<1>8. /\ messagesChunks' \in [Node -> [Message -> Nat]]
      /\ completed' \in [Node -> Nat]
      /\ reports' \in [Node -> [Message -> Nat]]
      /\ \A q \in Node, o \in Message :
           messagesChunks'[q][o] = messagesChunks[q][o]
                                     + IF q = n /\ o = m /\ n \in SelfTriggered THEN 1 ELSE 0
      /\ ReportInv'
  <2>1. CASE UNCHANGED <<messagesChunks, completed, reports>> /\ n \notin SelfTriggered
    BY <2>1 DEF TypeOK, ReportInv
  <2>2. CASE n \in SelfTriggered /\ Handle(n, m) /\ messagesChunks[n][m] < Chunks
    BY <1>2, <2>2, HandleFacts
  <2> QED
    BY <1>7, <2>1, <2>2
<1> HIDE DEF n, f
<1>9. /\ cache' \in [Node -> SUBSET Fragments]
      /\ wire' \in [Node -> SUBSET Fragments]
      /\ accepted' \in [Message -> SUBSET (0..(Chunks - 1))]
  <2>1. /\ cache \in [Node -> SUBSET Fragments]
        /\ wire \in [Node -> SUBSET Fragments]
        /\ accepted \in [Message -> SUBSET (0..(Chunks - 1))]
    BY DEF TypeOK
  <2>2. tried[m] \in 0..(Chunks - 1)
    BY <1>1, <1>2
  <2>3. accepted' \in [Message -> SUBSET (0..(Chunks - 1))]
    BY <1>5, <2>1, <2>2
  <2>4. cache' \in [Node -> SUBSET Fragments]
    BY <1>3, <1>5, <2>1
  <2>5. wire' \in [Node -> SUBSET Fragments]
    BY <1>3, <1>5, <2>1
  <2> QED
    BY <2>3, <2>4, <2>5
<1>10. TypeOK'
  BY <1>1, <1>4, <1>6, <1>8, <1>9 DEF TypeOK
<1>11. MessageInv'
  <2>1. origin[m] # None
    BY <1>2 DEF n
  <2> QED
    BY <1>1, <1>4, <2>1 DEF MessageInv
<1>12. FragmentInv'
  <2>1. ASSUME NEW o \in Message
        PROVE  Sent(o) \subseteq Sent(o)'
    <3>1. tried[o] \in Nat /\ (tried'[o] = tried[o] \/ tried'[o] = tried[o] + 1)
      BY <1>4 DEF TypeOK
    <3>2. 0..(tried[o] - 1) \subseteq 0..(tried'[o] - 1)
      BY <3>1
    <3> QED
      BY <3>2 DEF Sent
  <2>2. f \in Sent(m)'
    BY <1>2, <1>4 DEF f, Sent
  <2>3. \A q \in Node :
          /\ cache[q] \subseteq cache'[q]
          /\ cache'[q] = cache[q] \/ (q = n /\ cache'[q] = cache[q] \cup {f})
          /\ wire'[q] = wire[q]
             \/ (q # n /\ f \notin cache[n] /\ f \in cache'[n] /\ wire'[q] = wire[q] \cup {f})
    BY <1>2, <1>5 DEF TypeOK
  <2>4. \A q \in Node : \A g \in wire[q] \cup cache[q] :
          g.msg \in Message /\ origin[g.msg] \in Node
    BY DEF FragmentInv, TypeOK, Fragments
  <2>5. \A q \in Node : \A g \in wire[q] \cup cache[q] :
          origin[g.msg] # None /\ g \in Sent(g.msg)' /\ g \in cache'[origin[g.msg]]
    BY <2>1, <2>3, <2>4 DEF FragmentInv
  <2>6. f \notin cache[n] => \A q \in Node : f \notin cache[q] /\ f \notin wire[q]
    BY <1>3 DEF FragmentInv, n
  <2> SUFFICES ASSUME NEW q \in Node
               PROVE  /\ handled[q] \subseteq cache'[q]
                      /\ IsFiniteSet(handled[q])
                      /\ wire'[q] \cap cache'[q] = {}
                      /\ \A g \in wire'[q] \cup handled[q] : origin[g.msg] # q
                      /\ \A g \in wire'[q] \cup cache'[q] :
                           origin[g.msg] # None /\ g \in Sent(g.msg)' /\ g \in cache'[origin[g.msg]]
    BY <1>1 DEF FragmentInv
  <2>7. handled[q] \subseteq cache'[q] /\ IsFiniteSet(handled[q])
    BY <2>3 DEF FragmentInv
  <2>8. wire'[q] \cap cache'[q] = {}
    <3>1. wire[q] \cap cache[q] = {}
      BY DEF FragmentInv
    <3>2. f \notin wire[n]
      BY <1>2, <1>3 DEF FragmentInv, n
    <3> QED
      BY <2>3, <2>6, <3>1, <3>2
  <2>9. \A g \in wire'[q] \cup handled[q] : origin[g.msg] # q
    BY <1>3, <2>3 DEF FragmentInv, n
  <2>10. ASSUME NEW g \in wire'[q] \cup cache'[q]
         PROVE  origin[g.msg] # None /\ g \in Sent(g.msg)' /\ g \in cache'[origin[g.msg]]
    <3>1. CASE g \in wire[q] \cup cache[q]
      BY <2>5, <3>1
    <3>2. CASE g = f /\ f \in cache'[n]
      BY <1>2, <1>3, <2>2, <3>2 DEF n
    <3> QED
      BY <2>3, <2>10, <3>1, <3>2
  <2> QED
    BY <2>7, <2>8, <2>9, <2>10
<1>13. CountInv'
  <2> SUFFICES ASSUME NEW q \in Node, NEW o \in Message
               PROVE  messagesChunks'[q][o] = Count(q, o)'
    BY DEF CountInv
  <2>1. messagesChunks[q][o] = Count(q, o) /\ messagesChunks[q][o] \in Nat
    BY DEF CountInv, TypeOK
  <2>2. Counted(q, o)' = Counted(q, o)
    BY <1>1 DEF Counted
  <2>3. CASE q = n /\ o = m
    <3>1. Count(q, o) = IF n \in SelfTriggered THEN tried[m] ELSE 0
      BY <2>3 DEF Count, n
    <3>2. Count(q, o)' = IF n \in SelfTriggered THEN tried[m] + 1 ELSE 0
      BY <1>1, <1>4, <2>3 DEF Count, n
    <3> QED
      BY <1>2, <1>8, <2>1, <2>3, <3>1, <3>2
  <2>4. CASE ~(q = n /\ o = m)
    <3>1. Count(q, o)' = Count(q, o)
      BY <1>1, <1>4, <2>2, <2>4 DEF Count, n, TypeOK
    <3> QED
      BY <1>8, <2>1, <2>4, <3>1
  <2> QED
    BY <2>3, <2>4
<1> QED
  BY <1>8, <1>10, <1>11, <1>12, <1>13

\* A delivery counts a fragment that was not counted before, of a message that
\* has not been reported: not all its fragments had arrived.
LEMMA DeliverPreserves ==
  ASSUME IInv, NEW n \in Node, NEW f \in wire[n], Deliver(n, f)
  PROVE  IInv'
<1> USE DEF IInv
<1> DEFINE m == f.msg
<1>1. /\ wire' = [wire EXCEPT ![n] = @ \ {f}]
      /\ cache' = [cache EXCEPT ![n] = @ \cup {f}]
      /\ handled' = [handled EXCEPT ![n] = @ \cup {f}]
      /\ UNCHANGED <<up, pc, origin, tried, res, accepted, requests, failures, lost>>
  BY DEF Deliver
<1>2. /\ f \in Fragments /\ m \in Message
      /\ f \notin cache[n] /\ f \notin handled[n]
      /\ origin[m] # n /\ origin[m] # None
      /\ f \in Sent(m)
      /\ f \in cache[origin[m]]
  BY DEF TypeOK, FragmentInv, Fragments
<1>3. \A o \in Message : Sent(o)' = Sent(o)
  BY <1>1 DEF Sent
<1>4. FragmentInv'
  <2> SUFFICES ASSUME NEW q \in Node
               PROVE  /\ handled'[q] \subseteq cache'[q]
                      /\ IsFiniteSet(handled'[q])
                      /\ wire'[q] \cap cache'[q] = {}
                      /\ \A g \in wire'[q] \cup handled'[q] : origin[g.msg] # q
                      /\ \A g \in wire'[q] \cup cache'[q] :
                           origin[g.msg] # None /\ g \in Sent(g.msg)' /\ g \in cache'[origin[g.msg]]
    BY <1>1 DEF FragmentInv
  <2>1. /\ wire'[q] = IF q = n THEN wire[q] \ {f} ELSE wire[q]
        /\ cache'[q] = IF q = n THEN cache[q] \cup {f} ELSE cache[q]
        /\ handled'[q] = IF q = n THEN handled[q] \cup {f} ELSE handled[q]
    BY <1>1 DEF TypeOK
  <2>2. IsFiniteSet(handled'[q])
    <3>1. IsFiniteSet(handled[q])
      BY DEF FragmentInv
    <3> QED
      BY <2>1, <3>1, FS_AddElement
  <2>3. handled'[q] \subseteq cache'[q] /\ wire'[q] \cap cache'[q] = {}
    BY <2>1 DEF FragmentInv
  <2>4. \A g \in wire'[q] \cup handled'[q] : origin[g.msg] # q
    BY <1>2, <2>1 DEF FragmentInv
  <2>5. ASSUME NEW g \in wire'[q] \cup cache'[q]
        PROVE  origin[g.msg] # None /\ g \in Sent(g.msg)' /\ g \in cache'[origin[g.msg]]
    <3>1. g \in wire[q] \cup cache[q]
      BY <2>1
    <3>2. g.msg \in Message /\ origin[g.msg] \in Node
      BY <3>1 DEF FragmentInv, TypeOK, Fragments
    <3>3. cache[origin[g.msg]] \subseteq cache'[origin[g.msg]]
      BY <1>1, <3>2 DEF TypeOK
    <3> QED
      BY <1>3, <3>1, <3>2, <3>3 DEF FragmentInv
  <2> QED
    BY <2>2, <2>3, <2>4, <2>5
<1>5. /\ Counted(n, m)' = Counted(n, m) \cup {f}
      /\ f \notin Counted(n, m)
      /\ IsFiniteSet(Counted(n, m))
      /\ \A q \in Node, o \in Message : q # n \/ o # m => Counted(q, o)' = Counted(q, o)
  <2>1. IsFiniteSet(Counted(n, m))
    BY <1>2, CountedAreSent
  <2>2. Counted(n, m)' = Counted(n, m) \cup {f}
    BY <1>1 DEF Counted, TypeOK
  <2>3. \A q \in Node, o \in Message : q # n \/ o # m => Counted(q, o)' = Counted(q, o)
    BY <1>1 DEF Counted, TypeOK
  <2> QED
    BY <1>2, <2>1, <2>2, <2>3 DEF Counted
<1>6. /\ Cardinality(Counted(n, m)') = Cardinality(Counted(n, m)) + 1
      /\ Cardinality(Counted(n, m)) = messagesChunks[n][m]
  <2>1. messagesChunks[n][m] = Count(n, m)
    BY <1>2 DEF CountInv
  <2>2. Count(n, m) = Cardinality(Counted(n, m))
    BY <1>2 DEF Count
  <2>3. Cardinality(Counted(n, m) \cup {f}) = Cardinality(Counted(n, m)) + 1
    BY <1>5, FS_AddElement
  <2> QED
    BY <1>5, <2>1, <2>2, <2>3
<1>7. messagesChunks[n][m] < Chunks
  <2>1. Counted(n, m)' \subseteq Sent(m)
    BY <1>2, <1>5, CountedAreSent
  <2>2. IsFiniteSet(Sent(m)) /\ Cardinality(Sent(m)) <= tried[m]
    BY <1>2, CountedAreSent
  <2>3. Cardinality(Counted(n, m)') <= Cardinality(Sent(m))
    BY <2>1, <2>2, FS_Subset
  <2>4. /\ tried[m] \in 0..Chunks /\ messagesChunks[n][m] \in Nat
        /\ Cardinality(Sent(m)) \in Nat
    BY <1>2, <2>2, FS_CardinalityType DEF TypeOK
  <2> QED
    BY <1>6, <2>2, <2>3, <2>4
<1>8. Handle(n, m)
  BY DEF Deliver
<1> HIDE DEF m
<1>9. /\ messagesChunks' \in [Node -> [Message -> Nat]]
      /\ completed' \in [Node -> Nat]
      /\ reports' \in [Node -> [Message -> Nat]]
      /\ \A q \in Node, o \in Message :
           messagesChunks'[q][o] = messagesChunks[q][o] + IF q = n /\ o = m THEN 1 ELSE 0
      /\ ReportInv'
  BY <1>2, <1>7, <1>8, HandleFacts
<1>10. TypeOK'
  <2>1. /\ wire' \in [Node -> SUBSET Fragments]
        /\ cache' \in [Node -> SUBSET Fragments]
        /\ handled' \in [Node -> SUBSET Fragments]
    BY <1>1, <1>2 DEF TypeOK
  <2> QED
    BY <1>1, <1>9, <2>1 DEF TypeOK
<1>11. MessageInv'
  BY <1>1 DEF MessageInv
<1>12. CountInv'
  <2> SUFFICES ASSUME NEW q \in Node, NEW o \in Message
               PROVE  messagesChunks'[q][o] = Count(q, o)'
    BY DEF CountInv
  <2>1. messagesChunks[q][o] = Count(q, o) /\ messagesChunks[q][o] \in Nat
    BY DEF CountInv, TypeOK
  <2>2. CASE q = n /\ o = m
    BY <1>1, <1>2, <1>6, <1>9, <2>1, <2>2 DEF Count
  <2>3. CASE ~(q = n /\ o = m)
    BY <1>1, <1>5, <1>9, <2>1, <2>3 DEF Count
  <2> QED
    BY <2>2, <2>3
<1> QED
  BY <1>4, <1>9, <1>10, <1>11, <1>12

-----------------------------------------------------------------------------

\* The inductive invariant holds of every behaviour.
THEOREM Invariance == Spec => []IInv
<1>1. Init => IInv
  BY InitHolds
<1>2. IInv /\ [Next]_vars => IInv'
  BY AskPreserves, PublishChunkPreserves, DeliverPreserves, RestPreserves DEF Next
<1> QED
  BY <1>1, <1>2, PTL DEF Spec

\* The variables keep their types.
THEOREM TypeCorrect == Spec => []TypeOK
<1>1. IInv => TypeOK
  BY DEF IInv
<1> QED
  BY <1>1, Invariance, PTL

\* A full count of a node other than the publisher stands for all fragments.
LEMMA FullCount ==
  ASSUME IInv, NEW n \in Node, NEW m \in Message, messagesChunks[n][m] = Chunks, n # origin[m]
  PROVE  tried[m] = Chunks /\ Counted(n, m) = Sent(m)
<1>1. messagesChunks[n][m] = Chunks
  OBVIOUS
<1>2. Cardinality(Counted(n, m)) = Chunks
  BY <1>1 DEF IInv, CountInv, Count
<1>3. /\ Counted(n, m) \subseteq Sent(m) /\ IsFiniteSet(Sent(m))
      /\ Cardinality(Counted(n, m)) <= Cardinality(Sent(m))
      /\ Cardinality(Sent(m)) <= tried[m]
      /\ Cardinality(Sent(m)) \in Nat
      /\ tried[m] \in 0..Chunks
  BY CountedAreSent, FS_CardinalityType DEF IInv, TypeOK
<1>4. Cardinality(Sent(m)) = Chunks /\ tried[m] = Chunks
  BY <1>2, <1>3
<1>5. Counted(n, m) = Sent(m)
  BY <1>2, <1>3, <1>4, FS_Subset
<1> QED
  BY <1>4, <1>5

LEMMA WholeInv ==
  ASSUME IInv
  PROVE  ReportsAreWhole
<1> SUFFICES ASSUME NEW n \in Node, NEW m \in Message, reports[n][m] > 0, n # origin[m]
             PROVE  {f \in handled[n] : f.msg = m} = {Fragment(m, c) : c \in 0..(Chunks - 1)}
  BY DEF ReportsAreWhole
<1>1. messagesChunks[n][m] = Chunks
  BY DEF IInv, ReportInv
<1> QED
  BY <1>1, FullCount DEF Counted, Sent

\* A node other than the publisher prints a latency only for a message all of
\* whose fragments it has received (main.nim:145-149).
THEOREM ReportsWholeMessages == Spec => []ReportsAreWhole
<1>1. IInv => ReportsAreWhole
  BY WholeInv
<1> QED
  BY <1>1, Invariance, PTL

-----------------------------------------------------------------------------
(* NimGossip implements FragmentBroadcast.                                 *)

\* What FullCount says of the counters.
FullInv ==
  \A n \in Node, m \in Message : messagesChunks[n][m] = Chunks /\ n # origin[m] => tried[m] = Chunks

Whole == {m \in Message : tried[m] = Chunks}

\* The last turn of the loop is a Publish of the abstract network, with the
\* Report of the publisher if it triggers itself; any other is a stutter.
LEMMA PublishChunkRefines ==
  ASSUME IInv, NEW m \in Message, NEW reached \in BOOLEAN, PublishChunk(m, reached)
  PROVE  \/ Whole' = Whole /\ reports' = reports
         \/ /\ m \notin Whole /\ Whole' = Whole \cup {m}
            /\ \/ reports' = reports
               \/ \E n \in Node : reports[n][m] = 0 /\ reports' = [reports EXCEPT ![n][m] = 1]
<1>1. /\ tried[m] < Chunks
      /\ tried' = [tried EXCEPT ![m] = tried[m] + 1]
      /\ origin[m] \in Node
      /\ tried[m] \in Nat
  BY DEF PublishChunk, More, IInv, MessageInv, TypeOK
<1>2. IF tried[m] + 1 = Chunks THEN Whole' = Whole \cup {m} ELSE Whole' = Whole
  BY <1>1 DEF Whole, IInv, TypeOK
<1>3. m \notin Whole
  BY <1>1 DEF Whole
<1>4. CASE origin[m] \notin SelfTriggered
  BY <1>2, <1>3, <1>4 DEF PublishChunk, handlerVars
<1>5. CASE origin[m] \in SelfTriggered
  <2>1. messagesChunks[origin[m]][m] = tried[m] /\ Handle(origin[m], m)
    BY <1>1, <1>5 DEF IInv, CountInv, Count, PublishChunk
  <2>2. messagesChunks'[origin[m]][m] = tried[m] + 1
    BY <1>1, <2>1, HandleFacts DEF IInv
  <2>3. \/ reports' = reports /\ tried[m] + 1 < Chunks
        \/ /\ tried[m] + 1 = Chunks
           /\ reports[origin[m]][m] = 0
           /\ reports' = [reports EXCEPT ![origin[m]][m] = 1]
    <3>1. messagesChunks[origin[m]][m] < Chunks
      BY <1>1, <2>1
    <3>2. \/ reports' = reports /\ messagesChunks'[origin[m]][m] < Chunks
          \/ /\ messagesChunks'[origin[m]][m] = Chunks
             /\ reports[origin[m]][m] = 0
             /\ reports' = [reports EXCEPT ![origin[m]][m] = 1]
      BY <1>1, <2>1, <3>1, HandleFacts, Zenon DEF IInv
    <3> QED
      BY <2>2, <3>2
  <2> QED
    BY <1>1, <1>2, <1>3, <2>3
<1> QED
  BY <1>4, <1>5

\* A delivery that fills the count is a Report of a message that was published
\* whole; any other is a stutter.
LEMMA DeliverRefines ==
  ASSUME IInv, ReportInv', FullInv', NEW n \in Node, NEW f \in wire[n], Deliver(n, f)
  PROVE  /\ Whole' = Whole
         /\ \/ reports' = reports
            \/ \E m \in Message : /\ m \in Whole
                                  /\ reports[n][m] = 0
                                  /\ reports' = [reports EXCEPT ![n][m] = 1]
<1>1. UNCHANGED <<tried, origin>> /\ Whole' = Whole
  BY DEF Deliver, Whole
<1>2. f.msg \in Message /\ origin[f.msg] # n
  BY DEF IInv, FragmentInv, TypeOK, Fragments
<1>3. Handle(n, f.msg)
  BY DEF Deliver
<1>4. messagesChunks[n][f.msg] < Chunks
  <2>1. messagesChunks \in [Node -> [Message -> Nat]]
    BY DEF IInv, TypeOK
  <2>2. messagesChunks'[n][f.msg] = messagesChunks[n][f.msg] + 1
    BY <1>2, <1>3, <2>1 DEF Handle
  <2>3. messagesChunks'[n][f.msg] <= Chunks
    BY <1>2 DEF ReportInv
  <2>4. messagesChunks[n][f.msg] \in Nat
    BY <1>2, <2>1
  <2> QED
    BY <2>2, <2>3, <2>4
<1>5. \/ reports' = reports
      \/ /\ messagesChunks'[n][f.msg] = Chunks
         /\ reports[n][f.msg] = 0
         /\ reports' = [reports EXCEPT ![n][f.msg] = 1]
  BY <1>2, <1>3, <1>4, HandleFacts DEF IInv
<1>6. messagesChunks'[n][f.msg] = Chunks => f.msg \in Whole
  <2> SUFFICES ASSUME messagesChunks'[n][f.msg] = Chunks
               PROVE  tried[f.msg] = Chunks
    BY <1>2 DEF Whole
  <2>1. n # origin'[f.msg]
    BY <1>1, <1>2
  <2>2. tried'[f.msg] = Chunks
    BY <1>2, <2>1 DEF FullInv
  <2> QED
    BY <1>1, <2>2
<1> QED
  BY <1>1, <1>2, <1>5, <1>6

\* Each node measures a message at most once, and only when its publisher has
\* been through all its fragments, though messagesChunks keeps every entry
\* (main.nim:131-149, 219-238).
THEOREM Measures == Spec => MeasuresOnce
<1>1. Init => Broadcast!Init
  BY DEF Init, Broadcast!Init
<1>2. IInv => FullInv
  BY FullCount DEF FullInv
<1>3. IInv => ReportInv
  BY DEF IInv
<1>4. IInv /\ ReportInv' /\ FullInv' /\ [Next]_vars => [Broadcast!Next]_(Broadcast!vars)
  <2> SUFFICES ASSUME IInv, ReportInv', FullInv', [Next]_vars
               PROVE  [Broadcast!Next]_(Broadcast!vars)
    OBVIOUS
  <2>1. ASSUME NEW m \in Message, NEW reached \in BOOLEAN, PublishChunk(m, reached)
        PROVE  [Broadcast!Next]_(Broadcast!vars)
    BY <2>1, PublishChunkRefines
    DEF Broadcast!Next, Broadcast!vars, Broadcast!Publish, Broadcast!PublishAndReport, Whole
  <2>2. ASSUME NEW n \in Node, NEW f \in wire[n], Deliver(n, f)
        PROVE  [Broadcast!Next]_(Broadcast!vars)
    BY <2>2, DeliverRefines DEF Broadcast!Next, Broadcast!vars, Broadcast!Report, Whole
  <2>3. CASE UNCHANGED <<tried, reports>>
    BY <2>3 DEF Broadcast!vars
  <2> QED
    BY <2>1, <2>2, <2>3 DEF Next, Ask, Crash, Finish, Lose, vars, handlerVars
<1> QED
  BY <1>1, <1>2, <1>3, <1>4, Invariance, PTL DEF Spec, MeasuresOnce, Broadcast!Spec
=============================================================================
