------------------------ MODULE RegressionNodeProofs ------------------------
(***************************************************************************)
(* Proofs about the Nim regression node in RegressionNode and its          *)
(* keepalive pings in KeepalivePing: the pings in flight are bounded, a    *)
(* node joins with every bootstrap it could reach, and messages silence    *)
(* the pings, for every set of peers, every address book, every answer of  *)
(* the name service and every batch, interval, timeout and retry bound.    *)
(***************************************************************************)
EXTENDS RegressionNode, FiniteSetTheorems, SequenceTheorems, TLAPS

USE PingAssumption, NodeAssumption

-----------------------------------------------------------------------------
(* The inductive invariant.                                                *)

\* The bootstrap being dialled has failed as often as the attempt says, unless
\* an earlier address of it has used up all attempts already.
Tried(p) ==
  IF addrs # <<>> /\ p = Head(addrs) THEN failures[p] \in {attempt, DialAttempts}
                                     ELSE failures[p] \in {0, DialAttempts}

\* What main has reached of its start-up.
JoinInv ==
  /\ main # "run" => loop = "off"
  /\ main \notin {"resolve", "dial"} => attempt = 0
  /\ main \in {"start", "jitter", "resolve"} =>
       bootstraps = {} /\ \A p \in Peer : failures[p] = 0
  /\ main = "dial" => \A p \in Peer \ bootstraps : Tried(p)
  /\ main = "dial" /\ addrs = <<>> => attempt = 0
  /\ main \in {"seed", "settle"} =>
       /\ bootstraps # {}
       /\ \A p \in Peer \ bootstraps : failures[p] \in {0, DialAttempts}
  /\ main = "settle" => seeds = bootstraps

IInv ==
  /\ TypeOK
  /\ InFlightBounded
  /\ JoinInv

-----------------------------------------------------------------------------
(* The pings, whatever main does.                                          *)

LEMMA EarlierFacts ==
  ASSUME NEW s \in Nat, NEW t \in Nat
  PROVE  Earlier(s, t) \in Nat /\ Earlier(s, t) <= s /\ Earlier(s, t) <= t
BY DEF Earlier

\* Dials that were bounded stay so when no task begins.
LEMMA FewerTasks ==
  ASSUME PingTypeOK, InFlightBounded, PingTypeOK', Busy' \subseteq Busy,
         Busy' # {} => loop' = "batch"
  PROVE  InFlightBounded'
<1>1. IsFiniteSet(Busy)
  BY FS_Subset DEF Busy
<1>2. Cardinality(Busy') <= Cardinality(Busy) /\ IsFiniteSet(Busy')
  BY <1>1, FS_Subset
<1>3. Cardinality(Busy) \in Nat /\ Cardinality(Busy') \in Nat
  BY <1>1, <1>2, FS_CardinalityType
<1> QED
  BY <1>2, <1>3 DEF InFlightBounded

PingKept == PingTypeOK' /\ InFlightBounded' /\ (loop = "off" => loop' = "off")

\* Connections come and go, and messages are received.
LEMMA LinksKeep ==
  ASSUME PingTypeOK, InFlightBounded, NEW p \in Peer,
         \/ Connect(p) \/ Disconnect(p) \/ IdleClose(p)
         \/ \E warmup \in BOOLEAN : HandleMessage(p, warmup)
  PROVE  PingKept
<1>1. /\ conn' = conn \cup {p} \/ conn' = conn \ {p}
      /\ idle' = [idle EXCEPT ![p] = 0]
      /\ messagesStarted' \in BOOLEAN
      /\ UNCHANGED <<loop, timer, todo, age, task, left>>
  BY DEF Connect, Disconnect, IdleClose, HandleMessage, Hear, Drop, Heed, loopVars, taskVars,
         PingTypeOK
<1>2. idle' \in [Peer -> 0..IdleTimeout]
  <2>1. idle \in [Peer -> 0..IdleTimeout]
    BY DEF PingTypeOK
  <2>2. 0 \in 0..IdleTimeout
    OBVIOUS
  <2> QED
    BY <1>1, <2>1, <2>2
<1>3. PingTypeOK'
  BY <1>1, <1>2 DEF PingTypeOK
<1>4. Busy' = Busy
  BY <1>1 DEF Busy
<1> QED
  BY <1>1, <1>3, <1>4 DEF InFlightBounded, PingKept

\* A task goes on to its next stage, or ends.
LEMMA TasksKeep ==
  ASSUME PingTypeOK, InFlightBounded, NEW p \in Peer, PingPeerStep(p)
  PROVE  PingKept
<1>1. /\ task[p] # "none"
      /\ UNCHANGED <<messagesStarted, loop, timer, todo, age>>
      /\ conn' \subseteq Peer
      /\ idle' \in [Peer -> 0..IdleTimeout]
  <2>1. idle \in [Peer -> 0..IdleTimeout] /\ conn \subseteq Peer /\ 0 \in 0..IdleTimeout
    BY DEF PingTypeOK
  <2>2. Hear(p) => conn' \subseteq Peer /\ idle' \in [Peer -> 0..IdleTimeout]
    BY <2>1 DEF Hear
  <2> QED
    BY <2>1, <2>2 DEF PingPeerStep, DialStream, Pong, Close, Fail, loopVars, linkVars
<1>2. PICK stage \in {"none", "ping", "close"}, timeout \in Nat : Begin(p, stage, timeout)
  <2>1. \/ Begin(p, "ping", PingTimeout) \/ Begin(p, "close", CloseTimeout) \/ Begin(p, "none", 0)
    BY DEF PingPeerStep, DialStream, Pong, Close, Fail
  <2>2. PingTimeout \in Nat /\ CloseTimeout \in Nat /\ 0 \in Nat
    OBVIOUS
  <2> QED
    BY <2>1, <2>2
<1>3. /\ task' = [task EXCEPT ![p] = stage]
      /\ left' = [left EXCEPT ![p] = IF stage = "none" THEN 0 ELSE Earlier(Slowest, timeout)]
  BY <1>2 DEF Begin
<1>4. task \in [Peer -> {"none", "dial", "ping", "close"}] /\ left \in [Peer -> Nat]
  BY DEF PingTypeOK
<1>5. task' \in [Peer -> {"none", "dial", "ping", "close"}]
  BY <1>2, <1>3, <1>4
<1>6. left' \in [Peer -> Nat]
  <2>1. Earlier(Slowest, timeout) \in Nat
    BY EarlierFacts
  <2> HIDE DEF Earlier
  <2> QED
    BY <1>3, <1>4, <2>1
<1>7. PingTypeOK'
  BY <1>1, <1>5, <1>6 DEF PingTypeOK
<1>8. Busy' \subseteq Busy
  BY <1>1, <1>3, <1>4 DEF Busy
<1>9. Busy' # {} => loop' = "batch"
  BY <1>1, <1>8 DEF InFlightBounded
<1> QED
  BY <1>1, <1>7, <1>8, <1>9, FewerTasks DEF PingKept

\* The loop goes round: only a batch begins tasks, as many as it may.
LEMMA LoopKeeps ==
  ASSUME PingTypeOK, InFlightBounded, PingLoopStep
  PROVE  PingKept
<1>1. CASE StartBatch
  <2>1. PICK B \in SUBSET todo :
          /\ Cardinality(B) = BatchSize
          /\ todo' = todo \ B
          /\ task' = [p \in Peer |-> IF p \in B \cap Booked THEN "dial" ELSE task[p]]
          /\ left' = [p \in Peer |-> IF p \in B \cap Booked
                                     THEN Earlier(Slowest, DialTimeout) ELSE left[p]]
    BY <1>1 DEF StartBatch, Rest
  <2>2. /\ loop = "sweep" /\ loop' = "batch"
        /\ UNCHANGED <<messagesStarted, conn, idle, timer, age>>
    BY <1>1 DEF StartBatch, linkVars
  <2>3. PingTypeOK'
    <3>1. task \in [Peer -> {"none", "dial", "ping", "close"}] /\ left \in [Peer -> Nat]
      BY DEF PingTypeOK
    <3>2. Earlier(Slowest, DialTimeout) \in Nat
      BY EarlierFacts
    <3>3. task' \in [Peer -> {"none", "dial", "ping", "close"}]
      BY <2>1, <3>1
    <3>4. left' \in [Peer -> Nat]
      BY <2>1, <3>1, <3>2
    <3> QED
      BY <2>1, <2>2, <3>3, <3>4 DEF PingTypeOK
  <2>4. Busy' \subseteq B
    <3>1. \A p \in Peer : task[p] = "none"
      BY <2>2 DEF InFlightBounded, Busy
    <3> QED
      BY <2>1, <3>1 DEF Busy
  <2>5. IsFiniteSet(todo) /\ IsFiniteSet(B)
    <3>1. todo \subseteq Peer
      BY DEF PingTypeOK
    <3> QED
      BY <3>1, FS_Subset
  <2>6. Cardinality(B) <= PingBatch
    <3>1. Cardinality(todo) \in Nat
      BY <2>5, FS_CardinalityType
    <3> QED
      BY <2>1, <3>1, EarlierFacts DEF BatchSize
  <2>7. Cardinality(Busy') <= PingBatch
    <3>1. Cardinality(Busy') <= Cardinality(B) /\ IsFiniteSet(Busy')
      BY <2>4, <2>5, FS_Subset
    <3>2. Cardinality(Busy') \in Nat /\ Cardinality(B) \in Nat
      BY <2>5, <3>1, FS_CardinalityType
    <3> QED
      BY <2>6, <3>1, <3>2
  <2> QED
    BY <2>2, <2>3, <2>7 DEF InFlightBounded, PingKept
<1>2. CASE Wake \/ EndBatch \/ EndSweep
  <2>1. /\ UNCHANGED <<messagesStarted, conn, idle, task, left, age>>
        /\ timer' \in Nat
        /\ todo' \subseteq Peer
        /\ loop \in {"stagger", "interval", "sweep", "batch"}
        /\ loop' \in {"stopped", "sweep", "interval"}
    BY <1>2 DEF Wake, EndBatch, EndSweep, linkVars, taskVars, PingTypeOK
  <2>2. PingTypeOK'
    BY <2>1 DEF PingTypeOK
  <2>3. Busy' = Busy
    BY <2>1 DEF Busy
  <2>4. Busy = {}
    BY <1>2 DEF Wake, EndBatch, EndSweep, InFlightBounded
  <2> QED
    BY <2>1, <2>2, <2>3, <2>4, FewerTasks DEF PingKept
<1> QED
  BY <1>1, <1>2 DEF PingLoopStep

\* Time passes; nothing that is due is passed over.
LEMMA TimeKeeps ==
  ASSUME PingTypeOK, InFlightBounded, Tick
  PROVE  PingKept
<1>1. /\ ~Due
      /\ idle' = [p \in Peer |-> IF p \in conn THEN idle[p] + 1 ELSE idle[p]]
      /\ timer' = IF timer > 0 THEN timer - 1 ELSE 0
      /\ left' = [p \in Peer |-> IF p \in Busy THEN left[p] - 1 ELSE left[p]]
      /\ age' = IF Active THEN Earlier(age + 1, IdleTimeout) ELSE age
      /\ UNCHANGED <<messagesStarted, conn, loop, todo, task>>
  BY DEF Tick
<1>2. idle' \in [Peer -> 0..IdleTimeout]
  <2>1. \A p \in Peer : idle[p] \in 0..IdleTimeout
    BY DEF PingTypeOK
  <2>2. \A p \in conn : idle[p] # IdleTimeout
    BY <1>1 DEF Due
  <2>3. \A p \in Peer : (IF p \in conn THEN idle[p] + 1 ELSE idle[p]) \in 0..IdleTimeout
    BY <2>1, <2>2
  <2> QED
    BY <1>1, <2>3
<1>3. left' \in [Peer -> Nat]
  <2>1. \A p \in Peer : left[p] \in Nat
    BY DEF PingTypeOK
  <2>2. \A p \in Busy : left[p] # 0
    BY <1>1 DEF Due
  <2>3. \A p \in Peer : (IF p \in Busy THEN left[p] - 1 ELSE left[p]) \in Nat
    BY <2>1, <2>2
  <2> QED
    BY <1>1, <2>3
<1>4. timer' \in Nat
  BY <1>1 DEF PingTypeOK
<1>5. age' \in 0..IdleTimeout
  BY <1>1 DEF PingTypeOK, Earlier
<1>6. PingTypeOK'
  BY <1>1, <1>2, <1>3, <1>4, <1>5 DEF PingTypeOK
<1>7. Busy' = Busy
  BY <1>1 DEF Busy
<1> QED
  BY <1>1, <1>6, <1>7 DEF InFlightBounded, PingKept

-----------------------------------------------------------------------------
(* The node: each action preserves the inductive invariant.                *)

LEMMA InitHolds ==
  ASSUME Init
  PROVE  IInv
<1>1. PingTypeOK
  <2>1. idle \in [Peer -> 0..IdleTimeout] /\ left \in [Peer -> Nat] /\ age \in 0..IdleTimeout
    BY DEF Init, PingInit
  <2>2. task \in [Peer -> {"none", "dial", "ping", "close"}]
    BY DEF Init, PingInit
  <2> QED
    BY <2>1, <2>2 DEF Init, PingInit, PingTypeOK
<1>2. TypeOK
  <2>1. 0 \in 0..(DialAttempts - 1) /\ 0 \in 0..DialAttempts
    OBVIOUS
  <2>2. failures \in [Peer -> 0..DialAttempts]
    BY <2>1 DEF Init
  <2>3. main = "start" /\ serving = FALSE /\ attempt = 0 /\ addrs = <<>> /\ bootstraps = {}
        /\ seeds = {}
    BY DEF Init
  <2>4. addrs \in Seq(Peer)
    BY <2>3
  <2> QED
    BY <1>1, <2>1, <2>2, <2>3, <2>4 DEF TypeOK
<1>3. InFlightBounded
  <2>1. Busy = {}
    BY DEF Init, PingInit, Busy
  <2> QED
    BY <2>1, FS_EmptySet DEF InFlightBounded
<1>4. JoinInv
  BY DEF Init, PingInit, JoinInv
<1> QED
  BY <1>2, <1>3, <1>4 DEF IInv

\* What runs beside main leaves main where it is.
LEMMA BesidePreserves ==
  ASSUME IInv, PingKept, UNCHANGED mainVars
  PROVE  IInv'
<1>1. TypeOK'
  BY DEF IInv, PingKept, TypeOK, mainVars
<1>2. JoinInv'
  BY DEF IInv, PingKept, JoinInv, Tried, mainVars
<1> QED
  BY <1>1, <1>2 DEF IInv, PingKept

\* A process that ends leaves nothing behind.
LEMMA ExitPreserves ==
  ASSUME IInv, Exit
  PROVE  IInv'
<1>1. PingTypeOK'
  BY DEF Exit, IInv, TypeOK, PingTypeOK
<1>2. TypeOK'
  <2>1. 0 \in 0..(DialAttempts - 1)
    OBVIOUS
  <2> QED
    BY <1>1, <2>1 DEF Exit, IInv, TypeOK
<1>3. InFlightBounded'
  <2>1. Busy' = {}
    BY DEF Exit, Busy
  <2> QED
    BY <2>1, FS_EmptySet DEF InFlightBounded
<1>4. JoinInv'
  BY DEF Exit, JoinInv
<1> QED
  BY <1>2, <1>3, <1>4 DEF IInv

\* A bootstrap answers, or does not: what it has been tried is known.
LEMMA DialPreserves ==
  ASSUME IInv, DialAnswered \/ DialFailed
  PROVE  IInv'
<1> USE DEF IInv
<1> DEFINE h == Head(addrs)
<1>1. /\ main = "dial" /\ main' = "dial" /\ addrs # <<>>
      /\ UNCHANGED <<messagesStarted, loop, timer, todo, age, task, left, serving, seeds>>
  BY DEF DialAnswered, DialFailed, pingVars, loopVars, taskVars
<1>2. /\ addrs \in Seq(Peer) /\ h \in Peer /\ Tail(addrs) \in Seq(Peer)
      /\ attempt \in 0..(DialAttempts - 1)
      /\ failures \in [Peer -> 0..DialAttempts]
      /\ loop = "off"
      /\ \A p \in Peer \ bootstraps : Tried(p)
  <2>1. addrs \in Seq(Peer)
    BY DEF TypeOK
  <2> QED
    BY <1>1, <2>1 DEF TypeOK, JoinInv
<1> HIDE DEF h
<1>3. h = Head(addrs)
  BY DEF h
<1>4. CASE DialAnswered
  <2>1. /\ Hear(h) /\ bootstraps' = bootstraps \cup {h} /\ addrs' = Tail(addrs)
        /\ attempt' = 0 /\ failures' = failures
    BY <1>4 DEF DialAnswered, h
  <2>2. PingTypeOK'
    <3>1. idle' \in [Peer -> 0..IdleTimeout] /\ conn' \subseteq Peer
      <4>1. idle \in [Peer -> 0..IdleTimeout] /\ conn \subseteq Peer /\ 0 \in 0..IdleTimeout
        BY DEF TypeOK, PingTypeOK
      <4> QED
        BY <1>2, <2>1, <4>1 DEF Hear
    <3> QED
      BY <1>1, <3>1 DEF TypeOK, PingTypeOK
  <2>3. TypeOK'
    <3>1. /\ main' = "dial" /\ serving' \in BOOLEAN /\ addrs' \in Seq(Peer)
          /\ bootstraps' \subseteq Peer /\ seeds' \subseteq bootstraps'
          /\ failures' \in [Peer -> 0..DialAttempts]
      BY <1>1, <1>2, <2>1 DEF TypeOK
    <3>2. attempt' \in 0..(DialAttempts - 1)
      BY <2>1
    <3> QED
      BY <2>2, <3>1, <3>2 DEF TypeOK
  <2>4. InFlightBounded'
    BY <1>1 DEF InFlightBounded, Busy
  <2>5. \A p \in Peer \ bootstraps' : failures'[p] \in {0, DialAttempts}
    BY <1>2, <1>3, <2>1 DEF Tried
  <2>6. \A p \in Peer \ bootstraps' : Tried(p)'
    BY <2>1, <2>5 DEF Tried
  <2>7. JoinInv'
    BY <1>1, <1>2, <2>1, <2>6 DEF JoinInv
  <2> QED
    BY <2>3, <2>4, <2>7
<1>5. CASE DialFailed
  <2>1. /\ failures' = [failures EXCEPT ![h] = Earlier(@ + 1, DialAttempts)]
        /\ UNCHANGED <<conn, idle, bootstraps>>
        /\ \/ attempt + 1 = DialAttempts /\ addrs' = Tail(addrs) /\ attempt' = 0
           \/ attempt + 1 # DialAttempts /\ addrs' = addrs /\ attempt' = attempt + 1
    BY <1>5 DEF DialFailed, LastDial, pingVars, h
  <2>2. attempt' \in 0..(DialAttempts - 1)
    <3>1. attempt \in Nat /\ attempt <= DialAttempts - 1 /\ DialAttempts \in Nat \ {0}
      BY <1>2
    <3> QED
      BY <2>1, <3>1
  <2>3. /\ failures' \in [Peer -> 0..DialAttempts]
        /\ \A p \in Peer : failures'[p] = IF p = h THEN Earlier(failures[p] + 1, DialAttempts)
                                                   ELSE failures[p]
    <3>1. Earlier(failures[h] + 1, DialAttempts) \in 0..DialAttempts
      <4>1. failures[h] + 1 \in Nat /\ DialAttempts \in Nat
        BY <1>2
      <4> QED
        BY <4>1 DEF Earlier
    <3> HIDE DEF Earlier
    <3> QED
      BY <1>2, <2>1, <3>1
  <2>4. TypeOK'
    <3>1. PingTypeOK'
      BY <1>1, <2>1 DEF TypeOK, PingTypeOK
    <3>2. /\ main' = "dial" /\ serving' \in BOOLEAN /\ addrs' \in Seq(Peer)
          /\ bootstraps' \subseteq Peer /\ seeds' \subseteq bootstraps'
      BY <1>1, <1>2, <2>1 DEF TypeOK
    <3> QED
      BY <2>2, <2>3, <3>1, <3>2 DEF TypeOK
  <2>5. InFlightBounded'
    BY <1>1 DEF InFlightBounded, Busy
  <2>6. ASSUME NEW p \in Peer \ bootstraps
        PROVE  Tried(p)'
    <3>1. CASE p = h
      <4>1. failures[p] \in {attempt, DialAttempts}
        BY <1>1, <1>2, <1>3, <3>1 DEF Tried
      <4>2. failures'[p] \in {attempt + 1, DialAttempts}
        <5>1. failures'[p] = Earlier(failures[p] + 1, DialAttempts)
          BY <2>3, <3>1
        <5>2. attempt \in Nat /\ attempt + 1 <= DialAttempts /\ DialAttempts \in Nat
          BY <1>2
        <5> QED
          BY <4>1, <5>1, <5>2 DEF Earlier
      <4>3. CASE addrs' = addrs /\ attempt' = attempt + 1
        BY <1>1, <1>3, <3>1, <4>2, <4>3 DEF Tried
      <4>4. CASE attempt + 1 = DialAttempts /\ attempt' = 0
        <5>1. failures'[p] = DialAttempts
          BY <4>2, <4>4
        <5> QED
          BY <5>1 DEF Tried
      <4> QED
        BY <2>1, <4>3, <4>4
    <3>2. CASE p # h
      <4>1. failures'[p] \in {0, DialAttempts}
        BY <1>2, <1>3, <2>3, <3>2 DEF Tried
      <4> QED
        BY <1>3, <2>1, <3>2, <4>1 DEF Tried
    <3> QED
      BY <3>1, <3>2
  <2>7. JoinInv'
    BY <1>1, <1>2, <2>1, <2>6 DEF JoinInv
  <2> QED
    BY <2>4, <2>5, <2>7
<1> QED
  BY <1>4, <1>5

\* The other steps of main, those that end the process aside.
LEMMA MainPreserves ==
  ASSUME IInv, MainStep
  PROVE  IInv'
<1> USE DEF IInv
<1>1. CASE Exit
  BY <1>1, ExitPreserves
<1>2. CASE DialAnswered \/ DialFailed
  BY <1>2, DialPreserves
<1>3. CASE /\ main \in {"start", "jitter"} /\ main' \in {"jitter", "resolve"}
           /\ serving' \in BOOLEAN
           /\ UNCHANGED <<pingVars, attempt, addrs, bootstraps, seeds, failures>>
  <2>1. PingTypeOK'
    BY <1>3 DEF TypeOK, PingTypeOK, pingVars
  <2>2. attempt = 0 /\ 0 \in 0..(ResolveAttempts - 1) /\ 0 \in 0..(DialAttempts - 1)
    BY <1>3 DEF JoinInv
  <2>3. TypeOK'
    BY <1>3, <2>1, <2>2 DEF TypeOK
  <2>4. InFlightBounded'
    BY <1>3 DEF InFlightBounded, Busy, pingVars
  <2>5. JoinInv'
    BY <1>3, <2>2 DEF JoinInv, pingVars
  <2> QED
    BY <2>3, <2>4, <2>5
<1>4. ASSUME NEW found \in Lookups, Resolve(found), ~Exit
      PROVE  IInv'
  <2>1. /\ main = "resolve" /\ UNCHANGED <<pingVars, serving, bootstraps, seeds, failures>>
        /\ \/ found # <<>> /\ addrs' = found /\ attempt' = 0 /\ main' = "dial"
           \/ /\ attempt + 1 # ResolveAttempts /\ attempt' = attempt + 1
              /\ main' = main /\ addrs' = addrs
    BY <1>4 DEF Resolve, LastLookup
  <2>2. PingTypeOK'
    BY <2>1 DEF TypeOK, PingTypeOK, pingVars
  <2>3. attempt \in 0..(ResolveAttempts - 1)
    BY <2>1 DEF TypeOK
  <2>4. attempt' \in 0..((IF main' = "resolve" THEN ResolveAttempts ELSE DialAttempts) - 1)
    <3>1. ResolveAttempts \in Nat \ {0} /\ DialAttempts \in Nat \ {0}
      OBVIOUS
    <3>2. 0 \in 0..(DialAttempts - 1)
      BY <3>1
    <3>3. attempt + 1 # ResolveAttempts => attempt + 1 \in 0..(ResolveAttempts - 1)
      BY <2>3, <3>1
    <3>4. CASE attempt' = 0 /\ main' = "dial"
      BY <3>2, <3>4
    <3>5. CASE attempt + 1 # ResolveAttempts /\ attempt' = attempt + 1 /\ main' = "resolve"
      BY <3>3, <3>5
    <3> QED
      BY <2>1, <3>4, <3>5
  <2>5. TypeOK'
    <3>1. addrs' \in Seq(Peer)
      BY <2>1 DEF TypeOK
    <3> QED
      BY <2>1, <2>2, <2>4, <3>1 DEF TypeOK
  <2>6. InFlightBounded'
    BY <2>1 DEF InFlightBounded, Busy, pingVars
  <2>7. JoinInv'
    <3>1. loop' = "off" /\ bootstraps' = {} /\ \A p \in Peer : failures'[p] = 0
      BY <2>1 DEF JoinInv, pingVars
    <3>2. main' = "dial" => \A p \in Peer \ bootstraps' : Tried(p)'
      BY <2>1, <3>1 DEF Tried
    <3> QED
      BY <2>1, <3>1, <3>2 DEF JoinInv
  <2> QED
    BY <2>5, <2>6, <2>7
<1>5. CASE DialsEnd /\ ~Exit
  <2>1. /\ main = "dial" /\ addrs = <<>> /\ bootstraps # {} /\ main' = "seed"
        /\ UNCHANGED <<pingVars, serving, attempt, addrs, bootstraps, seeds, failures>>
    BY <1>5 DEF DialsEnd
  <2>2. PingTypeOK' /\ InFlightBounded'
    BY <2>1 DEF TypeOK, PingTypeOK, InFlightBounded, Busy, pingVars
  <2>3. TypeOK'
    BY <2>1, <2>2 DEF TypeOK
  <2>4. JoinInv'
    <3>1. \A p \in Peer \ bootstraps : failures[p] \in {0, DialAttempts}
      BY <2>1 DEF JoinInv, Tried
    <3>2. attempt = 0
      BY <2>1 DEF JoinInv
    <3> QED
      BY <2>1, <3>1, <3>2 DEF JoinInv, pingVars
  <2> QED
    BY <2>2, <2>3, <2>4
<1>6. CASE Seed
  <2>1. /\ main = "seed" /\ main' = "settle" /\ seeds' = bootstraps
        /\ UNCHANGED <<pingVars, serving, attempt, addrs, bootstraps, failures>>
    BY <1>6 DEF Seed
  <2>2. PingTypeOK' /\ InFlightBounded'
    BY <2>1 DEF TypeOK, PingTypeOK, InFlightBounded, Busy, pingVars
  <2>3. TypeOK'
    BY <2>1, <2>2 DEF TypeOK
  <2>4. JoinInv'
    BY <2>1 DEF JoinInv, pingVars
  <2> QED
    BY <2>2, <2>3, <2>4
<1>7. CASE Settle
  <2>1. /\ main = "settle" /\ main' = "run"
        /\ loop' = "stagger" /\ timer' \in 0..PingInterval /\ age' = 0
        /\ bootstraps' = {} /\ seeds' = {} /\ failures' = [p \in Peer |-> 0]
        /\ UNCHANGED <<messagesStarted, conn, idle, todo, task, left, serving, attempt, addrs>>
    BY <1>7 DEF Settle, BeginLoop, linkVars, taskVars
  <2>2. PingTypeOK'
    <3>1. timer' \in Nat /\ age' \in 0..IdleTimeout
      BY <2>1
    <3> QED
      BY <2>1, <3>1 DEF TypeOK, PingTypeOK
  <2>3. InFlightBounded'
    <3>1. Busy = {} /\ Busy' = Busy
      BY <2>1 DEF JoinInv, InFlightBounded, Busy
    <3> QED
      BY <3>1, FS_EmptySet DEF InFlightBounded
  <2>4. TypeOK'
    BY <2>1, <2>2 DEF TypeOK
  <2>5. JoinInv'
    BY <2>1 DEF JoinInv
  <2> QED
    BY <2>3, <2>4, <2>5
<1>8. CASE (\E known, bound \in BOOLEAN : Start(known, bound)) /\ ~Exit
  BY <1>3, <1>8 DEF Start
<1>9. CASE EndJitter
  BY <1>3, <1>9 DEF EndJitter, TypeOK
<1> QED
  BY <1>1, <1>2, <1>4, <1>5, <1>6, <1>7, <1>8, <1>9 DEF MainStep

-----------------------------------------------------------------------------
(* The theorems.                                                           *)

\* IInv is an inductive invariant: main, the ping loop, its tasks, the network
\* and time preserve it.
THEOREM Invariance == Spec => []IInv
<1>1. Init => IInv
  BY InitHolds
<1>2. IInv /\ [Next]_vars => IInv'
  <2> SUFFICES ASSUME IInv, [Next]_vars
               PROVE  IInv'
    OBVIOUS
  <2>1. PingTypeOK /\ InFlightBounded
    BY DEF IInv, TypeOK
  <2>2. CASE MainStep
    BY <2>2, MainPreserves
  <2>3. CASE Signal
    BY <2>3, ExitPreserves DEF Signal
  <2>4. ASSUME NEW short \in BOOLEAN, Publish(short)
        PROVE  IInv'
    <3>1. CASE short
      BY <2>4, <3>1, ExitPreserves DEF Publish
    <3>2. CASE ~short
      <4>1. /\ messagesStarted' \in BOOLEAN
            /\ UNCHANGED <<conn, idle, loop, timer, todo, age, task, left, mainVars>>
        BY <2>1, <2>4, <3>2 DEF Publish, Heed, PingTypeOK, linkVars, loopVars, taskVars
      <4>2. PingKept
        BY <2>1, <4>1 DEF PingKept, PingTypeOK, InFlightBounded, Busy
      <4> QED
        BY <4>1, <4>2, BesidePreserves
    <3> QED
      BY <3>1, <3>2
  <2>5. ASSUME NEW p \in Peer,
               \/ Beside(Connect(p)) \/ Beside(Disconnect(p)) \/ Beside(IdleClose(p))
               \/ \E warmup \in BOOLEAN : Beside(HandleMessage(p, warmup))
               \/ Beside(PingPeerStep(p))
        PROVE  IInv'
    BY <2>1, <2>5, LinksKeep, TasksKeep, BesidePreserves DEF Beside
  <2>6. CASE Beside(PingLoopStep) \/ Beside(Tick)
    BY <2>1, <2>6, LoopKeeps, TimeKeeps, BesidePreserves DEF Beside
  <2>7. CASE UNCHANGED vars
    <3>1. UNCHANGED pingVars /\ UNCHANGED mainVars
      BY <2>7 DEF vars
    <3>2. PingKept
      BY <2>1, <3>1 DEF PingKept, PingTypeOK, InFlightBounded, Busy, pingVars
    <3> QED
      BY <3>1, <3>2, BesidePreserves
  <2> QED
    BY <2>2, <2>3, <2>4, <2>5, <2>6, <2>7 DEF Next
<1> QED
  BY <1>1, <1>2, PTL DEF Spec

\* Timers never run below zero, no connection outlives its idle timeout, and
\* the attempts stay within their bounds (kad_utils.nim:46, 64).
THEOREM TypeCorrect == Spec => []TypeOK
<1>1. IInv => TypeOK
  BY DEF IInv
<1> QED
  BY <1>1, Invariance, PTL

\* Never more pings in flight than a batch, and none between two batches, for
\* any number of connections (ping_utils.nim:17).
THEOREM BatchesBound == Spec => []InFlightBounded
<1>1. IInv => InFlightBounded
  BY DEF IInv
<1> QED
  BY <1>1, Invariance, PTL

\* A node that has joined has seeded its table with every bootstrap that
\* answered, and has given up on no other before its last attempt
\* (kad_utils.nim:62-85).
THEOREM JoinsWithAllItReached == Spec => []SeedsAreReached
<1>1. IInv => SeedsAreReached
  BY DEF IInv, JoinInv, SeedsAreReached
<1> QED
  BY <1>1, Invariance, PTL

\* Once a message has been received no ping begins, be it the next of a sweep
\* or the first of another (ping_utils.nim:99).
THEOREM MessagesSilence == Spec => QuietAfterMessages
<1> DEFINE Quiet == messagesStarted => \A p \in Peer : task'[p] = "dial" => task[p] = "dial"
<1>1. IInv /\ [Next]_vars => [Quiet]_pingVars
  <2> SUFFICES ASSUME IInv, Next, messagesStarted, NEW p \in Peer, task'[p] = "dial",
                      task[p] # "dial"
               PROVE  FALSE
    BY DEF vars, pingVars
  <2>1. task \in [Peer -> {"none", "dial", "ping", "close"}]
    BY DEF IInv, TypeOK, PingTypeOK
  <2>2. ASSUME Exit
        PROVE  FALSE
    BY <2>2 DEF Exit
  <2>3. ASSUME NEW q \in Peer, PingPeerStep(q)
        PROVE  FALSE
    BY <2>1, <2>3 DEF PingPeerStep, DialStream, Pong, Close, Fail, Begin
  <2>4. ASSUME UNCHANGED task
        PROVE  FALSE
    BY <2>4
  <2>5. ~StartBatch
    BY DEF StartBatch, More
  <2>6. CASE MainStep
    BY <2>2, <2>4, <2>6 DEF MainStep, Start, EndJitter, Resolve, DialAnswered, DialFailed, DialsEnd,
                            Seed, Settle, pingVars, taskVars
  <2>7. CASE Signal \/ \E short \in BOOLEAN : Publish(short)
    BY <2>2, <2>4, <2>7 DEF Signal, Publish, taskVars
  <2>8. CASE Beside(PingLoopStep) \/ Beside(Tick)
    BY <2>4, <2>5, <2>8 DEF Beside, PingLoopStep, Wake, EndBatch, EndSweep, Tick, taskVars
  <2>9. ASSUME NEW q \in Peer,
               \/ Beside(Connect(q)) \/ Beside(Disconnect(q)) \/ Beside(IdleClose(q))
               \/ \E warmup \in BOOLEAN : Beside(HandleMessage(q, warmup))
        PROVE  FALSE
    BY <2>4, <2>9 DEF Beside, Connect, Disconnect, IdleClose, HandleMessage, taskVars
  <2> QED
    BY <2>3, <2>6, <2>7, <2>8, <2>9 DEF Next, Beside
<1> QED
  BY <1>1, Invariance, PTL DEF Spec, QuietAfterMessages

-----------------------------------------------------------------------------
(* How long a peer that answers may stay unheard.  A sweep of n batches     *)
(* takes n rounds at most, so the time from one ping of a peer to the next  *)
(* is bounded; the invariant follows that bound as it runs down.            *)

Dialling == Earlier(Slowest, DialTimeout)
Pinging == Earlier(Slowest, PingTimeout)
Closing == Earlier(Slowest, CloseTimeout)
Stages == Dialling + Pinging + Closing

\* The longest time that k batches take, the gap after each included.
Rounds(k) == k * (Stages + BatchGap)

\* The longest time from the start of a sweep of n batches until a peer of the
\* last one is heard, and the longest silence of a peer: the rest of its batch
\* and all others, the interval, and all other batches again.
UntilLast(n) == Rounds(n - 1) + Dialling
Silence(n) == Stages + Rounds(n - 1) + PingInterval + UntilLast(n)

\* The time a task may still take.
TaskLeft(q) ==
  CASE task[q] = "dial" -> left[q] + Pinging + Closing
    [] task[q] = "ping" -> left[q] + Closing
    [] task[q] = "close" -> left[q]
    [] OTHER -> 0

\* k batches are enough for the peers of S.
FillAtMost(S, k) == Cardinality(S) <= k * PingBatch

\* k batches are left of the sweep, and the present one takes t at most.
Shape(n, k, t) ==
  /\ \A q \in Busy : TaskLeft(q) <= t
  /\ loop \in {"stagger", "interval"} => timer <= PingInterval
  /\ loop \in {"sweep", "batch"} => FillAtMost(todo, k) /\ (todo = {} => k = 0)
  /\ loop = "sweep" => timer = 0 \/ (todo # {} /\ k <= n - 1 /\ timer <= BatchGap)
  /\ loop = "batch" => k <= n - 1

\* When p is heard at the latest, if it stays connected and answers.
Until(p, n, k, t) ==
  IF task[p] = "dial" THEN left[p]
  ELSE IF loop \in {"stagger", "interval"} THEN timer + UntilLast(n)
  ELSE LET sofar == IF loop = "batch" THEN t + BatchGap ELSE timer
       IN  IF p \in todo THEN sofar + Rounds(k - 1) + Dialling
           ELSE IF k = 0 THEN (IF loop = "batch" THEN t ELSE timer) + PingInterval + UntilLast(n)
           ELSE sofar + Rounds(k - 1) + Stages + PingInterval + UntilLast(n)

\* No peer has been silent for so long that its silence could become too long.
Heard(n, k, t) ==
  \A p \in conn \cap Booked \cap Prompt : Earlier(age, idle[p]) + Until(p, n, k, t) <= Silence(n)

HeardInv(n) ==
  Active /\ ~messagesStarted => \E k \in 0..n, t \in 0..Stages : Shape(n, k, t) /\ Heard(n, k, t)

LEMMA StageFacts ==
  /\ Dialling \in Nat /\ Pinging \in Nat /\ Closing \in Nat /\ Stages \in Nat
  /\ Stages = Dialling + Pinging + Closing
<1>1. Dialling \in Nat /\ Pinging \in Nat /\ Closing \in Nat
  BY EarlierFacts DEF Dialling, Pinging, Closing
<1> QED
  BY <1>1 DEF Stages

LEMMA RoundsFacts ==
  /\ \A k \in Nat : Rounds(k) \in Nat
  /\ \A k \in Nat \ {0} : Rounds(k) = Rounds(k - 1) + Stages + BatchGap
  /\ \A j, k \in Nat : j <= k => Rounds(j) <= Rounds(k)
<1> DEFINE r == Stages + BatchGap
<1>1. r \in Nat
  BY StageFacts
<1>2. \A k : Rounds(k) = k * r
  BY DEF Rounds
<1> HIDE DEF r
<1>3. \A k \in Nat : k * r \in Nat
  BY <1>1
<1>4. \A k \in Nat \ {0} : k * r = (k - 1) * r + r
  BY <1>1
<1>5. \A j, k \in Nat : j <= k => j * r <= k * r
  <2> SUFFICES ASSUME NEW j \in Nat, NEW k \in Nat, j <= k
               PROVE  j * r <= k * r
    OBVIOUS
  <2>1. k - j \in Nat
    OBVIOUS
  <2>2. (k - j) * r \in Nat
    BY <1>3, <2>1
  <2>3. k * r = j * r + (k - j) * r
    BY <1>1
  <2> QED
    BY <1>3, <2>2, <2>3
<1>6. \A k \in Nat \ {0} : Rounds(k) = Rounds(k - 1) + r
  BY <1>2, <1>4
<1>7. \A k \in Nat \ {0} : Rounds(k) = Rounds(k - 1) + Stages + BatchGap
  <2> SUFFICES ASSUME NEW k \in Nat \ {0}
               PROVE  Rounds(k) = Rounds(k - 1) + Stages + BatchGap
    OBVIOUS
  <2>1. k - 1 \in Nat
    OBVIOUS
  <2>2. Rounds(k - 1) \in Nat
    BY <1>2, <1>3, <2>1
  <2> QED
    BY <1>6, <2>2, StageFacts DEF r
<1> QED
  BY <1>2, <1>3, <1>5, <1>7

LEMMA SilenceNat ==
  ASSUME NEW n \in Nat \ {0}
  PROVE  UntilLast(n) \in Nat /\ Silence(n) \in Nat
<1>1. PICK s \in Nat, d \in Nat, q \in Nat, i \in Nat :
        s = Stages /\ d = Dialling /\ q = Rounds(n - 1) /\ i = PingInterval
  <2>1. n - 1 \in Nat
    OBVIOUS
  <2> QED
    BY <2>1, StageFacts, RoundsFacts
<1>2. UntilLast(n) = q + d /\ Silence(n) = s + q + i + (q + d)
  BY <1>1 DEF UntilLast, Silence
<1> QED
  BY <1>2

LEMMA SumShrinks ==
  ASSUME NEW a \in Nat, NEW b \in Nat, NEW c \in Nat, NEW s \in Nat, a + c <= s, b <= c
  PROVE  a + b <= s
OBVIOUS

\* What is left of a sweep fills a batch.
LEMMA BatchesLeft ==
  ASSUME PingTypeOK, NEW k \in Nat, FillAtMost(todo, k)
  PROVE  /\ IsFiniteSet(todo) /\ Cardinality(todo) \in Nat
         /\ todo # {} => k \in Nat \ {0}
<1>1. IsFiniteSet(todo)
  <2>1. todo \subseteq Peer
    BY DEF PingTypeOK
  <2> QED
    BY <2>1, FS_Subset
<1>2. Cardinality(todo) \in Nat
  BY <1>1, FS_CardinalityType
<1>3. CASE k = 0
  <2>1. k * PingBatch = 0
    BY <1>3
  <2>2. Cardinality(todo) = 0
    BY <1>2, <1>3, <2>1 DEF FillAtMost
  <2> QED
    BY <1>1, <1>2, <2>2, FS_EmptySet
<1> QED
  BY <1>1, <1>2, <1>3

HIDE NodeAssumption
HIDE PingAssumption

\* The bound never exceeds the longest silence.
Bounded ==
  \A n \in Nat \ {0} : \A k \in 0..n, t \in 0..Stages, p \in Peer :
    Active /\ Shape(n, k, t) => Until(p, n, k, t) \in Nat /\ Until(p, n, k, t) <= Silence(n)

LEMMA UntilBounded == PingTypeOK => Bounded
<1> SUFFICES ASSUME PingTypeOK, NEW n \in Nat \ {0}, NEW k \in 0..n, NEW t \in 0..Stages,
                    NEW p \in Peer, Active, Shape(n, k, t)
             PROVE  Until(p, n, k, t) \in Nat /\ Until(p, n, k, t) <= Silence(n)
  BY DEF Bounded
<1> DEFINE s == Stages
           d == Dialling
           q == Rounds(n - 1)
           m == Rounds(k - 1)
<1>1. /\ s \in Nat /\ d \in Nat /\ Pinging \in Nat /\ Closing \in Nat
      /\ s = d + Pinging + Closing
  BY StageFacts
<1>2. n - 1 \in Nat /\ q \in Nat
  BY RoundsFacts
<1>3. k # 0 => /\ m \in Nat /\ m <= q
               /\ k <= n - 1 => m + s + BatchGap <= q
  <2> SUFFICES ASSUME k # 0
               PROVE  m \in Nat /\ m <= q /\ (k <= n - 1 => m + s + BatchGap <= q)
    OBVIOUS
  <2>1. k \in Nat \ {0} /\ k - 1 \in Nat /\ k - 1 <= n - 1
    OBVIOUS
  <2>2. m \in Nat /\ m <= q
    BY <1>2, <2>1, RoundsFacts
  <2>3. Rounds(k) = m + s + BatchGap
    BY <2>1, RoundsFacts
  <2>4. k <= n - 1 => Rounds(k) <= q
    BY <1>2, <2>1, RoundsFacts
  <2> QED
    BY <2>2, <2>3, <2>4
<1>4. timer \in Nat /\ left[p] \in Nat
  BY DEF PingTypeOK
<1>5. Silence(n) = s + q + PingInterval + (q + d)
  BY DEF Silence, UntilLast
<1>6. UntilLast(n) = q + d
  BY DEF UntilLast
<1>7. PingInterval \in Nat /\ BatchGap \in Nat /\ t \in Nat /\ t <= s
  BY PingAssumption, StageFacts
<1> HIDE DEF s, d, q, m
<1>8. CASE task[p] = "dial"
  <2>1. TaskLeft(p) <= t
    BY <1>8 DEF Shape, Busy
  <2>2. left[p] <= d
    <3>1. TaskLeft(p) = left[p] + Pinging + Closing
      BY <1>8 DEF TaskLeft
    <3> QED
      BY <1>1, <1>4, <1>7, <2>1, <3>1
  <2>3. Until(p, n, k, t) = left[p]
    BY <1>8 DEF Until
  <2> QED
    BY <1>1, <1>2, <1>4, <1>5, <1>7, <2>2, <2>3
<1>9. CASE task[p] # "dial" /\ loop \in {"stagger", "interval"}
  <2>1. timer <= PingInterval
    BY <1>9 DEF Shape
  <2>2. Until(p, n, k, t) = timer + (q + d)
    BY <1>6, <1>9 DEF Until
  <2> QED
    BY <1>1, <1>2, <1>4, <1>5, <1>7, <2>1, <2>2
<1>10. CASE task[p] # "dial" /\ loop \notin {"stagger", "interval"}
  <2>1. loop = "sweep" \/ loop = "batch"
    BY <1>10 DEF Active
  <2>2. /\ k \in Nat /\ (todo = {} => k = 0) /\ (todo # {} => k # 0)
        /\ loop = "sweep" => timer = 0 \/ (todo # {} /\ k <= n - 1 /\ timer <= BatchGap)
        /\ loop = "batch" => k <= n - 1
    BY <2>1, BatchesLeft DEF Shape
  <2>3. CASE p \in todo
    <3>1. Until(p, n, k, t) = (IF loop = "batch" THEN t + BatchGap ELSE timer) + m + d
      BY <1>10, <2>3 DEF Until, m, d
    <3>2. k # 0 /\ todo # {}
      BY <2>2, <2>3
    <3>3. CASE loop = "batch"
      <4>1. Until(p, n, k, t) = t + BatchGap + m + d /\ m + s + BatchGap <= q /\ m \in Nat
        BY <1>3, <2>2, <3>1, <3>2, <3>3
      <4> QED
        BY <1>1, <1>2, <1>5, <1>7, <4>1
    <3>4. CASE loop = "sweep"
      <4>1. Until(p, n, k, t) = timer + m + d
        BY <3>1, <3>4
      <4>2. m \in Nat /\ m <= q /\ (timer = 0 \/ m + timer <= q)
        BY <1>1, <1>2, <1>3, <1>4, <1>7, <2>2, <3>2, <3>4
      <4> QED
        BY <1>1, <1>2, <1>4, <1>5, <1>7, <4>1, <4>2
    <3> QED
      BY <2>1, <3>3, <3>4
  <2>4. CASE p \notin todo /\ k = 0
    <3>1. Until(p, n, k, t) = (IF loop = "batch" THEN t ELSE timer) + PingInterval + (q + d)
      BY <1>6, <1>10, <2>4 DEF Until
    <3> QED
      BY <1>1, <1>2, <1>4, <1>5, <1>7, <2>1, <2>2, <2>4, <3>1
  <2>5. CASE p \notin todo /\ k # 0
    <3>1. Until(p, n, k, t) = (IF loop = "batch" THEN t + BatchGap ELSE timer) + m + s
                                + PingInterval + (q + d)
      BY <1>6, <1>10, <2>5 DEF Until, m, s
    <3>2. CASE loop = "batch"
      <4>1. /\ Until(p, n, k, t) = t + BatchGap + m + s + PingInterval + (q + d)
            /\ m + s + BatchGap <= q /\ m \in Nat
        BY <1>3, <2>2, <2>5, <3>1, <3>2
      <4> QED
        BY <1>1, <1>2, <1>5, <1>7, <4>1
    <3>3. CASE loop = "sweep"
      <4>1. Until(p, n, k, t) = timer + m + s + PingInterval + (q + d)
        BY <3>1, <3>3
      <4>2. m \in Nat /\ m <= q /\ (timer = 0 \/ m + timer <= q)
        BY <1>1, <1>2, <1>3, <1>4, <1>7, <2>2, <2>5, <3>3
      <4> QED
        BY <1>1, <1>2, <1>4, <1>5, <1>7, <4>1, <4>2
    <3> QED
      BY <2>1, <3>2, <3>3
  <2> QED
    BY <2>3, <2>4, <2>5
<1> QED
  BY <1>8, <1>9, <1>10


LEMMA StillBounded == PingTypeOK' => Bounded'
BY UntilBounded, PTL

\* A step keeps the bound of every peer it leaves connected, or it is heard.
LEMMA StillHeard ==
  ASSUME PingTypeOK', NEW n \in Nat \ {0}, NEW k \in 0..n, NEW t \in 0..Stages,
         Active', Shape(n, k, t)',
         \A p \in conn' \cap Booked \cap Prompt :
           \/ idle'[p] = 0
           \/ Earlier(age', idle'[p]) + Until(p, n, k, t)' <= Silence(n)
  PROVE  HeardInv(n)'
<1>1. ASSUME NEW p \in conn' \cap Booked \cap Prompt
      PROVE  Earlier(age', idle'[p]) + Until(p, n, k, t)' <= Silence(n)
  <2>1. CASE idle'[p] = 0
    <3>1. p \in Peer
      BY DEF PingTypeOK
    <3>2. Until(p, n, k, t)' \in Nat /\ Until(p, n, k, t)' <= Silence(n)
      BY <3>1, StillBounded DEF Bounded
    <3>3. Earlier(age', idle'[p]) = 0
      BY <2>1 DEF Earlier, PingTypeOK
    <3> QED
      BY <3>2, <3>3
  <2> QED
    BY <2>1
<1>2. Heard(n, k, t)'
  BY <1>1 DEF Heard, Silence, UntilLast, Rounds, Stages, Dialling, Pinging, Closing
<1> QED
  BY <1>2 DEF HeardInv

\* A connection that comes or goes, or a message on one, changes no bound.
LEMMA LinksHeard ==
  ASSUME PingTypeOK, PingTypeOK', NEW n \in Nat \ {0}, HeardInv(n), NEW p \in Peer,
         \/ Connect(p) \/ Disconnect(p) \/ IdleClose(p)
         \/ \E warmup \in BOOLEAN : HandleMessage(p, warmup)
  PROVE  HeardInv(n)'
<1>1. /\ conn' = conn \cup {p} \/ conn' = conn \ {p}
      /\ idle' = [idle EXCEPT ![p] = 0]
      /\ UNCHANGED <<loop, timer, todo, age, task, left>>
  BY DEF Connect, Disconnect, IdleClose, HandleMessage, Hear, Drop, loopVars, taskVars
<1>10. messagesStarted => messagesStarted'
  <2>1. \A warmup \in BOOLEAN : Heed(warmup) /\ messagesStarted => messagesStarted'
    BY Zenon DEF Heed
  <2>2. UNCHANGED messagesStarted \/ \E warmup \in BOOLEAN : Heed(warmup)
    BY DEF Connect, Disconnect, IdleClose, HandleMessage
  <2> QED
    BY <2>1, <2>2
<1> SUFFICES ASSUME Active', ~messagesStarted'
             PROVE  HeardInv(n)'
  BY DEF HeardInv
<1>2. Active /\ ~messagesStarted
  BY <1>1, <1>10 DEF Active
<1>3. PICK k \in 0..n, t \in 0..Stages : Shape(n, k, t) /\ Heard(n, k, t)
  BY <1>2 DEF HeardInv
<1>4. Shape(n, k, t)'
  BY <1>1, <1>3 DEF Shape, Busy, TaskLeft, Pinging, Closing
<1>5. ASSUME NEW q \in conn' \cap Booked \cap Prompt, idle'[q] # 0
      PROVE  Earlier(age', idle'[q]) + Until(q, n, k, t)' <= Silence(n)
  <2>1. q \in Peer /\ idle \in [Peer -> 0..IdleTimeout]
    BY DEF PingTypeOK
  <2>2. q # p /\ idle'[q] = idle[q]
    BY <1>1, <1>5, <2>1
  <2>3. q \in conn
    BY <1>1, <2>2
  <2>4. Until(q, n, k, t)' = Until(q, n, k, t)
    BY <1>1 DEF Until
  <2> QED
    BY <1>1, <1>3, <2>2, <2>3, <2>4 DEF Heard
<1> QED
  BY <1>4, <1>5, StillHeard

\* A task that goes on leaves no more time to others, and the peer it pings is
\* heard when it answers.
LEMMA TasksHeard ==
  ASSUME PingTypeOK, PingTypeOK', InFlightBounded, NEW n \in Nat \ {0}, HeardInv(n),
         NEW p \in Peer, PingPeerStep(p)
  PROVE  HeardInv(n)'
<1>1. /\ task[p] # "none"
      /\ UNCHANGED <<messagesStarted, loop, timer, todo, age>>
  BY DEF PingPeerStep, DialStream, Pong, Close, Fail, loopVars
<1> SUFFICES ASSUME Active', ~messagesStarted'
             PROVE  HeardInv(n)'
  BY DEF HeardInv
<1>2. Active /\ ~messagesStarted /\ loop = "batch"
  BY <1>1 DEF Active, InFlightBounded, Busy
<1>3. PICK k \in 0..n, t \in 0..Stages : Shape(n, k, t) /\ Heard(n, k, t)
  BY <1>2 DEF HeardInv
<1>4. /\ task \in [Peer -> {"none", "dial", "ping", "close"}] /\ left \in [Peer -> Nat]
      /\ idle \in [Peer -> 0..IdleTimeout]
  BY DEF PingTypeOK
<1>5. \A q \in Peer \ {p} : task'[q] = task[q] /\ left'[q] = left[q]
  BY <1>4 DEF PingPeerStep, DialStream, Pong, Close, Fail, Begin
<1>6. \/ task[p] = "dial" /\ task'[p] = "ping" /\ left'[p] = Pinging /\ Hear(p)
      \/ task[p] = "ping" /\ task'[p] = "close" /\ left'[p] = Closing /\ Hear(p)
      \/ task[p] = "ping" /\ task'[p] = "close" /\ left'[p] = Closing /\ UNCHANGED <<conn, idle>>
      \/ task[p] # "dial" /\ task'[p] = "none" /\ left'[p] = 0 /\ UNCHANGED <<conn, idle>>
      \/ p \notin Prompt /\ task'[p] = "none" /\ left'[p] = 0 /\ UNCHANGED <<conn, idle>>
  <2>1. CASE DialStream(p)
    BY <1>4, <2>1 DEF DialStream, Begin, Pinging
  <2>2. CASE Pong(p)
    BY <1>4, <2>2 DEF Pong, Begin, Closing
  <2>3. CASE Close(p)
    BY <1>4, <2>3 DEF Close, Begin, linkVars
  <2>4. CASE Fail(p)
    BY <1>4, <2>4 DEF Fail, Begin, linkVars, Closing
  <2> QED
    BY <2>1, <2>2, <2>3, <2>4 DEF PingPeerStep
<1>7. Shape(n, k, t)'
  <2>1. \A q \in Busy' : TaskLeft(q)' <= t
    <3> SUFFICES ASSUME NEW q \in Busy'
                 PROVE  TaskLeft(q)' <= t
      OBVIOUS
    <3>1. q \in Peer
      BY DEF Busy
    <3>2. CASE q # p
      <4>1. q \in Busy /\ TaskLeft(q)' = TaskLeft(q)
        BY <1>5, <3>1, <3>2 DEF Busy, TaskLeft, Pinging, Closing
      <4> QED
        BY <1>3, <4>1 DEF Shape
    <3>3. CASE q = p
      <4>1. p \in Busy /\ TaskLeft(p) <= t
        BY <1>1, <1>3 DEF Shape, Busy
      <4>2. left[p] \in Nat /\ Pinging \in Nat /\ Closing \in Nat /\ t \in Nat
        BY <1>4, StageFacts
      <4>3. Pinging' = Pinging /\ Closing' = Closing
        BY DEF Pinging, Closing
      <4>4. /\ task[p] = "dial" => TaskLeft(p) = left[p] + Pinging + Closing
            /\ task[p] = "ping" => TaskLeft(p) = left[p] + Closing
            /\ task'[p] = "ping" => TaskLeft(p)' = left'[p] + Closing
            /\ task'[p] = "close" => TaskLeft(p)' = left'[p]
        BY <4>3 DEF TaskLeft
      <4>5. task'[p] # "none"
        BY <3>3 DEF Busy
      <4>6. CASE task'[p] = "ping"
        <5>1. task[p] = "dial" /\ left'[p] = Pinging
          BY <1>6, <4>6
        <5> QED
          BY <3>3, <4>1, <4>2, <4>4, <4>6, <5>1
      <4>7. CASE task'[p] = "close"
        <5>1. task[p] = "ping" /\ left'[p] = Closing
          BY <1>6, <4>7
        <5> QED
          BY <3>3, <4>1, <4>2, <4>4, <4>7, <5>1
      <4> QED
        BY <1>6, <4>5, <4>6, <4>7
    <3> QED
      BY <3>2, <3>3
  <2> QED
    BY <1>1, <1>3, <2>1 DEF Shape
<1>8. ASSUME NEW q \in conn' \cap Booked \cap Prompt, idle'[q] # 0
      PROVE  Earlier(age', idle'[q]) + Until(q, n, k, t)' <= Silence(n)
  <2>1. q \in Peer
    BY DEF PingTypeOK
  <2>2. CASE q # p
    <3>1. q \in conn /\ idle'[q] = idle[q]
      BY <1>4, <1>6, <2>1, <2>2 DEF Hear
    <3>2. Until(q, n, k, t)' = Until(q, n, k, t)
      BY <1>1, <1>5, <2>1, <2>2 DEF Until, Rounds, UntilLast, Dialling, Stages, Pinging, Closing
    <3> QED
      BY <1>1, <1>3, <3>1, <3>2 DEF Heard
  <2>3. CASE q = p
    <3>1. ~Hear(p)
      BY <1>4, <1>8, <2>3 DEF Hear
    <3>2. task[p] # "dial" /\ task'[p] # "dial" /\ UNCHANGED <<conn, idle>>
      BY <1>6, <2>3, <3>1
    <3>3. Until(q, n, k, t)' = Until(q, n, k, t)
      BY <1>1, <2>3, <3>2 DEF Until, Rounds, UntilLast, Dialling, Stages, Pinging, Closing
    <3> QED
      BY <1>1, <1>3, <3>2, <3>3 DEF Heard
  <2> QED
    BY <2>2, <2>3
<1>9. Active'
  OBVIOUS
<1> QED
  BY <1>7, <1>8, <1>9, StillHeard

\* The loop never takes longer than the bound allows for what it does next.
LEMMA ShorterHeard ==
  ASSUME PingTypeOK, PingTypeOK', NEW n \in Nat \ {0},
         NEW k \in 0..n, NEW t \in 0..Stages, Active, Shape(n, k, t), Heard(n, k, t),
         NEW j \in 0..n, NEW u \in 0..Stages, Active', Shape(n, j, u)',
         UNCHANGED <<conn, idle, age>>,
         \A p \in conn \cap Booked \cap Prompt : Until(p, n, j, u)' <= Until(p, n, k, t)
  PROVE  HeardInv(n)'
<1>1. ASSUME NEW p \in conn' \cap Booked \cap Prompt
      PROVE  Earlier(age', idle'[p]) + Until(p, n, j, u)' <= Silence(n)
  <2>1. p \in conn \cap Booked \cap Prompt /\ p \in Peer
    BY DEF PingTypeOK
  <2>2. Until(p, n, k, t) \in Nat /\ Until(p, n, j, u)' \in Nat /\ Silence(n) \in Nat
    <3>1. Until(p, n, k, t) \in Nat
      BY <2>1, UntilBounded DEF Bounded
    <3>2. Until(p, n, j, u)' \in Nat
      BY <2>1, StillBounded DEF Bounded
    <3>3. Silence(n) \in Nat
      BY SilenceNat
    <3> QED
      BY <3>1, <3>2, <3>3
  <2>3. Earlier(age, idle[p]) \in Nat
    <3>1. age \in Nat /\ idle[p] \in Nat
      BY <2>1 DEF PingTypeOK
    <3> QED
      BY <3>1, EarlierFacts
  <2>4. Earlier(age, idle[p]) + Until(p, n, k, t) <= Silence(n)
    BY <2>1 DEF Heard
  <2>5. Earlier(age', idle'[p]) = Earlier(age, idle[p])
    OBVIOUS
  <2>6. Until(p, n, j, u)' <= Until(p, n, k, t)
    BY <2>1
  <2>7. Earlier(age, idle[p]) + Until(p, n, j, u)' <= Silence(n)
    BY <2>2, <2>3, <2>4, <2>6, SumShrinks
  <2> QED
    BY <2>5, <2>7
<1> QED
  BY <1>1, StillHeard

LEMMA LoopHeard ==
  ASSUME PingTypeOK, PingTypeOK', InFlightBounded, NEW n \in Nat \ {0},
         FillAtMost(Peer, n), HeardInv(n), PingLoopStep
  PROVE  HeardInv(n)'
<1>1. UNCHANGED <<messagesStarted, conn, idle, age>>
  BY DEF PingLoopStep, Wake, StartBatch, EndBatch, EndSweep, linkVars
<1> SUFFICES ASSUME Active', ~messagesStarted'
             PROVE  HeardInv(n)'
  BY DEF HeardInv
<1>2. Active /\ ~messagesStarted
  BY <1>1 DEF Active, PingLoopStep, Wake, StartBatch, EndBatch, EndSweep
<1>3. PICK k \in 0..n, t \in 0..Stages : Shape(n, k, t) /\ Heard(n, k, t)
  BY <1>2 DEF HeardInv
<1>4. PICK s \in Nat, d \in Nat, q \in Nat, ul \in Nat :
        s = Stages /\ d = Dialling /\ q = Rounds(n - 1) /\ ul = UntilLast(n)
  <2>1. n - 1 \in Nat
    OBVIOUS
  <2>2. Rounds(n - 1) \in Nat /\ Stages \in Nat /\ Dialling \in Nat
    BY <2>1, RoundsFacts, StageFacts
  <2>3. UntilLast(n) \in Nat
    BY <2>2 DEF UntilLast
  <2> QED
    BY <2>2, <2>3
<1>5. PICK m \in Nat, i \in Nat, g \in Nat :
        (k # 0 => m = Rounds(k - 1)) /\ i = PingInterval /\ g = BatchGap
  <2>1. k # 0 => k - 1 \in Nat
    OBVIOUS
  <2>2. k # 0 => Rounds(k - 1) \in Nat
    BY <2>1, RoundsFacts
  <2> QED
    BY <2>2, PingAssumption
<1>6. /\ t \in Nat /\ k \in Nat
      /\ s = d + Pinging + Closing /\ Pinging \in Nat /\ Closing \in Nat
      /\ ul = q + d
  BY <1>4, StageFacts DEF UntilLast
<1>7. CASE Wake
  <2>1. /\ loop \in {"stagger", "interval"} /\ timer = 0 /\ timer' = 0
        /\ loop' = "sweep" /\ todo' = conn
        /\ UNCHANGED <<task, left>>
    BY <1>2, <1>7 DEF Wake, Stop, taskVars
  <2>2. Busy = {} /\ Busy' = {}
    BY <2>1 DEF InFlightBounded, Busy
  <2>6. PICK j \in 0..n : j = IF conn = {} THEN 0 ELSE n
    <3>1. 0 \in 0..n /\ n \in 0..n
      OBVIOUS
    <3> QED
      BY <3>1
  <2>3. FillAtMost(conn, j)
    <3>1. conn \subseteq Peer
      BY DEF PingTypeOK
    <3>2. /\ IsFiniteSet(conn) /\ Cardinality(conn) <= Cardinality(Peer)
          /\ Cardinality(conn) \in Nat /\ Cardinality(Peer) \in Nat
      BY <3>1, PingAssumption, FS_Subset, FS_CardinalityType
    <3>3. n * PingBatch \in Nat /\ 0 * PingBatch = 0
      BY PingAssumption
    <3>4. CASE conn = {}
      BY <2>6, <3>3, <3>4, FS_EmptySet DEF FillAtMost
    <3>5. CASE conn # {}
      BY <2>6, <3>2, <3>3, <3>5 DEF FillAtMost
    <3> QED
      BY <3>4, <3>5
  <2>4. Shape(n, j, t)'
    <3>1. FillAtMost(todo', j) /\ (todo' = {} => j = 0)
      BY <2>1, <2>3, <2>6
    <3>2. loop' \notin {"stagger", "interval", "batch"} /\ timer' = 0
      BY <2>1
    <3>3. \A p \in Busy' : TaskLeft(p)' <= t
      BY <2>2
    <3>4. FillAtMost(todo, j)'
      BY <3>1 DEF FillAtMost
    <3> QED
      BY <3>1, <3>2, <3>3, <3>4 DEF Shape
  <2>5. ASSUME NEW p \in conn \cap Booked \cap Prompt
        PROVE  Until(p, n, j, t)' <= Until(p, n, k, t)
    <3>1. p \in Peer /\ task[p] # "dial" /\ task'[p] # "dial"
      BY <2>1, <2>2 DEF PingTypeOK, Busy
    <3>2. Until(p, n, k, t) = 0 + ul
      BY <1>4, <2>1, <3>1 DEF Until
    <3>3. j = n /\ p \in todo'
      BY <2>1, <2>6
    <3>4. Until(p, n, n, t)' = 0 + q + d
      BY <1>4, <2>1, <3>1, <3>3 DEF Until
    <3> QED
      BY <1>6, <3>2, <3>3, <3>4
  <2> QED
    BY <1>1, <1>2, <1>3, <2>4, <2>5, <2>6, ShorterHeard
<1>8. CASE StartBatch
  <2>1. PICK B \in SUBSET todo :
          /\ Cardinality(B) = BatchSize
          /\ todo' = todo \ B
          /\ task' = [p \in Peer |-> IF p \in B \cap Booked THEN "dial" ELSE task[p]]
          /\ left' = [p \in Peer |-> IF p \in B \cap Booked
                                     THEN Earlier(Slowest, DialTimeout) ELSE left[p]]
    BY <1>8 DEF StartBatch, Rest
  <2>2. loop = "sweep" /\ loop' = "batch" /\ timer = 0 /\ timer' = 0 /\ todo # {}
    BY <1>8 DEF StartBatch, More
  <2>3. \A p \in Peer : task[p] = "none"
    BY <2>2 DEF InFlightBounded, Busy
  <2>4. FillAtMost(todo, k)
    BY <1>3, <2>2 DEF Shape
  <2>5. k \in Nat \ {0} /\ IsFiniteSet(todo) /\ Cardinality(todo) \in Nat
    BY <1>6, <2>2, <2>4, BatchesLeft
  <2>10. PICK j \in 0..n : j = IF todo' = {} THEN 0 ELSE k - 1
    BY <2>5
  <2>6. FillAtMost(todo', j)
    <3>1. CASE todo' = {}
      <4>1. 0 * PingBatch = 0
        BY PingAssumption
      <4> QED
        BY <2>10, <3>1, <4>1, FS_EmptySet DEF FillAtMost
    <3>2. CASE todo' # {}
      <4>1. IsFiniteSet(todo') /\ Cardinality(todo') = Cardinality(todo) - Cardinality(B)
        <5>1. todo \cap B = B
          OBVIOUS
        <5> QED
          BY <2>1, <2>5, <5>1, FS_Difference
      <4>2. Cardinality(todo') \in Nat /\ Cardinality(todo') # 0
        BY <3>2, <4>1, FS_CardinalityType, FS_EmptySet
      <4>3. Cardinality(B) = PingBatch
        BY <2>1, <2>5, <4>1, <4>2 DEF BatchSize, Earlier
      <4>4. k * PingBatch = (k - 1) * PingBatch + PingBatch /\ (k - 1) * PingBatch \in Int
        BY <1>6, PingAssumption
      <4> QED
        BY PingAssumption, <2>4, <2>5, <2>10, <3>2, <4>1, <4>3, <4>4 DEF FillAtMost
    <3> QED
      BY <3>1, <3>2
  <2>7. j <= n - 1 /\ s \in 0..Stages
    <3>1. 0 <= n - 1 /\ k - 1 <= n - 1
      BY <1>6
    <3> QED
      BY <1>4, <2>10, <3>1
  <2>8. Shape(n, j, s)'
    <3>1. ASSUME NEW p \in Busy'
          PROVE  TaskLeft(p)' <= s
      <4>1. task'[p] = "dial" /\ left'[p] = d
        BY <1>4, <2>1, <2>3 DEF Busy, Dialling
      <4>2. TaskLeft(p)' = d + Pinging + Closing
        BY <4>1 DEF TaskLeft
      <4> QED
        BY <1>6, <4>2
    <3> QED
      BY <2>2, <2>6, <2>7, <2>10, <3>1 DEF Shape
  <2>9. ASSUME NEW p \in conn \cap Booked \cap Prompt
        PROVE  Until(p, n, j, s)' <= Until(p, n, k, t)
    <3>1. p \in Peer /\ task[p] # "dial" /\ m = Rounds(k - 1)
      BY <1>5, <2>3, <2>5 DEF PingTypeOK
    <3>2. PICK r \in Nat : k - 1 # 0 => r = Rounds(k - 1 - 1) /\ m = r + s + g
      <4>1. k - 1 # 0 => k - 1 \in Nat \ {0} /\ k - 1 - 1 \in Nat
        BY <2>5
      <4>2. k - 1 # 0 => Rounds(k - 1 - 1) \in Nat /\ m = Rounds(k - 1 - 1) + s + g
        BY <1>4, <1>5, <3>1, <4>1, RoundsFacts
      <4> QED
        BY <4>2
    <3>3. CASE p \in B
      <4>1. Until(p, n, j, s)' = d
        BY <1>4, <1>5, <2>1, <3>1, <3>3 DEF Until, Dialling
      <4>2. Until(p, n, k, t) = m + d
        BY <1>4, <1>5, <2>2, <3>1, <3>3 DEF Until
      <4> QED
        BY <4>1, <4>2
    <3>4. CASE p \in todo \ B
      <4>1. task'[p] # "dial" /\ p \in todo' /\ j = k - 1
        BY <2>1, <2>3, <2>10, <3>1, <3>4
      <4>2. Until(p, n, k, t) = m + d
        BY <1>4, <1>5, <2>2, <3>1, <3>4 DEF Until
      <4>3. Until(p, n, k - 1, s)' = s + g + Rounds(k - 1 - 1) + d
        BY <1>4, <1>5, <2>2, <4>1 DEF Until
      <4>4. k - 1 # 0
        <5>1. FillAtMost(todo', k - 1)
          BY <2>6, <4>1
        <5>2. CASE k - 1 = 0
          <6>1. Cardinality(todo') <= 0
            BY <5>1, <5>2, PingAssumption DEF FillAtMost
          <6>2. IsFiniteSet(todo')
            BY <2>1, <2>5, FS_Subset
          <6> QED
            BY <4>1, <6>1, <6>2, FS_EmptySet, FS_CardinalityType
        <5> QED
          BY <5>2
      <4>5. s + g + r + d <= (r + s + g) + d
        OBVIOUS
      <4>6. Until(p, n, j, s)' = s + g + r + d /\ Until(p, n, k, t) = (r + s + g) + d
        BY <3>2, <4>1, <4>2, <4>3, <4>4
      <4> QED
        BY <4>5, <4>6
    <3>5. CASE p \notin todo
      <4>1. task'[p] # "dial" /\ p \notin todo'
        BY <2>1, <2>3, <3>1, <3>5
      <4>2. Until(p, n, k, t) = m + s + i + ul
        BY <1>4, <1>5, <2>2, <2>5, <3>1, <3>5 DEF Until
      <4>3. CASE j = 0
        <5>1. Until(p, n, j, s)' = s + i + ul
          BY <1>4, <1>5, <2>2, <4>1, <4>3 DEF Until
        <5>2. s + i + ul <= m + s + i + ul
          OBVIOUS
        <5> QED
          BY <4>2, <5>1, <5>2
      <4>4. CASE j # 0
        <5>1. j = k - 1 /\ k - 1 # 0
          BY <2>10, <4>4
        <5>2. Until(p, n, k - 1, s)' = s + g + r + s + i + ul
          BY <1>4, <1>5, <2>2, <3>2, <4>1, <5>1 DEF Until
        <5>3. Until(p, n, k, t) = (r + s + g) + s + i + ul
          BY <3>2, <4>2, <5>1
        <5>4. s + g + r + s + i + ul <= (r + s + g) + s + i + ul
          OBVIOUS
        <5> QED
          BY <5>1, <5>2, <5>3, <5>4
      <4> QED
        BY <4>3, <4>4
    <3> QED
      BY <3>3, <3>4, <3>5
  <2> QED
    BY <1>1, <1>2, <1>3, <2>7, <2>8, <2>9, ShorterHeard
<1>9. CASE EndBatch
  <2>1. /\ loop = "batch" /\ loop' = "sweep" /\ Busy = {}
        /\ timer' = IF todo = {} THEN 0 ELSE BatchGap
        /\ UNCHANGED <<todo, task, left>>
    BY <1>9 DEF EndBatch, taskVars
  <2>2. Busy' = {}
    BY <2>1 DEF Busy
  <2>3. /\ FillAtMost(todo, k) /\ (todo = {} => k = 0) /\ k <= n - 1
        /\ todo # {} => k # 0
    BY <1>3, <1>6, <2>1, BatchesLeft DEF Shape
  <2>4. Shape(n, k, t)'
    BY PingAssumption, <1>6, <2>1, <2>2, <2>3 DEF Shape
  <2>5. ASSUME NEW p \in conn \cap Booked \cap Prompt
        PROVE  Until(p, n, k, t)' <= Until(p, n, k, t)
    <3>1. p \in Peer /\ task[p] # "dial" /\ task'[p] # "dial"
      BY <2>1 DEF PingTypeOK, Busy
    <3>2. CASE p \in todo
      <4>1. /\ Until(p, n, k, t) = t + g + m + d
            /\ Until(p, n, k, t)' = g + m + d
        BY <1>4, <1>5, <2>1, <2>3, <3>1, <3>2 DEF Until
      <4>2. g + m + d <= t + g + m + d
        BY <1>6
      <4> QED
        BY <4>1, <4>2
    <3>3. CASE p \notin todo /\ k = 0
      <4>1. /\ Until(p, n, k, t) = t + i + ul
            /\ Until(p, n, k, t)' = 0 + i + ul
        BY <1>4, <1>5, <2>1, <2>3, <3>1, <3>3 DEF Until
      <4>2. 0 + i + ul <= t + i + ul
        BY <1>6
      <4> QED
        BY <4>1, <4>2
    <3>4. CASE p \notin todo /\ k # 0
      <4>1. /\ Until(p, n, k, t) = t + g + m + s + i + ul
            /\ Until(p, n, k, t)' = g + m + s + i + ul
        BY <1>4, <1>5, <2>1, <2>3, <3>1, <3>4 DEF Until
      <4>2. g + m + s + i + ul <= t + g + m + s + i + ul
        BY <1>6
      <4> QED
        BY <4>1, <4>2
    <3> QED
      BY <3>2, <3>3, <3>4
  <2> QED
    BY <1>1, <1>2, <1>3, <2>4, <2>5, ShorterHeard
<1>10. CASE EndSweep
  <2>1. /\ loop = "sweep" /\ loop' = "interval" /\ todo = {} /\ timer = 0 /\ timer' = PingInterval
        /\ UNCHANGED <<task, left>>
    BY <1>2, <1>10 DEF EndSweep, More, taskVars
  <2>2. k = 0 /\ Busy = {} /\ Busy' = {}
    BY <1>3, <2>1 DEF Shape, InFlightBounded, Busy
  <2>3. Shape(n, k, t)'
    BY PingAssumption, <1>6, <2>1, <2>2 DEF Shape
  <2>4. ASSUME NEW p \in conn \cap Booked \cap Prompt
        PROVE  Until(p, n, k, t)' <= Until(p, n, k, t)
    <3>1. p \in Peer /\ task[p] # "dial" /\ task'[p] # "dial"
      BY <2>1, <2>2 DEF PingTypeOK, Busy
    <3>2. /\ Until(p, n, k, t) = 0 + i + ul
          /\ Until(p, n, k, t)' = i + ul
      BY <1>4, <1>5, <2>1, <2>2, <3>1 DEF Until
    <3> QED
      BY <3>2
  <2> QED
    BY <1>1, <1>2, <1>3, <2>3, <2>4, ShorterHeard
<1> QED
  BY <1>7, <1>8, <1>9, <1>10 DEF PingLoopStep

\* Time passes: whoever is not heard has as much less to wait as it was silent.
LEMMA TimeHeard ==
  ASSUME PingTypeOK, PingTypeOK', InFlightBounded, NEW n \in Nat \ {0}, HeardInv(n), Tick
  PROVE  HeardInv(n)'
<1>1. /\ ~Due
      /\ idle' = [p \in Peer |-> IF p \in conn THEN idle[p] + 1 ELSE idle[p]]
      /\ timer' = IF timer > 0 THEN timer - 1 ELSE 0
      /\ left' = [p \in Peer |-> IF p \in Busy THEN left[p] - 1 ELSE left[p]]
      /\ age' = IF Active THEN Earlier(age + 1, IdleTimeout) ELSE age
      /\ UNCHANGED <<messagesStarted, conn, loop, todo, task>>
  BY DEF Tick
<1> SUFFICES ASSUME Active', ~messagesStarted'
             PROVE  HeardInv(n)'
  BY DEF HeardInv
<1>2. Active /\ ~messagesStarted
  BY <1>1 DEF Active
<1>3. PICK k \in 0..n, t \in 0..Stages : Shape(n, k, t) /\ Heard(n, k, t)
  BY <1>2 DEF HeardInv
<1>4. /\ timer \in Nat /\ conn \subseteq Peer /\ age \in Nat
      /\ \A p \in Peer : left[p] \in Nat /\ idle[p] \in Nat
  BY DEF PingTypeOK
<1>5. \A q \in Busy : left[q] # 0
  BY <1>1 DEF Due
<1>6. loop # "batch" => Busy = {} /\ timer # 0
  BY <1>1, <1>2 DEF Due, InFlightBounded
<1>7. Busy' = Busy
  BY <1>1 DEF Busy
<1>8. \A q \in Busy : TaskLeft(q) \in Nat \ {0} /\ TaskLeft(q)' = TaskLeft(q) - 1
  <2> SUFFICES ASSUME NEW q \in Busy
               PROVE  TaskLeft(q) \in Nat \ {0} /\ TaskLeft(q)' = TaskLeft(q) - 1
    OBVIOUS
  <2>1. PICK l \in Nat \ {0}, c \in Nat, g \in Nat :
          l = left[q] /\ c = Closing /\ g = Pinging
    <3>1. q \in Peer
      BY DEF Busy
    <3> QED
      BY <1>4, <1>5, <3>1, StageFacts
  <2>2. left'[q] = l - 1 /\ task'[q] = task[q] /\ task[q] \in {"dial", "ping", "close"}
    BY <1>1, <2>1 DEF Busy, PingTypeOK
  <2>3. Pinging' = g /\ Closing' = c
    BY <2>1 DEF Pinging, Closing
  <2>4. CASE task[q] = "dial"
    <3>1. TaskLeft(q) = l + g + c /\ TaskLeft(q)' = (l - 1) + g + c
      BY <2>1, <2>2, <2>3, <2>4 DEF TaskLeft
    <3> QED
      BY <3>1
  <2>5. CASE task[q] = "ping"
    <3>1. TaskLeft(q) = l + c /\ TaskLeft(q)' = (l - 1) + c
      BY <2>1, <2>2, <2>3, <2>5 DEF TaskLeft
    <3> QED
      BY <3>1
  <2>6. CASE task[q] = "close"
    <3>1. TaskLeft(q) = l /\ TaskLeft(q)' = l - 1
      BY <2>1, <2>2, <2>3, <2>6 DEF TaskLeft
    <3> QED
      BY <3>1
  <2> QED
    BY <2>2, <2>4, <2>5, <2>6
<1>9. t \in Nat /\ Stages \in Nat /\ \A q \in Busy : TaskLeft(q) <= t
  BY <1>3, StageFacts DEF Shape
<1>10. loop = "batch" => t \in Nat \ {0}
  <2>1. loop = "batch" => Busy # {}
    BY <1>1 DEF Due
  <2> QED
    BY <1>8, <1>9, <2>1
<1>11. PICK u \in 0..Stages : u = IF loop = "batch" THEN t - 1 ELSE t
  <2>1. loop = "batch" => t - 1 \in 0..Stages
    BY <1>9, <1>10
  <2> QED
    BY <2>1
<1>12. Shape(n, k, u)'
  <2>1. \A q \in Busy' : TaskLeft(q)' <= u
    BY <1>6, <1>7, <1>8, <1>9, <1>10, <1>11
  <2>2. timer' \in Nat /\ timer' <= timer
    BY <1>1, <1>4
  <2>3. loop' \in {"stagger", "interval"} => timer' <= PingInterval
    BY PingAssumption, <1>1, <1>3, <1>4, <2>2 DEF Shape
  <2>4. loop' = "sweep" => todo' # {} /\ k <= n - 1 /\ timer' <= BatchGap
    <3>1. loop = "sweep" => todo # {} /\ k <= n - 1 /\ timer <= BatchGap
      BY <1>3, <1>6 DEF Shape
    <3> QED
      BY PingAssumption, <1>1, <1>4, <2>2, <3>1
  <2>5. /\ loop' \in {"sweep", "batch"} => FillAtMost(todo, k)' /\ (todo' = {} => k = 0)
        /\ loop' = "batch" => k <= n - 1
    BY <1>1, <1>3 DEF Shape, FillAtMost
  <2> QED
    BY <2>1, <2>3, <2>4, <2>5 DEF Shape
<1>13. ASSUME NEW p \in conn' \cap Booked \cap Prompt
       PROVE  Earlier(age', idle'[p]) + Until(p, n, k, u)' <= Silence(n)
  <2>1. p \in conn \cap Booked \cap Prompt /\ p \in Peer
    BY <1>1, <1>4
  <2>2. PICK v \in Nat, w \in Nat, z \in Nat :
          /\ v = Until(p, n, k, t) /\ w = Until(p, n, k, u)' /\ z = Silence(n)
    <3>1. Until(p, n, k, t) \in Nat
      BY <1>2, <1>3, <2>1, UntilBounded DEF Bounded
    <3>2. Until(p, n, k, u)' \in Nat
      BY <1>12, <2>1, StillBounded DEF Bounded
    <3>3. Silence(n) \in Nat
      BY SilenceNat
    <3> QED
      BY <3>1, <3>2, <3>3
  <2>3. w + 1 = v
    <3>1. PICK r \in Nat, s \in Nat, d \in Nat, i \in Nat, g \in Nat, ul \in Nat :
            /\ k # 0 => r = Rounds(k - 1)
            /\ s = Stages /\ d = Dialling /\ i = PingInterval /\ g = BatchGap
            /\ ul = UntilLast(n)
      <4>1. k # 0 => k - 1 \in Nat
        OBVIOUS
      <4>2. k # 0 => Rounds(k - 1) \in Nat
        BY <4>1, RoundsFacts
      <4>3. UntilLast(n) \in Nat
        BY SilenceNat
      <4> QED
        BY <4>2, <4>3, StageFacts, PingAssumption
    <3>2. task'[p] = task[p] /\ todo' = todo /\ loop' = loop
      BY <1>1
    <3>3. CASE task[p] = "dial"
      <4>1. p \in Busy
        BY <2>1, <3>3 DEF Busy
      <4>2. left'[p] = left[p] - 1 /\ left[p] \in Nat
        BY <1>1, <1>4, <2>1, <4>1
      <4>3. v = left[p] /\ w = left'[p]
        BY <2>2, <3>2, <3>3 DEF Until
      <4> QED
        BY <4>2, <4>3
    <3>4. CASE task[p] # "dial" /\ loop \in {"stagger", "interval"}
      <4>1. timer' + 1 = timer
        BY <1>1, <1>4, <1>6, <3>4
      <4>2. v = timer + ul /\ w = timer' + ul
        BY <2>2, <3>1, <3>2, <3>4 DEF Until
      <4>3. timer' \in Nat
        BY DEF PingTypeOK
      <4> QED
        BY <1>4, <4>1, <4>2, <4>3
    <3>5. CASE task[p] # "dial" /\ loop \notin {"stagger", "interval"} /\ loop # "batch"
      <4>1. timer' + 1 = timer /\ timer' \in Nat
        BY <1>1, <1>4, <1>6, <3>5
      <4>2. CASE p \in todo
        <5>1. k # 0
          <6>1. loop \in {"sweep", "batch"}
            BY <1>2, <3>5 DEF Active
          <6> QED
            BY <1>3, <4>2, <6>1, BatchesLeft DEF Shape
        <5>2. v = timer + r + d /\ w = timer' + r + d
          BY <2>2, <3>1, <3>2, <3>5, <4>2, <5>1 DEF Until
        <5> QED
          BY <4>1, <5>2
      <4>3. CASE p \notin todo /\ k = 0
        <5>1. v = timer + i + ul /\ w = timer' + i + ul
          BY <2>2, <3>1, <3>2, <3>5, <4>3 DEF Until
        <5> QED
          BY <4>1, <5>1
      <4>4. CASE p \notin todo /\ k # 0
        <5>1. v = timer + r + s + i + ul /\ w = timer' + r + s + i + ul
          BY <2>2, <3>1, <3>2, <3>5, <4>4 DEF Until
        <5> QED
          BY <4>1, <5>1
      <4> QED
        BY <4>2, <4>3, <4>4
    <3>6. CASE task[p] # "dial" /\ loop = "batch"
      <4>1. u + 1 = t /\ u \in Nat
        BY <1>9, <1>10, <1>11, <3>6
      <4>2. CASE p \in todo
        <5>1. k # 0
          BY <1>3, <3>6, <4>2, BatchesLeft DEF Shape
        <5>2. v = t + g + r + d /\ w = u + g + r + d
          BY <2>2, <3>1, <3>2, <3>6, <4>2, <5>1 DEF Until
        <5> QED
          BY <4>1, <5>2
      <4>3. CASE p \notin todo /\ k = 0
        <5>1. v = t + i + ul /\ w = u + i + ul
          BY <2>2, <3>1, <3>2, <3>6, <4>3 DEF Until
        <5> QED
          BY <4>1, <5>1
      <4>4. CASE p \notin todo /\ k # 0
        <5>1. v = t + g + r + s + i + ul /\ w = u + g + r + s + i + ul
          BY <2>2, <3>1, <3>2, <3>6, <4>4 DEF Until
        <5> QED
          BY <4>1, <5>1
      <4> QED
        BY <4>2, <4>3, <4>4
    <3> QED
      BY <3>3, <3>4, <3>5, <3>6
  <2>4. PICK a \in Nat, b \in Nat : a = Earlier(age, idle[p]) /\ b = Earlier(age', idle'[p])
    <3>1. age \in Nat /\ idle[p] \in Nat /\ age' \in Nat /\ idle'[p] \in Nat
      BY <2>1 DEF PingTypeOK
    <3> QED
      BY <3>1, EarlierFacts
  <2>5. b <= a + 1
    <3>1. idle'[p] = idle[p] + 1 /\ idle[p] \in Nat
      BY <1>1, <1>4, <2>1
    <3>2. age' <= age + 1 /\ age' \in Nat
      BY <1>1, <1>2, <1>4, PingAssumption DEF Earlier
    <3> QED
      BY <1>4, <2>4, <3>1, <3>2 DEF Earlier
  <2>6. a + v <= z
    BY <1>3, <2>1, <2>2, <2>4 DEF Heard
  <2>7. b + w <= z
    BY <2>2, <2>3, <2>4, <2>5, <2>6
  <2> QED
    BY <2>2, <2>4, <2>7
<1> QED
  BY <1>12, <1>13, StillHeard

\* When the loop starts, silence counts from then.
LEMMA SettleHeard ==
  ASSUME IInv, IInv', NEW n \in Nat \ {0}, Settle
  PROVE  HeardInv(n)'
<1>1. /\ PingTypeOK /\ PingTypeOK' /\ loop' = "stagger" /\ timer' \in 0..PingInterval /\ age' = 0
      /\ UNCHANGED <<task, left>>
  BY DEF Settle, BeginLoop, taskVars, IInv, TypeOK
<1>2. Busy = {} /\ Busy' = {}
  BY <1>1 DEF IInv, JoinInv, Settle, InFlightBounded, Busy
<1>3. PICK k \in 0..n, t \in 0..Stages : k = 0 /\ t = 0
  <2>1. 0 \in 0..n /\ 0 \in 0..Stages
    BY StageFacts
  <2> QED
    BY <2>1
<1>4. Shape(n, k, t)' /\ Active'
  BY <1>1, <1>2, PingAssumption DEF Shape, Active
<1>5. ASSUME NEW p \in conn' \cap Booked \cap Prompt
      PROVE  Earlier(age', idle'[p]) + Until(p, n, k, t)' <= Silence(n)
  <2>1. p \in Peer /\ idle'[p] \in Nat
    BY <1>1 DEF PingTypeOK
  <2>2. Until(p, n, k, t)' \in Nat /\ Until(p, n, k, t)' <= Silence(n)
    BY <1>1, <1>4, <2>1, StillBounded DEF Bounded
  <2>3. Earlier(age', idle'[p]) = 0
    BY <1>1, <2>1 DEF Earlier
  <2> QED
    BY <2>2, <2>3
<1> QED
  BY <1>1, <1>4, <1>5, StillHeard

\* Whatever a step does, the bound survives it.
LEMMA StepHeard ==
  ASSUME IInv, IInv', NEW n \in Nat \ {0}, FillAtMost(Peer, n), HeardInv(n), [Next]_vars
  PROVE  HeardInv(n)'
<1>1. PingTypeOK /\ PingTypeOK' /\ InFlightBounded
  BY DEF IInv, TypeOK
<1>2. ASSUME main' # "run"
      PROVE  HeardInv(n)'
  BY <1>2 DEF IInv, JoinInv, HeardInv, Active
<1>3. CASE Settle
  BY <1>3, SettleHeard
<1>4. CASE MainStep /\ ~Settle
  <2>1. main \notin {"run", "exited"}
    BY <1>4 DEF MainStep, Start, EndJitter, Resolve, DialAnswered, DialFailed, DialsEnd, Seed
  <2>2. main' # "run"
    BY <1>4, <2>1 DEF MainStep, Start, EndJitter, Resolve, DialAnswered, DialFailed, DialsEnd, Seed,
                      Exit
  <2> QED
    BY <1>2, <2>2
<1>5. CASE Signal \/ \E short \in BOOLEAN : Publish(short)
  <2>1. main' = "exited" \/ (UNCHANGED <<linkVars, loopVars, taskVars>> /\ Heed(~SelfTrigger))
    BY <1>5 DEF Signal, Publish, Exit
  <2>2. CASE UNCHANGED <<linkVars, loopVars, taskVars>> /\ Heed(~SelfTrigger)
    <3>1. messagesStarted => messagesStarted'
      BY <2>2, Zenon DEF Heed
    <3>2. UNCHANGED <<conn, idle, loop, timer, todo, age, task, left>>
      BY <2>2 DEF linkVars, loopVars, taskVars
    <3> QED
      BY <3>1, <3>2 DEF HeardInv, Active, Shape, Heard, Until, TaskLeft, Busy, Stages, Rounds,
                        Silence, UntilLast, Dialling, Pinging, Closing
  <2> QED
    BY <1>2, <2>1, <2>2
<1>6. CASE Beside(PingLoopStep)
  BY <1>1, <1>6, LoopHeard DEF Beside
<1>7. CASE Beside(Tick)
  BY <1>1, <1>7, TimeHeard DEF Beside
<1>8. ASSUME NEW p \in Peer,
             \/ Beside(Connect(p)) \/ Beside(Disconnect(p)) \/ Beside(IdleClose(p))
             \/ \E warmup \in BOOLEAN : Beside(HandleMessage(p, warmup))
      PROVE  HeardInv(n)'
  <2>1. \/ Connect(p) \/ Disconnect(p) \/ IdleClose(p)
        \/ \E warmup \in BOOLEAN : HandleMessage(p, warmup)
    BY <1>8 DEF Beside
  <2> QED
    BY <1>1, <2>1, LinksHeard
<1>9. ASSUME NEW p \in Peer, Beside(PingPeerStep(p))
      PROVE  HeardInv(n)'
  BY <1>1, <1>9, TasksHeard DEF Beside
<1>10. CASE UNCHANGED vars
  <2>1. UNCHANGED <<messagesStarted, conn, idle, loop, timer, todo, age, task, left>>
    BY <1>10 DEF vars, pingVars
  <2> QED
    BY <2>1 DEF HeardInv, Active, Shape, Heard, Until, TaskLeft, Busy, Stages, Rounds, Silence,
                UntilLast, Dialling, Pinging, Closing
<1> QED
  BY <1>3, <1>4, <1>5, <1>6, <1>7, <1>8, <1>9, <1>10 DEF Next

\* KeepsAlive, for every number of peers, of batches and of units: if n batches
\* cover the peers, and the longest silence that n batches, their gaps, their
\* slowest stages and the interval leave is shorter than the idle timeout, then
\* no connection to a peer that answers is closed for silence while the ping
\* loop runs (ping_utils.nim:13-21, 88-122).
THEOREM PingsKeepAlive ==
  ASSUME NEW n \in Nat \ {0},
         Cardinality(Peer) <= n * PingBatch,
         Silence(n) < IdleTimeout
  PROVE  Spec => []KeepsAlive
<1>1. FillAtMost(Peer, n)
  BY DEF FillAtMost
<1>2. Init => HeardInv(n)
  BY DEF Init, PingInit, HeardInv, Active
<1>3. IInv /\ IInv' /\ HeardInv(n) /\ [Next]_vars => HeardInv(n)'
  BY <1>1, StepHeard
<1>4. IInv /\ HeardInv(n) => KeepsAlive
  <2> SUFFICES ASSUME IInv, HeardInv(n), Active, ~messagesStarted, age = IdleTimeout,
                      NEW p \in conn \cap Booked \cap Prompt
               PROVE  idle[p] < IdleTimeout
    BY DEF KeepsAlive
  <2>1. PingTypeOK
    BY DEF IInv, TypeOK
  <2>2. PICK k \in 0..n, t \in 0..Stages : Shape(n, k, t) /\ Heard(n, k, t)
    BY DEF HeardInv
  <2>3. p \in Peer /\ idle[p] \in 0..IdleTimeout
    BY <2>1 DEF PingTypeOK
  <2>4. IdleTimeout \in Nat
    BY PingAssumption
  <2>5. Earlier(age, idle[p]) = idle[p]
    BY <2>3, <2>4 DEF Earlier
  <2>6. PICK v \in Nat, z \in Nat : v = Until(p, n, k, t) /\ z = Silence(n)
    <3>1. Until(p, n, k, t) \in Nat
      BY <2>1, <2>2, <2>3, UntilBounded DEF Bounded
    <3> QED
      BY <3>1, SilenceNat
  <2>7. idle[p] + v <= z
    BY <2>2, <2>5, <2>6 DEF Heard
  <2> QED
    BY <2>3, <2>4, <2>6, <2>7
<1> QED
  BY <1>2, <1>3, <1>4, Invariance, PTL DEF Spec
=============================================================================
