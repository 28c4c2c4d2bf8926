--------------------------- MODULE PublishBridge ---------------------------
(***************************************************************************)
(* The publish path of one Rust node (rust-test-node/src/main.rs):         *)
(* concurrent warp handlers hand their POST /publish requests to the       *)
(* single task that owns the swarm.                                        *)
(*                                                                         *)
(*   handler --tokio Mutex--> mpsc channel(10) --> select! loop            *)
(*   handler <------------- oneshot response ----------'                   *)
(*                                                                         *)
(* Each handler runs on its own task and the loop on another, on several   *)
(* threads, so every await, and every effect another task can see, is a    *)
(* step of its own.  A handler's future is dropped at whichever await it   *)
(* has reached when its client closes the connection.                      *)
(***************************************************************************)
EXTENDS Naturals, FiniteSets, SequencesExt

CONSTANTS
  Request,      \* the requests clients may make, each served by one handler
  Sizes,        \* msg_size values a request may carry
  Chunks,       \* config.chunks, from FRAGMENTS
  Capacity,     \* bound of the mpsc channel: 10 in the code
  MaxClock,     \* model bound on the times Utc::now() shows
  None          \* no request

ASSUME BridgeAssumption ==
  /\ IsFiniteSet(Request)
  /\ None \notin Request
  /\ Sizes \subseteq Nat
  /\ Chunks \in Nat \ {0}
  /\ Capacity \in Nat \ {0}
  /\ MaxClock \in Nat \ {0}

VARIABLES
  handler,      \* where each request's handler is
  size,         \* msg_size of each request
  ticket,       \* history: place of each request in the order of arrival
  arrivals,     \* history: number of requests that have arrived
  owner,        \* holder of the mutex around publish_tx
  waiters,      \* handlers queued on that mutex (tokio's mutex is FIFO)
  channel,      \* the mpsc channel of PublishCommands
  loop,         \* where the swarm task is
  current,      \* the PublishCommand the loop is working on
  stamp,        \* now_nano read for each request, 0 before
  chunk,        \* index of the next fragment of it
  failed,       \* publish_error.is_some()
  sent,         \* fragments of each request gossipsub accepted (res)
  cache,        \* message ids in the node's gossipsub duplicate cache
  response,     \* what the oneshot of each request holds
  status,       \* HTTP status each client was given, 0 for none
  counter,      \* libp2p_pubsub_messages_published
  taken         \* history: commands the loop has received

handlerVars == <<handler, size, ticket, arrivals, status>>
lockVars    == <<owner, waiters>>
loopVars    == <<loop, current, stamp, chunk, failed, sent, cache, counter, taken>>
vars        == <<handlerVars, lockVars, channel, response, loopVars>>

-----------------------------------------------------------------------------

Running == loop \notin {"panicked", "exited"}

\* Length of the buffer every fragment of r is written in.
BufferLen(r) == size[r] \div Chunks

\* The fragment index is written only in a buffer longer than 10 bytes, as
\* a u8; every other byte behind the stamp is zero.  The id gossipsub
\* deduplicates by is a hash of exactly these bytes.
PayloadFromTen(r, c) ==               \* wrong: an index in a buffer of 10 bytes too
  [stamp |-> stamp[r], len |-> BufferLen(r),
   mark |-> IF BufferLen(r) >= 10 THEN c % 256 ELSE 0]
Payload(r, c) ==
  [stamp |-> stamp[r], len |-> BufferLen(r),
   mark |-> IF BufferLen(r) > 10 THEN c % 256 ELSE 0]

TypeOK ==
  /\ handler \in [Request -> {"new", "locking", "sending", "waiting", "done", "gone"}]
  /\ size \in [Request -> Nat]
  /\ ticket \in [Request -> Nat]
  /\ arrivals \in Nat
  /\ owner \in Request \cup {None}
  /\ waiters \in Seq(Request)
  /\ channel \in Seq(Request)
  /\ loop \in {"select", "publishing", "replying", "counting", "panicked", "exited"}
  /\ current \in Request \cup {None}
  /\ stamp \in [Request -> 0..MaxClock]
  /\ chunk \in Nat
  /\ failed \in BOOLEAN
  /\ sent \in [Request -> Nat]
  /\ cache \subseteq [stamp : Nat, len : Nat, mark : Nat]
  /\ response \in [Request -> {"none", "ok", "error", "closed"}]
  /\ status \in [Request -> {0, 200, 500}]
  /\ counter \in Nat
  /\ taken \subseteq Request

Init ==
  /\ handler = [r \in Request |-> "new"]
  /\ size = [r \in Request |-> 0]
  /\ ticket = [r \in Request |-> 0]
  /\ arrivals = 0
  /\ owner = None
  /\ waiters = <<>>
  /\ channel = <<>>
  /\ loop = "select"
  /\ current = None
  /\ stamp = [r \in Request |-> 0]
  /\ chunk = 0
  /\ failed = FALSE
  /\ sent = [r \in Request |-> 0]
  /\ cache = {}
  /\ response = [r \in Request |-> "none"]
  /\ status = [r \in Request |-> 0]
  /\ counter = 0
  /\ taken = {}

-----------------------------------------------------------------------------
(* The HTTP handlers.                                                      *)

\* tokio's mutex serves its waiters in the order they asked.
JoinFirst(r) == <<r>> \o waiters     \* wrong: the latest asker is served first
Join(r) == Append(waiters, r)

\* A request arrives and its handler reaches tx.lock().await: it holds the
\* mutex at once when that is free, else it joins the queue behind it.  The
\* server accepts requests until the runtime is gone.
Arrive(r, s) ==
  /\ loop # "exited"
  /\ handler[r] = "new"
  /\ size' = [size EXCEPT ![r] = s]
  /\ arrivals' = arrivals + 1
  /\ ticket' = [ticket EXCEPT ![r] = arrivals']
  /\ IF owner = None
     THEN /\ owner' = r
          /\ handler' = [handler EXCEPT ![r] = "sending"]
          /\ UNCHANGED waiters
     ELSE /\ waiters' = Join(r)
          /\ handler' = [handler EXCEPT ![r] = "locking"]
          /\ UNCHANGED owner
  /\ UNCHANGED <<status, channel, response, loopVars>>

\* Wrong: the permit is returned to nobody while handlers queue for it.
UnlockLost(h) ==
  /\ owner' = None
  /\ handler' = h
  /\ UNCHANGED waiters

\* The guard is dropped: the permit passes to the first queued handler.
\* h is what the releasing handler leaves behind in handler.
Unlock(h) ==
  IF waiters = <<>>
  THEN /\ owner' = None
       /\ handler' = h
       /\ UNCHANGED waiters
  ELSE /\ owner' = Head(waiters)
       /\ waiters' = Tail(waiters)
       /\ handler' = [h EXCEPT ![Head(waiters)] = "sending"]

\* send(cmd).await completes, with the mutex held until it does: the command
\* is queued once the channel has room.
Send(r) ==
  /\ Running
  /\ owner = r
  /\ Len(channel) < Capacity
  /\ channel' = Append(channel, r)
  /\ Unlock([handler EXCEPT ![r] = "waiting"])
  /\ UNCHANGED <<size, ticket, arrivals, status, response, loopVars>>

\* The receiver is gone with the swarm task, so send fails: answered 500.
SendFails(r) ==
  /\ loop = "panicked"
  /\ owner = r
  /\ Unlock([handler EXCEPT ![r] = "done"])
  /\ status' = [status EXCEPT ![r] = 500]
  /\ UNCHANGED <<size, ticket, arrivals, channel, response, loopVars>>

\* The HTTP status of an outcome: Ok(Ok) is 200; Ok(Err), and Err when the
\* command was dropped unanswered, are 500.
StatusBlamesClient(res) == IF res = "ok" THEN 200 ELSE 400   \* wrong: the node failed
StatusFor(res) == IF res = "ok" THEN 200 ELSE 500

\* response_rx.await completes and the client is answered.
Answer(r) ==
  /\ loop # "exited"
  /\ handler[r] = "waiting"
  /\ response[r] # "none"
  /\ handler' = [handler EXCEPT ![r] = "done"]
  /\ status' = [status EXCEPT ![r] = StatusFor(response[r])]
  /\ UNCHANGED <<size, ticket, arrivals, lockVars, channel, response, loopVars>>

\* The client closes its connection and warp drops the handler's future: a
\* queued handler leaves the queue, the mutex holder releases it without
\* sending, and a command already in the channel stays there.
Disconnect(r) ==
  /\ loop # "exited"
  /\ \/ /\ handler[r] = "locking"
        /\ \E i \in 1..Len(waiters) :
             /\ waiters[i] = r
             /\ waiters' = RemoveAt(waiters, i)
        /\ handler' = [handler EXCEPT ![r] = "gone"]
        /\ UNCHANGED owner
     \/ /\ handler[r] = "sending"
        /\ Unlock([handler EXCEPT ![r] = "gone"])
     \/ /\ handler[r] = "waiting"
        /\ handler' = [handler EXCEPT ![r] = "gone"]
        /\ UNCHANGED lockVars
  /\ UNCHANGED <<size, ticket, arrivals, status, channel, response, loopVars>>

-----------------------------------------------------------------------------
(* The select! loop of main, its publish branch.                           *)

\* When recv() yields a command: whether its client still waits is no matter.
Ready == loop = "select" /\ channel # <<>>

\* What the clock may show the loop: the time of the last command again, or a
\* later one.  Times are only ever compared for equality, so none is skipped.
ClockShows(t) ==
  /\ \A r \in taken : stamp[r] <= t
  /\ t = 1 \/ \E r \in taken : stamp[r] \in {t - 1, t}

\* publish_rx.recv() yields a command and publish_new_message reads the clock.
Receive ==
  /\ Ready
  /\ current' = Head(channel)
  /\ channel' = Tail(channel)
  /\ taken' = taken \cup {Head(channel)}
  /\ \E t \in 1..MaxClock :
       /\ ClockShows(t)
       /\ stamp' = [stamp EXCEPT ![Head(channel)] = t]
  /\ chunk' = 0
  /\ failed' = FALSE
  /\ loop' = "publishing"
  /\ UNCHANGED <<handlerVars, lockVars, response, sent, cache, counter>>

\* The commands whose response_tx is dropped when the swarm task unwinds.
OrphansInHand == {current}            \* wrong: those in the channel are forgotten
Orphans == {current} \cup ToSet(channel)

\* &mut buffer[..8] of a shorter buffer panics in the task main blocks on:
\* the command in hand and those in the channel are dropped, and with them
\* the sending halves of their oneshots.
Panic ==
  /\ loop = "publishing"
  /\ BufferLen(current) < 8
  /\ loop' = "panicked"
  /\ response' = [r \in Request |->
                    IF r \in Orphans THEN "closed" ELSE response[r]]
  /\ channel' = <<>>
  /\ current' = None
  /\ UNCHANGED <<handlerVars, lockVars, stamp, chunk, failed, sent, cache, counter, taken>>

\* main has unwound and the runtime shuts down: the handlers still running
\* are dropped and their clients see the connection close.
Exit ==
  /\ loop = "panicked"
  /\ loop' = "exited"
  /\ handler' = [r \in Request |->
                   IF handler[r] \in {"locking", "sending", "waiting"} THEN "gone" ELSE handler[r]]
  /\ owner' = None
  /\ waiters' = <<>>
  /\ UNCHANGED <<size, ticket, arrivals, status, channel, response, current, stamp, chunk,
                 failed, sent, cache, counter, taken>>

\* One turn of the fragment loop.  gossipsub.publish fails with Duplicate
\* when the id is in its cache, and may refuse for other reasons (no peer
\* subscribed, all send queues full, message too large); the first error
\* ends the loop.
PublishFragment(refuse) ==
  /\ loop = "publishing"
  /\ BufferLen(current) >= 8
  /\ LET p == Payload(current, chunk)
     IN  IF p \in cache \/ refuse
         THEN /\ failed' = TRUE
              /\ loop' = "replying"
              /\ UNCHANGED <<chunk, sent, cache>>
         ELSE /\ cache' = cache \cup {p}
              /\ sent' = [sent EXCEPT ![current] = @ + 1]
              /\ chunk' = chunk + 1
              /\ loop' = IF chunk' = Chunks THEN "replying" ELSE "publishing"
              /\ UNCHANGED failed
  /\ UNCHANGED <<handlerVars, lockVars, channel, response, current, stamp, counter, taken>>

\* What publish_new_message answers: a publish_error wins over res > 0.
OutcomeByCount == IF sent[current] > 0 THEN "ok" ELSE "error"   \* wrong: res alone decides
Outcome == IF ~failed /\ sent[current] > 0 THEN "ok" ELSE "error"

\* The outcome is put in the oneshot; nobody may be left to read it.
Reply ==
  /\ loop = "replying"
  /\ response' = [response EXCEPT ![current] = Outcome]
  /\ loop' = "counting"
  /\ UNCHANGED <<handlerVars, lockVars, channel, current, stamp, chunk, failed, sent, cache,
                 counter, taken>>

\* inc_messages_published is called for every command.
CountedIfOpen ==                      \* wrong: skipped once the response was picked up
  IF handler[current] = "waiting" THEN counter + 1 ELSE counter
Counted == counter + 1

\* inc_messages_published, whatever the outcome was.
Count ==
  /\ loop = "counting"
  /\ counter' = Counted
  /\ current' = None
  /\ loop' = "select"
  /\ UNCHANGED <<handlerVars, lockVars, channel, response, stamp, chunk, failed, sent, cache,
                 taken>>

\* Every client has been served or has left, or the process has ended: a
\* legal end of the finite supply of requests, and not a deadlock.
Quiescent ==
  /\ \/ loop = "exited"
     \/ /\ loop = "select"
        /\ channel = <<>>
        /\ \A r \in Request : handler[r] \in {"done", "gone"}
  /\ UNCHANGED vars

-----------------------------------------------------------------------------

Next ==
  \/ \E r \in Request, s \in Sizes : Arrive(r, s)
  \/ \E r \in Request : Send(r)
  \/ \E r \in Request : SendFails(r)
  \/ \E r \in Request : Answer(r)
  \/ \E r \in Request : Disconnect(r)
  \/ Receive
  \/ Panic
  \/ Exit
  \/ \E refuse \in BOOLEAN : PublishFragment(refuse)
  \/ Reply
  \/ Count
  \/ Quiescent

Spec == Init /\ [][Next]_vars

\* The next step of the swarm task, and of the handler of r once it has the
\* mutex: each task is at one await at a time.
LoopStep ==
  \/ Receive
  \/ Panic
  \/ Exit
  \/ \E refuse \in BOOLEAN : PublishFragment(refuse)
  \/ Reply
  \/ Count

HandlerStep(r) == Send(r) \/ SendFails(r) \/ Answer(r)

\* Tokio polls every woken task; select! picks among its ready branches at
\* random, so a ready publish_rx is taken eventually.  Nothing obliges a
\* client to send or to disconnect.
Fairness ==
  /\ WF_vars(LoopStep)
  /\ \A r \in Request : WF_vars(HandlerStep(r))

FairSpec == Spec /\ Fairness

-----------------------------------------------------------------------------
(* Safety.                                                                 *)

\* The mutex is never free while a handler queues for it, and who holds it
\* or queues for it is exactly who is at that await: dropping a handler's
\* future at either place (main.rs:171) hands the permit on.
LockConsistent ==
  /\ owner = None => waiters = <<>>
  /\ \A r \in Request :
       /\ handler[r] = "sending" <=> owner = r
       /\ handler[r] = "locking" <=> r \in ToSet(waiters)

\* The commands the loop has yet to answer.
Held == ToSet(channel) \cup (IF loop \in {"publishing", "replying"} THEN {current} ELSE {})

\* A handler that waits on its oneshot is waited for by nobody in vain: until
\* the outcome is there, its command is in the channel or in the loop's hands
\* (main.rs:183), never in both and never twice, and the loop never holds a
\* command it has already answered.
Custody ==
  /\ \A r \in Request :
       handler[r] = "waiting" /\ response[r] = "none" => r \in Held
  /\ \A r \in Held : response[r] = "none"
  /\ \A i, j \in 1..Len(channel) : channel[i] = channel[j] => i = j
  /\ taken \cap ToSet(channel) = {}

\* A handler dropped before its command was queued.
Withdrawn(r) == handler[r] = "gone" /\ r \notin taken \cup ToSet(channel)

\* Whatever the interleaving of handlers, lock, channel and loop, messages are
\* published in the order their requests arrived: a later request is taken by
\* the loop before an earlier one only if the earlier was withdrawn or dropped
\* by a panic (main.rs:171, the mutex held across send).
NoOvertaking ==
  \A r, s \in Request :
    0 < ticket[r] /\ ticket[r] < ticket[s] /\ s \in taken /\ Running
      => r \in taken \/ Withdrawn(r)

\* A client that is told 200 has all the fragments of its message on the
\* network; one that is told 500 does not, though some may be out
\* (main.rs:123-142 and 183-214).
AnswerTellsOutcome ==
  \A r \in Request :
    /\ status[r] = 200 => sent[r] = Chunks
    /\ status[r] = 500 => sent[r] < Chunks

\* The loop counts a message after it has answered for it, but a scrape never
\* sees the counter more than one behind the clients told 200 (main.rs:510-516).
CounterLag == Cardinality({r \in Request : status[r] = 200}) <= counter + 1

\* What metrics.rs:107 and the comment at main.rs:514 say the counter counts:
\* published messages.  It counts the failed attempts too.
CountsPublishedMessages ==
  counter <= Cardinality({r \in Request : sent[r] = Chunks})

(* Liveness, under Fairness.                                               *)

\* Every request is answered, or its client leaves or the process ends: no
\* handler waits for ever on the mutex, on room in the channel or on its
\* oneshot (main.rs:171, 183); and a command is taken from the channel even
\* when its client has left, unless the process ends (main.rs:510).
EveryRequestEnds ==
  \A r \in Request :
    handler[r] \in {"locking", "sending", "waiting"} \/ r \in ToSet(channel)
      ~> handler[r] \in {"done", "gone"} /\ r \notin ToSet(channel)

-----------------------------------------------------------------------------
(* Refinement: the bridge is a first-in first-out service.                 *)

\* The line a request stands in, across the loop, the channel, the mutex and
\* its queue.  A command leaves it with its last or its refused fragment.
Line ==
  (IF loop = "publishing" THEN <<current>> ELSE <<>>)
    \o channel
    \o (IF owner = None THEN <<>> ELSE <<owner>>)
    \o waiters

\* What has become of a request.
Fate(r) ==
  IF handler[r] = "new" THEN "idle"
  ELSE IF r \in ToSet(Line) THEN "queued"
  ELSE IF sent[r] = Chunks THEN "done"
  ELSE IF r \in taken \/ response[r] # "none" \/ status[r] # 0 THEN "failed"
  ELSE "withdrawn"

Service == INSTANCE FifoService WITH
  queue <- Line,
  state <- [r \in Request |-> Fate(r)],
  told  <- status,
  up    <- Running

\* The promise of POST /publish: requests take effect one at a time, in the
\* order they came, at most once, and each client is told the truth.
FirstInFirstOut == Service!Spec

-----------------------------------------------------------------------------
(* Refinement: a publication is one step of the node in RustGossip.        *)

\* The requests whose fragments the loop has been through, and the fragments
\* of the one it is going through.
Published ==
  {r \in taken : BufferLen(r) >= 8 /\ ~(loop = "publishing" /\ current = r)}
Underway ==
  IF loop = "publishing" THEN {Payload(current, c) : c \in 0..(chunk - 1)} ELSE {}

\* This node, in its loop, and one that stands for all others and has yet to
\* begin: it counts nothing.
Peers     == {"self", "other"}
Phases    == [n \in Peers |-> IF n = "self" THEN "running" ELSE "starting"]
NoneYet   == [n \in Peers |-> {}]
NoCounts  == [n \in Peers |-> [t \in 1..MaxClock |-> 0]]

Gossip == INSTANCE RustGossip WITH
  Node      <- Peers,
  Message   <- Request,
  Sizes     <- {s \div Chunks : s \in Sizes} \ 0..7,
  Distinct  <- {},
  Stamp     <- 1..MaxClock,
  MaxLost   <- 0,
  None      <- "none",
  phase     <- Phases,
  origin    <- [r \in Request |-> IF r \in Published THEN "self" ELSE "none"],
  stamp     <- [r \in Request |-> IF r \in Published THEN stamp[r] ELSE 0],
  len       <- [r \in Request |-> IF r \in Published THEN BufferLen(r) ELSE 0],
  out       <- [r \in Request |-> IF r \in Published THEN sent[r] ELSE 0],
  cache     <- [n \in Peers |-> IF n = "self" THEN cache \ Underway ELSE {}],
  wire      <- [n \in Peers |-> IF n = "other" THEN cache \ Underway ELSE {}],
  lost      <- 0,
  msgSeen   <- NoCounts,
  handled   <- NoneYet,
  discarded <- NoneYet,
  reports   <- NoCounts

Publication ==
  /\ loop = "publishing"
  /\ Gossip!Publish("self", current, BufferLen(current), stamp[current])

\* What the loop does fragment by fragment, with a test after each and requests
\* arriving meanwhile, comes to the one step RustGossip takes for it: the first
\* fragments up to an error go to all other nodes, none of them a duplicate
\* (main.rs:105-139).
PublishesAtOnce == [][Publication]_(Gossip!vars)
=============================================================================
