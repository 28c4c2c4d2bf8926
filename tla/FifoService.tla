---------------------------- MODULE FifoService ----------------------------
(***************************************************************************)
(* What the publish endpoint of a node promises its clients, without       *)
(* handlers, locks, channels or loops: a server that resolves requests one *)
(* at a time in the order they came, each at most once, and tells a client *)
(* only what became of its request.  PublishBridge implements it.          *)
(***************************************************************************)
EXTENDS Naturals, SequencesExt

CONSTANT Request

VARIABLES
  queue,    \* requests not resolved yet, oldest first
  state,    \* what has become of each request
  told,     \* the status its client was given, 0 for none
  up        \* the server runs

vars == <<queue, state, told, up>>

Init ==
  /\ queue = <<>>
  /\ state = [r \in Request |-> "idle"]
  /\ told = [r \in Request |-> 0]
  /\ up = TRUE

\* A client asks; a server that has stopped may still accept the request, to
\* turn it down.
Submit(r) ==
  /\ state[r] = "idle"
  /\ queue' = Append(queue, r)
  /\ state' = [state EXCEPT ![r] = "queued"]
  /\ UNCHANGED <<told, up>>

\* The oldest request is carried out, or fails.
Resolve(outcome) ==
  /\ up
  /\ queue # <<>>
  /\ state' = [state EXCEPT ![Head(queue)] = outcome]
  /\ queue' = Tail(queue)
  /\ UNCHANGED <<told, up>>

\* A client leaves while its request can still be taken back.
Withdraw(r) ==
  /\ state[r] = "queued"
  /\ \E i \in 1..Len(queue) : queue[i] = r /\ queue' = RemoveAt(queue, i)
  /\ state' = [state EXCEPT ![r] = "withdrawn"]
  /\ UNCHANGED <<told, up>>

\* A client learns what became of its request.
Tell(r) ==
  /\ told[r] = 0
  /\ state[r] \in {"done", "failed"}
  /\ told' = [told EXCEPT ![r] = IF state[r] = "done" THEN 200 ELSE 500]
  /\ UNCHANGED <<queue, state, up>>

\* The server stops: the k oldest requests fail with it.
Crash(k) ==
  /\ up
  /\ up' = FALSE
  /\ queue' = SubSeq(queue, k + 1, Len(queue))
  /\ state' = [r \in Request |->
                 IF \E i \in 1..k : queue[i] = r THEN "failed" ELSE state[r]]
  /\ UNCHANGED told

\* A stopped server turns the oldest request down on the spot, or drops all
\* that are left.
TurnDown ==
  /\ ~up
  /\ queue # <<>>
  /\ state' = [state EXCEPT ![Head(queue)] = "failed"]
  /\ told' = [told EXCEPT ![Head(queue)] = 500]
  /\ queue' = Tail(queue)
  /\ UNCHANGED up

DropAll ==
  /\ ~up
  /\ queue' = <<>>
  /\ state' = [r \in Request |-> IF state[r] = "queued" THEN "withdrawn" ELSE state[r]]
  /\ UNCHANGED <<told, up>>

Next ==
  \/ \E r \in Request : Submit(r)
  \/ \E outcome \in {"done", "failed"} : Resolve(outcome)
  \/ \E r \in Request : Withdraw(r)
  \/ \E r \in Request : Tell(r)
  \/ \E k \in 1..Len(queue) : Crash(k)
  \/ TurnDown
  \/ DropAll

Spec == Init /\ [][Next]_vars
=============================================================================
