------------------------------ MODULE ConnPeer ------------------------------
(***************************************************************************)
(* The dialling side of the connection manager node                        *)
(* (nim-test-node/connmanager/main.nim): a peer with one of its three      *)
(* reconnection strategies, or a hub that dials its outbound peers and the *)
(* other hubs.  Both dial the hubs of HubAddrs with resolveAndConnect,     *)
(* which retries with a back-off; a peer that cycles awaits these calls    *)
(* one after the other, the others spawn them.                             *)
(*                                                                         *)
(* Time is discrete; whatever needs no time happens before it passes.  The *)
(* hubs are external: they answer, refuse (or their name does not resolve) *)
(* or keep silent, and may close a connection when they trim.              *)
(***************************************************************************)
EXTENDS Integers, Sequences, FiniteSets, Functions

CONSTANTS
  HubAddrs,      \* cfg.hubAddrs, or the addresses a hub dials
  Attempts,      \* 10 in the code
  DialTimeout,   \* 10 s
  MaxBackoff,    \* 30 s
  Interval,      \* reconnectIntervalS, 55 s
  MaxChanges     \* model bound on what the hubs do

ASSUME ConnAssumption ==
  /\ HubAddrs \in Seq(Range(HubAddrs)) /\ IsInjective(HubAddrs)
  /\ {Attempts, DialTimeout, MaxBackoff, Interval} \subseteq Nat \ {0}
  /\ MaxChanges \in Nat

VARIABLES
  mode,      \* "hub", or the peer's strategy
  main,      \* where runHub or runPeer is
  next,      \* place in HubAddrs of the address it works on
  timer,     \* what is left of its sleep
  tasks,     \* the resolveAndConnect calls under way for each hub, a bag
  age,       \* age of the connection to each hub, Down when there is none
  state,     \* what each hub does with a dial
  changes    \* number of times a hub changed its mind or closed

hubVars == <<state, changes>>
vars == <<mode, main, next, timer, tasks, age, hubVars>>

-----------------------------------------------------------------------------

Hub == Range(HubAddrs)
Down == -1
Period == 1                     \* the aggressive peer looks every second

\* The sleep after failed attempt n: 1 s, doubled each time up to the maximum.
Power2[n \in Nat] == IF n = 0 THEN 1 ELSE 2 * Power2[n - 1]
BackoffUncapped(n) == Power2[n - 1]   \* wrong: the maximum is forgotten
Backoff(n) == IF Power2[n - 1] < MaxBackoff THEN Power2[n - 1] ELSE MaxBackoff

\* The longest a call of resolveAndConnect takes, if every dial times out.
Waits[n \in Nat] ==
  IF n = 0 THEN 0
  ELSE Waits[n - 1] + DialTimeout + Backoff(n)
Lifetime == Waits[Attempts]

\* The longest a cycling peer keeps a connection: the calls for the other hubs
\* may come between, then the sleep.
MaxAge == Interval + (Len(HubAddrs) - 1) * Lifetime

\* A bag of calls gives the number of calls at each place, as in module Bags,
\* whose counterpart in the proof library hides the theorems on cardinality.
IsBag(calls, S) == DOMAIN calls \subseteq S /\ calls \in [DOMAIN calls -> Nat \ {0}]
NoCalls == [c \in {} |-> 1]
Add(calls, c) ==
  [d \in DOMAIN calls \cup {c} |->
    IF d # c THEN calls[d] ELSE IF c \in DOMAIN calls THEN calls[c] + 1 ELSE 1]
Remove(calls, c) ==
  [d \in {e \in DOMAIN calls : e # c \/ calls[c] > 1} |->
    IF d = c THEN calls[c] - 1 ELSE calls[d]]

\* The calls of a bag, those at the same place told apart by a number.
Copies(calls) == UNION {{c} \X (1..calls[c]) : c \in DOMAIN calls}

Call(n, stage, left) == [attempt |-> n, stage |-> stage, left |-> left]
NewCall == Call(1, "dial", DialTimeout)

Dials    == [attempt : 1..Attempts, stage : {"dial"}, left : 0..DialTimeout]
Backoffs == [attempt : 1..Attempts, stage : {"backoff"}, left : 0..MaxBackoff]

TypeOK ==
  /\ mode \in {"hub", "none", "aggressive", "before_grace"}
  /\ main \in {"start", "connect", "await", "sleep", "idle"}
  /\ next \in 1..(Len(HubAddrs) + 1)
  /\ timer \in 0..(Interval + Period)
  /\ DOMAIN tasks = Hub
  /\ \A h \in Hub : IsBag(tasks[h], Dials \cup Backoffs)
  /\ age \in [Hub -> {Down} \cup Nat]
  /\ state \in [Hub -> {"answers", "refuses", "silent"}]
  /\ changes \in 0..MaxChanges

Init ==
  /\ mode \in {"hub", "none", "aggressive", "before_grace"}
  /\ main = "start"
  /\ next = 1
  /\ timer = 0
  /\ tasks = [h \in Hub |-> NoCalls]
  /\ age = [h \in Hub |-> Down]
  /\ state = [h \in Hub |-> "answers"]
  /\ changes = 0

-----------------------------------------------------------------------------
(* runHub and runPeer.                                                     *)

\* The switch is started.
Start ==
  /\ main = "start"
  /\ main' = IF mode \in {"hub", "aggressive"} THEN "sleep" ELSE "connect"
  /\ tasks' = IF mode = "hub" THEN [h \in Hub |-> Add(tasks[h], NewCall)] ELSE tasks
  /\ UNCHANGED <<mode, next, timer, age, hubVars>>

\* Whether the aggressive peer has lost a hub.
HubLostAlone == \A h \in Hub : age[h] = Down       \* wrong: only when alone
HubLost == \E h \in Hub : age[h] = Down

\* Every second it spawns a call for every hub, the connected ones too, while
\* one is lost, whatever calls are still under way.
Look ==
  /\ mode = "aggressive"
  /\ main = "sleep"
  /\ timer = 0
  /\ timer' = Period
  /\ tasks' = IF HubLost THEN [h \in Hub |-> Add(tasks[h], NewCall)] ELSE tasks
  /\ UNCHANGED <<mode, main, next, age, hubVars>>

\* The other peers await a call for each hub in turn.
Connect ==
  /\ main = "connect"
  /\ next <= Len(HubAddrs)
  /\ tasks' = [tasks EXCEPT ![HubAddrs[next]] = Add(@, NewCall)]
  /\ main' = "await"
  /\ UNCHANGED <<mode, next, timer, age, hubVars>>

Connected ==
  /\ main = "await"
  /\ tasks[HubAddrs[next]] = NoCalls
  /\ next' = next + 1
  /\ main' = "connect"
  /\ UNCHANGED <<mode, timer, tasks, age, hubVars>>

\* All hubs have had their turn: the end without a strategy, else a sleep.
Rest ==
  /\ main = "connect"
  /\ next > Len(HubAddrs)
  /\ \/ mode = "none" /\ main' = "idle" /\ UNCHANGED timer
     \/ mode = "before_grace" /\ main' = "sleep" /\ timer' = Interval
  /\ UNCHANGED <<mode, next, tasks, age, hubVars>>

\* The connections a cycling peer closes.
KeptFirst == [h \in Hub |-> IF h = HubAddrs[1] THEN Down ELSE age[h]]   \* wrong: one only
Kept == [h \in Hub |-> Down]

\* The sleep is over: it closes its outgoing connections and starts again.
\* (A disconnect that raises is not modelled.)
Cycle ==
  /\ mode = "before_grace"
  /\ main = "sleep"
  /\ timer = 0
  /\ age' = Kept
  /\ next' = 1
  /\ main' = "connect"
  /\ UNCHANGED <<mode, timer, tasks, hubVars>>

-----------------------------------------------------------------------------
(* resolveAndConnect.                                                      *)

\* A hub answers a dial: the call returns.  One with a connection keeps it.
Succeed(h, c) ==
  /\ c.stage = "dial"
  /\ state[h] = "answers"
  /\ age' = [age EXCEPT ![h] = IF @ = Down THEN 0 ELSE @]
  /\ tasks' = [tasks EXCEPT ![h] = Remove(@, c)]
  /\ UNCHANGED <<mode, main, next, timer, hubVars>>

\* The dial fails: refused, timed out, or a second connection to the same hub,
\* which is for nim-libp2p to allow.  The call sleeps.
Fail(h, c) ==
  /\ c.stage = "dial"
  /\ state[h] = "refuses" \/ c.left = 0 \/ (state[h] = "answers" /\ age[h] # Down)
  /\ tasks' = [tasks EXCEPT ![h] =
                 Add(Remove(@, c), Call(c.attempt, "backoff", Backoff(c.attempt)))]
  /\ UNCHANGED <<mode, main, next, timer, age, hubVars>>

\* The last attempt, after which the call gives up.
GivesUpNever(n) == FALSE              \* wrong: no end to the attempts
GivesUp(n) == n = Attempts

\* The sleep ends, the one after the last attempt included.
Retry(h, c) ==
  /\ c.stage = "backoff"
  /\ c.left = 0
  /\ tasks' = [tasks EXCEPT ![h] =
                 IF GivesUp(c.attempt) THEN Remove(@, c)
                 ELSE Add(Remove(@, c), Call(c.attempt + 1, "dial", DialTimeout))]
  /\ UNCHANGED <<mode, main, next, timer, age, hubVars>>

-----------------------------------------------------------------------------
(* Hubs and time.                                                          *)

HubChanges(h, s) ==
  /\ changes < MaxChanges
  /\ s # state[h]
  /\ changes' = changes + 1
  /\ state' = [state EXCEPT ![h] = s]
  /\ UNCHANGED <<mode, main, next, timer, tasks, age>>

Trim(h) ==
  /\ changes < MaxChanges
  /\ age[h] # Down
  /\ changes' = changes + 1
  /\ age' = [age EXCEPT ![h] = Down]
  /\ UNCHANGED <<mode, main, next, timer, tasks, state>>

\* Something is to be done that needs no time.
Due ==
  \/ main \in {"start", "connect"}
  \/ main = "sleep" /\ timer = 0 /\ mode \in {"aggressive", "before_grace"}
  \/ main = "await" /\ tasks[HubAddrs[next]] = NoCalls
  \/ \E h \in Hub : \E c \in DOMAIN tasks[h] :
       c.left = 0 \/ (c.stage = "dial" /\ state[h] # "silent")

Later(calls) == [c \in {[d EXCEPT !.left = @ - 1] : d \in DOMAIN calls} |->
                   calls[[c EXCEPT !.left = @ + 1]]]

\* Ages beyond MaxAge + 1 are alike, and only a cycling peer's matter.
Tick ==
  /\ ~Due
  /\ timer' = IF timer > 0 THEN timer - 1 ELSE 0
  /\ tasks' = [h \in Hub |-> Later(tasks[h])]
  /\ age' = [h \in Hub |-> IF mode = "before_grace" /\ age[h] \in 0..MaxAge
                           THEN age[h] + 1 ELSE age[h]]
  /\ UNCHANGED <<mode, main, next, hubVars>>

MainStep == Start \/ Look \/ Connect \/ Connected \/ Rest \/ Cycle
CallStep(h) == \E c \in DOMAIN tasks[h] : Succeed(h, c) \/ Fail(h, c) \/ Retry(h, c)

Next ==
  \/ Start
  \/ Look
  \/ Connect
  \/ Connected
  \/ Rest
  \/ Cycle
  \/ \E h \in Hub : \E c \in DOMAIN tasks[h] : Succeed(h, c)
  \/ \E h \in Hub : \E c \in DOMAIN tasks[h] : Fail(h, c)
  \/ \E h \in Hub : \E c \in DOMAIN tasks[h] : Retry(h, c)
  \/ \E h \in Hub, s \in {"answers", "refuses", "silent"} : HubChanges(h, s)
  \/ \E h \in Hub : Trim(h)
  \/ Tick

Spec == Init /\ [][Next]_vars

\* chronos runs what is due, and time passes.  Nothing obliges a hub.
Fairness ==
  /\ WF_vars(MainStep)
  /\ \A h \in Hub : WF_vars(CallStep(h))
  /\ WF_vars(Tick)

FairSpec == Spec /\ Fairness

-----------------------------------------------------------------------------

\* The calls under way stay bounded though the aggressive peer starts one for
\* every hub each second of an outage (main.nim:125-128): there are no more
\* than seconds in the life of a call.  The other peers have one at most, and
\* a hub one per address.
CallsBounded ==
  /\ \A h \in Hub :
       Cardinality(Copies(tasks[h])) <=
         IF mode = "aggressive" THEN Lifetime \div Period + 1 ELSE 1
  /\ mode \in {"none", "before_grace"} =>
       \A h, g \in Hub : tasks[h] # NoCalls /\ tasks[g] # NoCalls => h = g

\* A cycling peer keeps a connection no longer than its interval while all hubs
\* answer, but up to the life of a call longer for each hub that may not
\* (main.nim:132-138): the grace period of the others must allow for that.
AgeBounded ==
  mode = "before_grace" =>
    \A h \in Hub : age[h] <= IF changes = 0 THEN Interval ELSE MaxAge

\* A hub that answers in the end is connected again by the peers that
\* reconnect: for good by the aggressive one, again and again by the other
\* (main.nim:125, 133).
HubsRegained ==
  \A h \in Hub :
    <>[](state[h] = "answers") =>
      /\ mode = "aggressive" => <>[](age[h] # Down)
      /\ mode = "before_grace" => []<>(age[h] # Down)
=============================================================================
