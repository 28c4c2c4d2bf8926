------------------------- MODULE FragmentBroadcast -------------------------
(***************************************************************************)
(* What the latency measurement promises, whatever the implementation:     *)
(* a node prints one latency line for a message, at most once, and only    *)
(* for a message all of whose fragments its publisher put on the network.  *)
(* RustGossip, GoGossip and NimGossip implement it.                        *)
(***************************************************************************)
EXTENDS Naturals

CONSTANTS Node, Message

VARIABLES
  whole,    \* messages published with all their fragments
  reports   \* how often each node has reported each message

vars == <<whole, reports>>

Init ==
  /\ whole = {}
  /\ reports = [n \in Node |-> [m \in Message |-> 0]]

\* The last fragment of a message goes out.
Publish(m) ==
  /\ m \notin whole
  /\ whole' = whole \cup {m}
  /\ UNCHANGED reports

\* A node prints the latency of a message.
Report(n, m) ==
  /\ m \in whole
  /\ reports[n][m] = 0
  /\ reports' = [reports EXCEPT ![n][m] = 1]
  /\ UNCHANGED whole

\* A publisher that hears itself may report with the last fragment.
PublishAndReport(n, m) ==
  /\ m \notin whole
  /\ whole' = whole \cup {m}
  /\ reports[n][m] = 0
  /\ reports' = [reports EXCEPT ![n][m] = 1]

Next ==
  \/ \E m \in Message : Publish(m)
  \/ \E n \in Node, m \in Message : Report(n, m)
  \/ \E n \in Node, m \in Message : PublishAndReport(n, m)

Spec == Init /\ [][Next]_vars
=============================================================================
