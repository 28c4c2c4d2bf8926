---------------------------- MODULE MCRustGossip ----------------------------
(* RustGossip with a small instance for TLC: two messages may collide, a   *)
(* third has a time stamp of its own.                                      *)
EXTENDS RustGossip

CONSTANTS n1, n2, m1, m2, m3

TwoNodes      == {n1, n2}
ThreeMessages == {m1, m2, m3}
Alone         == {m1}
Times         == {1, 2}

\* A buffer of 8 bytes holds the stamp and no fragment index, one of 11 holds
\* both.
AllSizes == {8, 11}
=============================================================================
