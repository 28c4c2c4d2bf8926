---------------------------- MODULE MCNimGossip -----------------------------
(* NimGossip with small instances for TLC.                                 *)
EXTENDS NimGossip

CONSTANTS n1, n2, n3, m1, m2

TwoNodes    == {n1, n2}
ThreeNodes  == {n1, n2, n3}
OneMessage  == {m1}
TwoMessages == {m1, m2}
First       == {n1}
=============================================================================
