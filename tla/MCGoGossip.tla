----------------------------- MODULE MCGoGossip -----------------------------
(* GoGossip with small instances for TLC.                                  *)
EXTENDS GoGossip

CONSTANTS n1, n2, n3, m1, m2

TwoNodes    == {n1, n2}
ThreeNodes  == {n1, n2, n3}
OneMessage  == {m1}
TwoMessages == {m1, m2}

\* A payload of 10 bytes has no byte 10, one of 11 has.
AllSizes == {10, 11}
=============================================================================
