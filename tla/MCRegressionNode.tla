-------------------------- MODULE MCRegressionNode --------------------------
(* RegressionNode with small instances for TLC.                            *)
EXTENDS RegressionNode, TLC

CONSTANTS a, b

TwoPeers == {a, b}
OnlyA == {a}

\* Nothing, a peer that answers, one that may not, or both.
SomeLookups == {<<>>, <<a>>, <<b>>, <<b, a>>}
=============================================================================
