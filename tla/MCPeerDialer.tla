---------------------------- MODULE MCPeerDialer ----------------------------
(* PeerDialer with a small instance for TLC: a network of four nodes.      *)
EXTENDS PeerDialer

CONSTANTS p1, p2, p3

Peers == {p1, p2, p3}

\* None; fewer, as many and more peers than half the names of a network; and a
\* target that the network is too small for.
SomeTargets == {0, 1, 2, 4}
=============================================================================
