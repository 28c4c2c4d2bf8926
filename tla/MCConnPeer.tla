----------------------------- MODULE MCConnPeer -----------------------------
(* ConnPeer with a small instance for TLC: two hubs.                       *)
EXTENDS ConnPeer

CONSTANTS h1, h2

TwoHubs == <<h1, h2>>
=============================================================================
