-------------------------- MODULE MCPublishBridge --------------------------
(* PublishBridge with small instances for TLC.                             *)
EXTENDS PublishBridge, TLC

CONSTANTS r1, r2, r3

ThreeRequests == {r1, r2, r3}

\* With two fragments: 14 makes buffers of 7 bytes (too short for the stamp),
\* 20 of 10 (no room for the fragment index), 22 of 11.
AllSizes   == {14, 20, 22}
=============================================================================
