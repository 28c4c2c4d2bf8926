--------------------------- MODULE MCRustMetrics ---------------------------
(* RustMetrics with a small instance for TLC.                              *)
EXTENDS RustMetrics

FourLines == {"topics", "mesh", "received", "success"}
=============================================================================
