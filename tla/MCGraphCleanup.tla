---------------------------- MODULE MCGraphCleanup ----------------------------
(* Instances of GraphCleanup for TLC: every graph of a few nodes.           *)
EXTENDS GraphCleanup
=============================================================================
