--------------------------- MODULE MCDataFlowGraph ---------------------------
(* Instances of DataFlowGraph for TLC: a builder and a fork of it, or two.  *)
EXTENDS DataFlowGraph

CONSTANTS g1, g2, g3, Const, Op
=============================================================================
