----------------------------- MODULE MCPredicate -----------------------------
(* Instances of Predicate for TLC. *)
EXTENDS Predicate

CONSTANTS e1, e2

OneExpression == {e1}
=============================================================================
