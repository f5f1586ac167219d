------------------------------ MODULE Condition ------------------------------
(***************************************************************************)
(* ConditionImpl (Condition.hpp, Condition.cpp) without the structure of    *)
(* its expressions: a condition compares a node of the graph with a         *)
(* constant.  Words are unsigned int with 2 * Half values: Half = 2^31 in   *)
(* the program.  Nothing here depends on Half being a power of two.         *)
(***************************************************************************)
EXTENDS Integers

CONSTANTS Half,   \* the number of non-negative signed values
          Exprs   \* the expressions that are compared with constants

ASSUME HalfAssumption == Half \in Nat \ {0, 1}

MaxWord == 2 * Half - 1
Word == 0..MaxWord

\* (signed int)v
Signed(v) == IF v < Half THEN v ELSE v - 2 * Half

\* v + 1 and v - 1 as unsigned int
Inc(v) == IF v = MaxWord THEN 0 ELSE v + 1
Dec(v) == IF v = 0 THEN MaxWord ELSE v - 1

Equalities == {"EQ", "NEQ"}
LowerBounds == {"UGE", "GE"}
UpperBounds == {"ULE", "LE"}
StrictBounds == {"ULT", "UGT", "LT", "GT"}
NormalOperators == Equalities \cup LowerBounds \cup UpperBounds
Operators == NormalOperators \cup StrictBounds

\* What "n op v" means for two words.
Compare(n, op, v) ==
  CASE op = "EQ"  -> n = v
    [] op = "NEQ" -> n # v
    [] op = "UGE" -> n >= v
    [] op = "ULT" -> n < v
    [] op = "UGT" -> n > v
    [] op = "ULE" -> n <= v
    [] op = "GE"  -> Signed(n) >= Signed(v)
    [] op = "LT"  -> Signed(n) < Signed(v)
    [] op = "GT"  -> Signed(n) > Signed(v)
    [] op = "LE"  -> Signed(n) <= Signed(v)

(***************************************************************************)
(* A condition with eSpecial = SPECIAL_COND_NORMAL is a record; the two     *)
(* special ones have neither expressions nor operator.                      *)
(***************************************************************************)
Normal(e, op, v) == [eSpecial |-> "NORMAL", oExpression1 |-> e,
                     eOperator |-> op, dwValue |-> v]
TrueCondition == [eSpecial |-> "TRUE"]
FalseCondition == [eSpecial |-> "FALSE"]

ConditionsWith(ops) == [eSpecial : {"NORMAL"}, oExpression1 : Exprs,
                        eOperator : ops, dwValue : Word]
NormalConditions == ConditionsWith(NormalOperators)

\* The condition c holds when the expressions have the values val.
Holds(c, val) ==
  \/ c.eSpecial = "TRUE"
  \/ /\ c.eSpecial = "NORMAL"
     /\ Compare(val[c.oExpression1], c.eOperator, c.dwValue)

-----------------------------------------------------------------------------

\* The operator after the two operands are exchanged.
FlipOperator(op) ==
  CASE op = "UGE" -> "ULE"
    [] op = "ULE" -> "UGE"
    [] op = "ULT" -> "UGT"
    [] op = "UGT" -> "ULT"
    [] op = "GE" -> "LE"
    [] op = "LE" -> "GE"
    [] op = "LT" -> "GT"
    [] op = "GT" -> "LT"
    [] OTHER -> op

\* The enumerator eOperator ^ 1: operator_t lists an operator and its
\* negation next to each other.
NegateOperator(op) ==
  CASE op = "EQ" -> "NEQ"
    [] op = "NEQ" -> "EQ"
    [] op = "UGE" -> "ULT"
    [] op = "ULT" -> "UGE"
    [] op = "UGT" -> "ULE"
    [] op = "ULE" -> "UGT"
    [] op = "GE" -> "LT"
    [] op = "LT" -> "GE"
    [] op = "GT" -> "LE"
    [] op = "LE" -> "GT"

Negate(c) == [c EXCEPT !.eOperator = NegateOperator(c.eOperator)]

(***************************************************************************)
(* The last part of Normalize: > and < become >= and <=, and a comparison   *)
(* that no or every word satisfies becomes false or true.                   *)
(***************************************************************************)
WithBound(c, op, w) == [c EXCEPT !.eOperator = op, !.dwValue = w]

NormalizeOperator(c) ==
  LET v == c.dwValue
  IN CASE c.eOperator = "UGT" ->
            IF v = MaxWord THEN FalseCondition ELSE WithBound(c, "UGE", Inc(v))
       [] c.eOperator = "ULT" ->
            IF v = 0 THEN FalseCondition ELSE WithBound(c, "ULE", Dec(v))
       [] c.eOperator = "GT" ->
            IF v = Half - 1 THEN FalseCondition ELSE WithBound(c, "GE", Inc(v))
       [] c.eOperator = "LT" ->
            IF v = Half THEN FalseCondition ELSE WithBound(c, "LE", Dec(v))
       [] c.eOperator = "UGE" -> IF v = 0 THEN TrueCondition ELSE c
       [] c.eOperator = "ULE" -> IF v = MaxWord THEN TrueCondition ELSE c
       [] c.eOperator = "GE" -> IF v = Half THEN TrueCondition ELSE c
       [] c.eOperator = "LE" -> IF v = Half - 1 THEN TrueCondition ELSE c
       [] c.eOperator \in Equalities -> c
=============================================================================
