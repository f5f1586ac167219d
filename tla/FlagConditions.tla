--------------------------- MODULE FlagConditions ---------------------------
(***************************************************************************)
(* flag_op_t (Arm.hpp, Arm.cpp): the operation that set the flags of the    *)
(* processor, and the conditions it builds for the condition codes; and     *)
(* ConditionImpl::Normalize (Condition.cpp), which brings a condition into  *)
(* the form "expression operator constant".  Module Condition has the last  *)
(* part of Normalize, which does not look into the expressions.             *)
(***************************************************************************)
EXTENDS Expression
LOCAL INSTANCE SequencesExt

C == INSTANCE Condition WITH Half <- Half, Exprs <- {}

\* A condition before it is normalised; "NORMAL" until Normalize decides it.
Comparison(e1, op, e2) == [oExpression1 |-> e1, eOperator |-> op, oExpression2 |-> e2]

MinusOne == NewConstant(MaxWord)
Zero == NewConstant(0)
Negated(n) == NewMult(n, MinusOne)
Complemented(n) == NewXor(n, MinusOne)

-----------------------------------------------------------------------------
(* flag_op_t.  Flags that one operation set are one object: id stands for   *)
(* its address.  NoFlag is the null pointer.                                *)

Flag(id, op, n1, n2) == [id |-> id, eOperation |-> op, oNode1 |-> n1, oNode2 |-> n2]
NoFlag == Flag(0, "UNSET", NullNode, NullNode)

BitwiseOperations == {"MULT", "AND", "OR", "XOR"}

\* NullNode: there is no carry.  bit is what an uninitialized dwFlags says.
KnownBit(c, bit) == IF c = UndefinedBit THEN NewConstant(bit) ELSE c
Carry(f, bit) ==
  CASE f.eOperation = "ADD" -> KnownBit(NewAddC(f.oNode1, f.oNode2).carry, bit)
    [] f.eOperation = "SHIFT" -> KnownBit(NewShiftC(f.oNode1, f.oNode2).carry, bit)
    [] OTHER -> NullNode

\* Mutant of ComparisonOperator: CS without equality
ComparisonOperatorStrict ==
  [EQ |-> "EQ", NE |-> "NEQ", CS |-> "UGT", CC |-> "ULT", HI |-> "UGT", LS |-> "ULE",
   GE |-> "GE", LT |-> "LT", GT |-> "GT", LE |-> "LE"]

ComparisonOperator ==
  [EQ |-> "EQ", NE |-> "NEQ", CS |-> "UGE", CC |-> "ULT", HI |-> "UGT", LS |-> "ULE",
   GE |-> "GE", LT |-> "LT", GT |-> "GT", LE |-> "LE"]

ZeroOperator ==
  [EQ |-> "EQ", NE |-> "NEQ", MI |-> "LT", PL |-> "GE", VS |-> "NEQ", VC |-> "EQ",
   CS |-> "NEQ", CC |-> "EQ", HI |-> "NEQ", LS |-> "EQ"]

\* a + b is compared with zero as "a compared with -b".
ConditionalInstructionAdd(f, cond) ==
  IF cond \in DOMAIN ComparisonOperator
  THEN Comparison(f.oNode1, ComparisonOperator[cond], Negated(f.oNode2))
  ELSE Comparison(NewAdd(f.oNode1, f.oNode2), ZeroOperator[cond], Zero)

ShiftCondition(shift, cond) ==
  Comparison(CASE cond \in {"EQ", "NE", "MI", "PL"} -> shift.node
               [] cond \in {"CS", "CC"} -> shift.carry
               [] cond \in {"HI", "LS"} -> NewOr(Complemented(shift.node), shift.carry),
             ZeroOperator[cond], Zero)
ConditionalInstructionShift(f, cond) == ShiftCondition(NewShiftC(f.oNode1, f.oNode2), cond)

ConditionalInstructionBitwise(f, cond) ==
  LET left == CASE f.eOperation = "MULT" -> NewMult(f.oNode1, f.oNode2)
                [] f.eOperation = "AND" -> NewAnd(f.oNode1, f.oNode2)
                [] f.eOperation = "OR" -> NewOr(f.oNode1, f.oNode2)
                [] f.eOperation = "XOR" -> NewXor(f.oNode1, f.oNode2)
  IN IF f.eOperation = "XOR" /\ cond \in {"EQ", "NE"}
     THEN Comparison(f.oNode1, ZeroOperator[cond], f.oNode2)
     ELSE Comparison(left, ZeroOperator[cond], Zero)

ConditionalInstruction(f, cond) ==
  CASE f.eOperation = "ADD" -> ConditionalInstructionAdd(f, cond)
    [] f.eOperation = "SHIFT" -> ConditionalInstructionShift(f, cond)
    [] f.eOperation \in BitwiseOperations -> ConditionalInstructionBitwise(f, cond)

-----------------------------------------------------------------------------
(* Normalize.                                                               *)

\* The constant goes to the right; without one, the difference goes to the left.
WithConstant(c) ==
  IF IsConstant(c.oExpression2) THEN c
  ELSE IF IsConstant(c.oExpression1)
       THEN Comparison(c.oExpression2, C!FlipOperator(c.eOperator), c.oExpression1)
       ELSE Comparison(NewAdd(c.oExpression1, Negated(c.oExpression2)), c.eOperator, Zero)

(***************************************************************************)
(* The search for a constant among the inputs of e1 stops at the third      *)
(* input that is none.  The inputs without the constant found.              *)
(***************************************************************************)
Searched(e1) ==
  LET inputs == e1.aInputNodes
      ends == {k \in 1..Len(inputs) : /\ ~IsConstant(inputs[k])
                                      /\ Cardinality({j \in 1..k : ~IsConstant(inputs[j])}) = 3}
      end == IF ends = {} THEN Len(inputs) + 1 ELSE CHOOSE k \in ends : TRUE
      head == SubSeq(inputs, 1, end - 1)
  IN [constants |-> SelectSeq(head, IsConstant),
      others |-> SelectSeq(head, LAMBDA n : ~IsConstant(n)) \o SubSeq(inputs, end, Len(inputs))]

Rebuilt(type, nodes) ==
  IF nodes = <<>> THEN Zero
  ELSE FoldLeft(LAMBDA r, n : CASE type = "ADD" -> NewAdd(r, n)
                                [] type = "MULT" -> NewMult(r, n)
                                [] type = "XOR" -> NewXor(r, n),
                Head(nodes), Tail(nodes))

\* (int)a / (int)b
Quotient(a, b) ==
  LET i == SignedInt(a)
      j == SignedInt(b)
      Magnitude(k) == IF k < 0 THEN -k ELSE k
  IN (IF (i < 0) = (j < 0) THEN 1 ELSE -1) * (Magnitude(i) \div Magnitude(j))

(***************************************************************************)
(* The loop: what is done to e1 by a constant x is undone on the right, and *)
(* the rest of e1 is left.  A factor is removed when its absolute value     *)
(* divides b, which is read as unsigned for that and as signed for the      *)
(* quotient.  For SHIFT and ROTATE, NODE_IS_SHIFT is asked of the expression*)
(* that has already been replaced.                                          *)
(***************************************************************************)
RECURSIVE Rewritten(_)

Undone(c, type, rest, x, b) ==
  CASE type = "ADD" -> Rewritten(Comparison(rest, c.eOperator, NewConstant(b - x)))
    [] type = "XOR" -> Rewritten(Comparison(rest, c.eOperator, NewConstant(BitXor[b, x])))
    [] type = "MULT" ->
         IF b % Unsigned(AbsInt(x)) # 0 THEN c
         ELSE IF b = Half /\ x = MaxWord THEN C!FalseCondition
         ELSE Rewritten(Comparison(rest,
                IF SignedInt(x) < 0 THEN C!FlipOperator(c.eOperator) ELSE c.eOperator,
                NewConstant(Quotient(b, x))))

UndoneShift(c, shifted, right, b) ==
  Rewritten(Comparison(shifted, c.eOperator, NewConstant(
    IF Is("SHIFT", shifted) THEN ShiftedLeft(b, right)
    ELSE BitOr[ShiftedLeft(b, right), ShiftedRight(b, Width - right)])))

WithoutConstant(c, found) ==
  IF found.constants = <<>> THEN c
  ELSE Undone(c, c.oExpression1.eNodeType, Rebuilt(c.oExpression1.eNodeType, found.others),
              Last(found.constants).payload, c.oExpression2.payload)

Rewritten(c) ==
  LET e1 == c.oExpression1
  IN IF e1.eNodeType \in {"ADD", "MULT", "XOR"} THEN WithoutConstant(c, Searched(e1))
     ELSE IF e1.eNodeType \in {"SHIFT", "ROTATE"} /\ ByConstant(e1) /\ SignedInt(Input(e1, 2).payload) < 0
     THEN UndoneShift(c, Input(e1, 1), -SignedInt(Input(e1, 2).payload), c.oExpression2.payload)
     ELSE c

Normalized(r) ==
  IF r = C!FalseCondition THEN r
  ELSE C!NormalizeOperator(C!Normal(r.oExpression1, r.eOperator, r.oExpression2.payload))
Normalize(c) == Normalized(Rewritten(WithConstant(c)))
=============================================================================
