----------------------------- MODULE Expression ------------------------------
(***************************************************************************)
(* The nodes of a data flow graph (DFGNode.hpp, DFGNode.cpp) as terms, and  *)
(* BrokerImpl's New... operations (Broker.cpp), which build a node and      *)
(* simplify it on the way.                                                  *)
(*                                                                          *)
(* A graph holds one node per idx (DataFlowGraph!IndexExact), and the idx   *)
(* is made of the node's type, its payload and the ids of its inputs, in    *)
(* their order: within one graph, two nodes are the same object exactly     *)
(* when they are the same term.  So a node is modelled by its term, and     *)
(* FindNode by the term itself.  Nodes that an operation leaves in the      *)
(* graph without returning them, and lpOverflow, which no caller passes,    *)
(* are left out.                                                            *)
(*                                                                          *)
(* The program has Width = 32.  Words are unsigned int; constants that the  *)
(* code writes in terms of 32 (31, 0xffffffff) are in terms of Width here.  *)
(***************************************************************************)
EXTENDS Integers, Sequences, FiniteSets
LOCAL INSTANCE SequencesExt
LOCAL INSTANCE Bitwise

CONSTANTS Width,      \* the bits of a word
          ReadOnly    \* the words in segments that are not writable, by address

ASSUME WidthAssumption == Width \in Nat \ {0, 1}


Modulus == 2^Width
Half == 2^(Width - 1)
MaxWord == Modulus - 1
Word == 0..MaxWord

\* (unsigned int)i and (int)w
Unsigned(i) == i % Modulus
SignedInt(w) == IF w < Half THEN w ELSE w - Modulus

\* abs((int)w): the smallest int is its own absolute value.
AbsInt(w) ==
  LET i == SignedInt(w)
  IN IF i < 0 /\ i # -Half THEN -i ELSE i

(***************************************************************************)
(* a << b and a >> b for unsigned b.  C++ leaves them undefined for b >= 32;*)
(* the x64 build shifts by the count in a register, which counts modulo 32. *)
(***************************************************************************)
ShiftedLeft(a, b) == Unsigned(a * 2^(b % Width))
ShiftedRight(a, b) == a \div 2^(b % Width)

BitAnd == [a, b \in Word |-> a & b]
BitOr == [a, b \in Word |-> a | b]
BitXor == [a, b \in Word |-> a ^^ b]

-----------------------------------------------------------------------------
(* Nodes: eNodeType, its payload (a constant, a register, an address or an  *)
(* id), the id of its OPAQUE label (-1: none) and aInputNodes.              *)

Term(type, payload, ref, inputs) ==
  [eNodeType |-> type, payload |-> payload, dwOpaqueRefId |-> ref,
   aInputNodes |-> inputs]

NullNode == Term("NULL", 0, -1, <<>>)

ConstantNode(w) == Term("CONSTANT", w, -1, <<>>)
RegisterNode(r) == Term("REGISTER", r, -1, <<>>)
AddNode(inputs) == Term("ADD", 0, -1, inputs)
MultNode(inputs) == Term("MULT", 0, -1, inputs)
XorNode(inputs) == Term("XOR", 0, -1, inputs)
AndNode(inputs) == Term("AND", 0, -1, inputs)
OrNode(inputs) == Term("OR", 0, -1, inputs)
ShiftNode(inputs) == Term("SHIFT", 0, -1, inputs)
RotateNode(inputs) == Term("ROTATE", 0, -1, inputs)
CallNode(address, a) == Term("CALL", address, -1, <<a>>)
LoadNode(address) == Term("LOAD", 0, -1, <<address>>)
StoreNode(data, address) == Term("STORE", 0, -1, <<data, address>>)
CarryNode(a) == Term("CARRY", 0, -1, <<a>>)
\* Only the id is in the idx: two OPAQUE nodes are never the same.
OpaqueNode(id, ref, inputs) == Term("OPAQUE", id, ref, inputs)

\* lpCreator, and the copy of a node with other inputs.
OperationNode(type, inputs) ==
  CASE type = "ADD" -> AddNode(inputs)
    [] type = "MULT" -> MultNode(inputs)
    [] type = "XOR" -> XorNode(inputs)
    [] type = "AND" -> AndNode(inputs)
    [] type = "OR" -> OrNode(inputs)
    [] type = "SHIFT" -> ShiftNode(inputs)
    [] type = "ROTATE" -> RotateNode(inputs)

NewConstant(w) == ConstantNode(Unsigned(w))
NewRegister(r) == RegisterNode(r)
NewCall(address, a) == CallNode(address, a)
NewCarry(a) == CarryNode(a)

Is(type, n) == n.eNodeType = type
IsConstant(n) == n.eNodeType = "CONSTANT"
Input(n, i) == n.aInputNodes[i]
IsConstantOf(n, w) == IsConstant(n) /\ n.payload = w

\* The shift or rotation n has a constant amount.
ByConstant(n) == IsConstant(Input(n, 2))

-----------------------------------------------------------------------------
(* Merging operations.  A result is the node and what is written through    *)
(* lpCarry, NullNode where the code leaves the caller's node alone.         *)

Result(node, carry) == [node |-> node, carry |-> carry]
NoCarry(node) == Result(node, NewConstant(0))
WithCarry(node) == Result(node, NewCarry(node))

\* lpDot: the operation on two words.
Dot(type, a, b) ==
  CASE type = "ADD" -> Unsigned(a + b)
    [] type = "MULT" -> Unsigned(a * b)
    [] type = "XOR" -> BitXor[a, b]
    [] type = "AND" -> BitAnd[a, b]
    [] type = "OR" -> BitOr[a, b]
    [] type = "SHIFT" -> ShiftedLeft(a, b)
    [] type = "ROTATE" -> BitOr[ShiftedRight(a, b), ShiftedLeft(a, Width - b)]

(***************************************************************************)
(* The carry lpDot reports.  b < 0 never holds for the unsigned amount of a *)
(* shift, which leaves a << (b - 31).  A product does not set dwFlags, which*)
(* is not initialized: NewAdd(a, a) with a constant a reads it.             *)
(***************************************************************************)
UndefinedBit == Term("UNDEFINED", 0, -1, <<>>)
DotCarry(type, a, b) ==
  CASE type = "ADD" -> NewConstant((a + b) \div Modulus)
    [] type = "SHIFT" -> NewConstant(ShiftedLeft(a, b - (Width - 1)) % 2)
    [] OTHER -> UndefinedBit

\* dwIdentityValue and dwZeroValue; BadZeroValue is BAD_ZERO_VALUE.
BadZeroValue == -1
IdentityValue(type) ==
  CASE type \in {"ADD", "XOR", "OR", "SHIFT", "ROTATE"} -> 0
    [] type = "MULT" -> 1
    [] type = "AND" -> MaxWord
ZeroValue(type) ==
  CASE type \in {"MULT", "AND"} -> 0
    [] type = "SHIFT" -> Width
    [] type \in {"ADD", "XOR", "OR", "ROTATE"} -> BadZeroValue

\* The tests are made in this order, and on both operands alike.
MergeOperations(type, a, b) ==
  CASE IsConstant(a) /\ IsConstant(b) ->
         Result(NewConstant(Dot(type, a.payload, b.payload)),
                DotCarry(type, a.payload, b.payload))
    [] ~(IsConstant(a) /\ IsConstant(b)) /\ \E n \in {a, b} : IsConstantOf(n, ZeroValue(type)) ->
         NoCarry(NewConstant(ZeroValue(type)))
    [] OTHER ->
         IF IsConstantOf(a, IdentityValue(type)) THEN NoCarry(b)
         ELSE IF IsConstantOf(b, IdentityValue(type)) THEN NoCarry(a)
         ELSE WithCarry(OperationNode(type, <<a, b>>))

\* The operands of an operation, an operand of the same type replaced by its own.
Operands(type, n) == IF Is(type, n) THEN n.aInputNodes ELSE <<n>>

FromInputs(type, inputs) ==
  CASE Len(inputs) = 0 -> NoCarry(NewConstant(IdentityValue(type)))
    [] Len(inputs) = 1 -> NoCarry(inputs[1])
    [] Len(inputs) > 1 -> WithCarry(OperationNode(type, inputs))

\* dot is the operation on all the constants, which goes behind the others.
Gathered(type, others, dot) ==
  IF dot = ZeroValue(type) THEN NoCarry(NewConstant(dot))
  ELSE FromInputs(type, IF dot = IdentityValue(type) THEN others ELSE Append(others, NewConstant(dot)))

GatheredAll(type, all) ==
  Gathered(type, SelectSeq(all, LAMBDA n : ~IsConstant(n)),
           FoldLeft(LAMBDA w, n : IF IsConstant(n) THEN Dot(type, w, n.payload) ELSE w,
                    IdentityValue(type), all))

MergeOperationsCommutative(type, a, b) ==
  IF ~Is(type, a) /\ ~Is(type, b) THEN MergeOperations(type, a, b)
  ELSE GatheredAll(type, Operands(type, a) \o Operands(type, b))

-----------------------------------------------------------------------------
(* The operations.                                                          *)

(***************************************************************************)
(* n as a coefficient times a node, if it can be read so.  "Only support 2  *)
(* inputs to mult for now", of which one at most is a constant.             *)
(***************************************************************************)
Multiple(base, c) == [base |-> base, coefficient |-> c]
Multiples(n) ==
  IF ~Is("MULT", n) THEN {Multiple(n, 1)}
  ELSE IF Len(n.aInputNodes) # 2 THEN {}
  ELSE {Multiple(Input(n, 3 - k), Input(n, k).payload) : k \in {j \in 1..2 : IsConstant(Input(n, j))}}

\* The sum of x and y where both are multiples of one node.
Sums(x, y) ==
  {Multiple(p[1].base, p[1].coefficient + p[2].coefficient) :
     p \in {q \in Multiples(x) \X Multiples(y) : q[1].base = q[2].base}}

\* Line 72 passes lpOverflow where NewMult expects lpCarry.
CarryForgotten(x, y) ==
  Is("MULT", x) /\ ~Is("MULT", y) /\ IsConstant(Input(x, 1)) /\ Input(x, 2) = y

RECURSIVE NewAddC(_, _), NewMult(_, _)

(***************************************************************************)
(* Every node x of the left sum is merged with the first node of the right  *)
(* sum that is a multiple of the same node.  m has the left sum so far, what*)
(* is left of the right one, and the last carry that was written.           *)
(***************************************************************************)
MergeTerm(m, x, j, sum) ==
  [left |-> Append(m.left, NewMult(sum.base, NewConstant(sum.coefficient))),
   right |-> RemoveAt(m.right, j),
   carry |-> IF CarryForgotten(x, m.right[j]) THEN m.carry
             ELSE MergeOperationsCommutative("MULT", sum.base, NewConstant(sum.coefficient)).carry]

MergeTerms(left, right) ==
  FoldLeft(LAMBDA m, x :
             IF \A y \in ToSet(m.right) : Sums(x, y) = {} THEN [m EXCEPT !.left = Append(@, x)]
             ELSE LET j == SelectInSeq(m.right, LAMBDA y : Sums(x, y) # {})
                  IN MergeTerm(m, x, j, CHOOSE sum \in Sums(x, m.right[j]) : TRUE),
           [left |-> <<>>, right |-> right, carry |-> NullNode], left)

\* NewAdd with lpCarry.
AddTerms(terms, carry) ==
  IF Len(terms) = 1 THEN Result(terms[1], carry)
  ELSE MergeOperationsCommutative("ADD",
         IF Len(terms) = 2 THEN terms[1] ELSE AddNode(Front(terms)), Last(terms))
AddMerged(m) == AddTerms(m.left \o m.right, m.carry)
NewAddC(a, b) == AddMerged(MergeTerms(Operands("ADD", a), Operands("ADD", b)))
NewAdd(a, b) == NewAddC(a, b).node

\* A product with a sum is a sum of products.
NewMult(a, b) ==
  LET Distributed(sum, n) ==
        FoldLeft(LAMBDA r, i : NewAdd(r, NewMult(i, n)),
                 NewMult(Input(sum, 1), n), Tail(sum.aInputNodes))
  IN CASE Is("ADD", a) -> Distributed(a, b)
       [] ~Is("ADD", a) /\ Is("ADD", b) -> Distributed(b, a)
       [] OTHER -> MergeOperationsCommutative("MULT", a, b).node

NewXor(a, b) ==
  IF a = b THEN NewConstant(0) ELSE MergeOperationsCommutative("XOR", a, b).node

NewOr(a, b) == MergeOperationsCommutative("OR", a, b).node

\* All the bits up to the highest one of w.
RECURSIVE Filled(_)
Filled(w) == IF w = 0 THEN 0 ELSE 1 + 2 * Filled(w \div 2)

RECURSIVE NewAnd(_, _), NewShiftC(_, _)
NewAnd(a, b) ==
  LET amount == Input(a, 2).payload
      RotateIsShift ==
        Is("ROTATE", a) /\ ByConstant(a) /\ IsConstant(b) /\ Filled(b.payload) < 2^(Width - (amount % Width))
      ShiftIsMasked ==
        Is("SHIFT", a) /\ ByConstant(a) /\ IsConstant(b)
          /\ b.payload = MaxWord - ShiftedLeft(MaxWord, amount)
  IN CASE RotateIsShift -> NewAnd(NewShiftC(Input(a, 1), NewConstant(-(amount % Width))).node, b)
       [] ShiftIsMasked -> a
       [] OTHER -> MergeOperationsCommutative("AND", a, b).node

(***************************************************************************)
(* NewShift with lpCarry.  Left shifts are positive, right shifts negative. *)
(* Shifts of shifts in one direction are added.  A constant operand of AND  *)
(* or OR is taken out and shifted on its own, to the left in either case.   *)
(***************************************************************************)
SameDirection(a, y) ==
  Is("SHIFT", a) /\ ByConstant(a) /\ (SignedInt(Input(a, 2).payload) < 0) = (SignedInt(y) < 0)

\* "Due to the AND operation" (A >> x) << y is A >> (x - y) under the mask.
ShiftedRest(a, rest, amount) ==
  IF Len(rest) > 1 THEN NewShiftC([a EXCEPT !.aInputNodes = rest], amount)
  ELSE IF Is("AND", a) /\ Is("SHIFT", rest[1]) /\ ByConstant(rest[1])
  THEN NewShiftC(Input(rest[1], 1), NewConstant(Input(rest[1], 2).payload + amount.payload))
  ELSE NewShiftC(rest[1], amount)

Masked(type, r, mask) == Result(IF type = "AND" THEN NewAnd(r.node, mask) ELSE NewOr(r.node, mask), r.carry)

\* The operand first is a constant.
ShiftedApart(a, amount, first) ==
  Masked(a.eNodeType, ShiftedRest(a, RemoveAt(a.aInputNodes, first), amount),
         NewConstant(ShiftedLeft(Input(a, first).payload, amount.payload)))

\* What is left of a carry when nothing of the word is left.
LastOut(a, y) ==
  IF AbsInt(y) > Width THEN NewConstant(0)
  ELSE NewAnd(NewShiftC(a, NewConstant(IF SignedInt(y) < 0 THEN y + 1 ELSE y - (Width - 1))).node,
              NewConstant(1))

NewShiftC(a, amount) ==
  IF ~IsConstant(amount) THEN MergeOperations("SHIFT", a, amount)
  ELSE IF SameDirection(a, amount.payload)
  THEN NewShiftC(Input(a, 1), NewConstant(Input(a, 2).payload + amount.payload))
  ELSE IF a.eNodeType \in {"AND", "OR"} /\ \E n \in ToSet(a.aInputNodes) : IsConstant(n)
  THEN ShiftedApart(a, amount, SelectInSeq(a.aInputNodes, IsConstant))
  ELSE IF AbsInt(amount.payload) >= Width THEN Result(NewConstant(0), LastOut(a, amount.payload))
  ELSE MergeOperations("SHIFT", a, amount)
NewShift(a, amount) == NewShiftC(a, amount).node

\* The test for a negative amount is on an unsigned int, and never holds.
RECURSIVE NewRotate(_, _)
NewRotate(a, amount) ==
  IF Is("ROTATE", a) /\ IsConstant(amount) /\ ByConstant(a)
  THEN NewRotate(Input(a, 1), NewConstant(Input(a, 2).payload + amount.payload))
  ELSE MergeOperations("ROTATE", a,
         IF IsConstant(amount) /\ AbsInt(amount.payload) >= Width
         THEN NewConstant(AbsInt(amount.payload) % Width) ELSE amount).node

-----------------------------------------------------------------------------
(* Memory.  aMemoryMap maps the nodes of addresses to the node stored last: *)
(* two nodes stand for two addresses.                                       *)

NewLoad(aMemoryMap, address) ==
  IF IsConstant(address) /\ address.payload \in DOMAIN ReadOnly
  THEN NewConstant(ReadOnly[address.payload])
  ELSE IF address \in DOMAIN aMemoryMap THEN aMemoryMap[address]
  ELSE LoadNode(address)

\* aMemoryMap after NewStore, which returns StoreNode(data, address).
Stored(aMemoryMap, data, address) ==
  [n \in DOMAIN aMemoryMap \cup {address} |-> IF n = address THEN data ELSE aMemoryMap[n]]
=============================================================================
