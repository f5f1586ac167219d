------------------------------ MODULE ArmMachine -----------------------------
(***************************************************************************)
(* The reference for ArmProcessor: what the instructions do to a machine    *)
(* with words in its registers, the flags N, Z, C and V, and a memory; and  *)
(* the value of a node of the graph for given initial registers and memory. *)
(* Condition codes are the ones that Arm.cpp lists with cond_t.             *)
(*                                                                          *)
(* A call that the processor does not inline is a call here too: its result *)
(* is an arbitrary but fixed function of its target and R0, as for CALL.    *)
(***************************************************************************)
EXTENDS ArmProcessor
LOCAL INSTANCE SequencesExt

Returned(target, a) == (5 * a + 3 * target + 1) % Modulus

-----------------------------------------------------------------------------
(* Machines: registers, memory, flags, pc, and to: the next instruction.    *)

ResultOf(w, n, z, c, v) == [value |-> w, N |-> n, Z |-> z, C |-> c, V |-> v]

AddWithCarry(a, b, c) ==
  LET u == a + b + c
      w == u % Modulus
  IN ResultOf(w, w >= Half, w = 0, u >= Modulus, SignedInt(a) + SignedInt(b) + c # SignedInt(w))

Bit(b) == IF b THEN 1 ELSE 0
Not(w) == MaxWord - w

\* Shifts by any amount of 0..Width, with the last bit shifted out.
ShifterResult(type, a, k, c) ==
  LET sign == IF a >= Half THEN Not(MaxWord \div 2^k) ELSE 0
  IN CASE k = 0 /\ type # "RRX" -> [value |-> a, C |-> c]
       [] type = "RRX" -> [value |-> a \div 2 + Half * Bit(c), C |-> a % 2 = 1]
       [] k # 0 /\ type = "LSL" -> [value |-> (a * 2^k) % Modulus, C |-> ((a * 2^k) \div Modulus) % 2 = 1]
       [] k # 0 /\ type = "LSR" -> [value |-> a \div 2^k, C |-> (a \div 2^(k - 1)) % 2 = 1]
       [] k # 0 /\ type = "ASR" -> [value |-> a \div 2^k + sign, C |-> (a \div 2^(k - 1)) % 2 = 1]
       [] k # 0 /\ type = "ROR" ->
            LET w == (a \div 2^(k % Width) + a * 2^(Width - (k % Width))) % Modulus
            IN [value |-> w, C |-> w >= Half]

Read(m, r) == IF r = PC THEN m.pc + PcOffset ELSE m.R[r]
Write(m, r, w) == IF r = PC THEN [m EXCEPT !.to = ClearBit0(w)] ELSE [m EXCEPT !.R[r] = w]

\* An operand: its value and the carry of the shifter.
Operand(m, op) ==
  CASE op.type = "reg" -> [value |-> Read(m, op.reg), C |-> m.C]
    [] op.type \in {"imm", "mem"} -> [value |-> op.value, C |-> m.C]
    [] op.type = "displ" -> [value |-> (Read(m, op.reg) + op.value) % Modulus, C |-> m.C]
    [] op.type = "phrase" ->
         [value |-> (Read(m, op.reg) + ShifterResult(op.shift, Read(m, op.specflag1), op.value, m.C).value) % Modulus,
          C |-> m.C]
    [] op.type = "shifted" -> ShifterResult(op.shift, Read(m, op.reg), op.value, m.C)

WithFlags(m, r) == [m EXCEPT !.N = r.N, !.Z = r.Z, !.C = r.C, !.V = r.V]
\* A result that leaves V alone.
LogicalResult(m, w, c) == ResultOf(w, w >= Half, w = 0, c, m.V)
Finish(m, i, r, writes, sets) ==
  LET set == IF sets THEN WithFlags(m, r) ELSE m
  IN IF writes THEN Write(set, Rd(i), r.value) ELSE set

RunArithmetic(m, i) ==
  LET a == Operand(m, Left(i)).value
      b == Operand(m, Right(i)).value
      r == CASE i.itype \in {"ADD", "CMN"} -> AddWithCarry(a, b, 0)
             [] i.itype = "ADC" -> AddWithCarry(a, b, Bit(m.C))
             [] i.itype \in {"SUB", "CMP"} -> AddWithCarry(a, Not(b), 1)
             [] i.itype = "SBC" -> AddWithCarry(a, Not(b), Bit(m.C))
             [] i.itype = "RSB" -> AddWithCarry(Not(a), b, 1)
             [] i.itype = "MUL" -> LogicalResult(m, (a * b) % Modulus, m.C)
      compares == i.itype \in {"CMP", "CMN"}
  IN Finish(m, i, r, ~compares, compares \/ SetsFlags(i))

RunLogical(m, i) ==
  LET a == Operand(m, Left(i)).value
      o == Operand(m, Right(i))
      b == o.value
      w == CASE i.itype \in {"AND", "TST"} -> BitAnd[a, b]
             [] i.itype = "ORR" -> BitOr[a, b]
             [] i.itype \in {"EOR", "TEQ"} -> BitXor[a, b]
             [] i.itype = "BIC" -> BitAnd[a, Not(b)]
             [] i.itype = "ORN" -> BitOr[a, Not(b)]
             [] i.itype \in {"MOV", "ADR"} -> b
             [] i.itype = "MVN" -> Not(b)
             [] i.itype = "UXTB" -> b % 2^(Width \div 4)
             [] i.itype = "UXTH" -> b % 2^(Width \div 2)
      tests == i.itype \in {"TST", "TEQ"}
  IN Finish(m, i, LogicalResult(m, w, o.C), ~tests, tests \/ SetsFlags(i))

RunShift(m, i) ==
  LET r == ShifterResult(i.itype, Operand(m, Left(i)).value, Operand(m, Right(i)).value, m.C)
  IN Finish(m, i, LogicalResult(m, r.value, r.C), TRUE, SetsFlags(i))

RunField(m, i) ==
  LET a == Operand(m, i.ops[2]).value
      byte == Width \div 4
      field == (a \div 2^(i.ops[3].value)) % 2^(i.ops[4].value)
      Byte(k) == (a \div 2^(k * byte)) % 2^byte
  IN Write(m, Rd(i),
       CASE i.itype = "UBFX" -> field
         [] i.itype = "REV" -> Byte(0) * 2^(3 * byte) + Byte(1) * 2^(2 * byte) + Byte(2) * 2^byte + Byte(3)
         [] i.itype = "MOVT" -> (Read(m, Rd(i)) % 2^(2 * byte)) + a * 2^(2 * byte))

RunNeg(m, i) == Finish(m, i, AddWithCarry(Not(Operand(m, i.ops[2]).value), 0, 1), TRUE, SetsFlags(i))

\* The addresses an instruction accesses, and the registers that go there.
Accesses(m, i) ==
  LET op == Last(i.ops)
      moved == Operand(m, op).value
      base == IF "postidx" \in i.auxpref /\ op.type = "displ" THEN Read(m, op.reg) ELSE moved
      t == Transfer(i)
      list == op.list
      \* the lowest register of a list is at the lowest address
      lowest == Read(m, t.reg) + (IF t.bIncrement THEN 0 ELSE -4 * Cardinality(list))
                  + (IF t.bPost = t.bIncrement THEN 0 ELSE 4)
  IN CASE i.itype \in {"LDR", "STR"} -> <<[reg |-> Rd(i), at |-> base]>>
       [] i.itype \in {"LDRD", "STRD"} ->
            <<[reg |-> Rd(i), at |-> moved], [reg |-> i.ops[2].reg, at |-> (moved + 4) % Modulus]>>
       [] OTHER -> SetToSeq({[reg |-> r, at |-> (lowest + 4 * Cardinality({q \in list : q < r})) % Modulus] :
                               r \in list})
\* The base register, if it is written back, and its value.
BaseAfter(m, i) ==
  LET op == Last(i.ops)
      t == Transfer(i)
  IN IF i.itype \in {"LDR", "STR"}
     THEN IF op.type = "displ" /\ i.auxpref \cap {"wback", "postidx"} # {}
          THEN <<op.reg, Operand(m, op).value>> ELSE <<>>
     ELSE IF i.itype \notin {"LDRD", "STRD"} /\ t.bWriteback
     THEN <<t.reg, (Read(m, t.reg) + (IF t.bIncrement THEN 4 ELSE -4) * Cardinality(op.list)) % Modulus>>
     ELSE <<>>

Stores == {"STR", "STRD", "PUSH", "STM"}
Loads == {"LDR", "LDRD", "POP", "LDM"}
RunTransfer(m, i) ==
  LET moved == IF BaseAfter(m, i) = <<>> THEN m ELSE Write(m, BaseAfter(m, i)[1], BaseAfter(m, i)[2])
  IN FoldLeft(LAMBDA n, x : IF i.itype \in Stores THEN [n EXCEPT !.mem[x.at] = Read(m, x.reg)]
                            ELSE Write(n, x.reg, m.mem[x.at]),
              moved, Accesses(m, i))

\* called: the processor made a CALL node of the call or the jump.
RunBranch(m, i, called) ==
  LET target == ClearBit0(IF i.itype = "RET" THEN Read(m, LR) ELSE Operand(m, i.ops[1]).value)
      linked == IF i.itype \in {"BL", "BLX"} THEN [m EXCEPT !.R[LR] = m.to] ELSE m
  IN IF called
     THEN [linked EXCEPT !.R[0] = Returned(target, Read(m, 0)), !.to = ClearBit0(linked.R[LR])]
     ELSE [linked EXCEPT !.to = target]

Passes(m, cond) ==
  CASE cond = "EQ" -> m.Z
    [] cond = "NE" -> ~m.Z
    [] cond = "CS" -> m.C
    [] cond = "CC" -> ~m.C
    [] cond = "MI" -> m.N
    [] cond = "PL" -> ~m.N
    [] cond = "VS" -> m.V
    [] cond = "VC" -> ~m.V
    [] cond = "HI" -> m.C /\ ~m.Z
    [] cond = "LS" -> ~m.C \/ m.Z
    [] cond = "GE" -> m.N = m.V
    [] cond = "LT" -> m.N # m.V
    [] cond = "GT" -> ~m.Z /\ m.N = m.V
    [] cond = "LE" -> m.Z \/ m.N # m.V
    [] cond = "AL" -> TRUE
    [] cond = "NV" -> FALSE

Effect(m, i, called) ==
  CASE i.itype \in {"ADD", "CMN", "ADC", "SUB", "CMP", "SBC", "RSB", "MUL"} -> RunArithmetic(m, i)
    [] i.itype \in {"AND", "TST", "ORR", "EOR", "TEQ", "BIC", "ORN", "MOV", "ADR", "MVN",
                    "UXTB", "UXTH"} -> RunLogical(m, i)
    [] i.itype \in {"LSL", "LSR", "ASR", "ROR"} -> RunShift(m, i)
    [] i.itype \in {"UBFX", "REV", "MOVT"} -> RunField(m, i)
    [] i.itype = "NEG" -> RunNeg(m, i)
    [] i.itype \in Stores \cup Loads -> RunTransfer(m, i)
    [] i.itype \in {"B", "BX", "BL", "BLX", "RET"} -> RunBranch(m, i, called)
    [] i.itype = "NOP" -> m

Run(m, i, called) ==
  LET at == [m EXCEPT !.to = m.pc + InstructionSize]
      n == IF Passes(m, i.segpref) THEN Effect(at, i, called) ELSE at
  IN [n EXCEPT !.pc = n.to]

-----------------------------------------------------------------------------
(* The value of a node, s giving the registers and the memory at the entry. *)

CarryOf(type, a, b) ==
  CASE type = "ADD" -> (a + b) \div Modulus
    [] type = "SHIFT" -> Bit(ShifterResult(IF b < Half THEN "LSL" ELSE "LSR", a, AbsInt(b), FALSE).C)

RECURSIVE Value(_, _)
Value(n, s) ==
  LET Of(k) == Value(Input(n, k), s)
      all == [k \in DOMAIN n.aInputNodes |-> Of(k)]
      by == SignedInt(Of(2))
  IN CASE n.eNodeType = "CONSTANT" -> n.payload
       [] n.eNodeType = "REGISTER" -> s.R[n.payload]
       [] n.eNodeType \in {"ADD", "MULT", "XOR", "AND", "OR"} ->
            FoldLeft(LAMBDA a, b : Dot(n.eNodeType, a, b), Head(all), Tail(all))
       [] n.eNodeType = "SHIFT" ->
            IF by >= 0 THEN (Of(1) * 2^by) % Modulus ELSE Of(1) \div 2^(-by)
       [] n.eNodeType = "ROTATE" ->
            LET right == Of(2) % Width IN (Of(1) \div 2^right) + ((Of(1) * 2^(Width - right)) % Modulus)
       [] n.eNodeType = "CARRY" -> CarryOf(Input(n, 1).eNodeType, Value(Input(Input(n, 1), 1), s),
                                           Value(Input(Input(n, 1), 2), s))
       [] n.eNodeType = "LOAD" -> s.mem[Of(1)]
       [] n.eNodeType = "CALL" -> Returned(n.payload, Of(1))

\* A normalised condition holds of the words s.
HoldsOf(c, s) ==
  \/ c.eSpecial = "TRUE"
  \/ c.eSpecial = "NORMAL" /\ C!Compare(Value(c.oExpression1, s), c.eOperator, c.dwValue)
=============================================================================
