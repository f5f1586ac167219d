---------------------------- MODULE ArmProcessor ----------------------------
(***************************************************************************)
(* The processor of a builder (ArmImpl, Arm.cpp): it executes the           *)
(* instructions of a path symbolically.  A register, a flag and a word of   *)
(* memory hold nodes of the graph, and every instruction replaces some of   *)
(* them by what BrokerImpl's operations (module Expression) build.          *)
(*                                                                          *)
(* The code at an address is fixed when it is first decoded (variable code).*)
(* What the predicate and the path oracle say of a condition that Normalize *)
(* does not decide (IntroduceCondition) is a choice here: modules Predicate *)
(* and PathExploration have it.                                             *)
(*                                                                          *)
(* An instruction is a record with IDA's fields: itype, segpref (its        *)
(* condition), ops and auxpref, the latter a set.                           *)
(***************************************************************************)
EXTENDS FlagConditions, CallStack
LOCAL INSTANCE SequencesExt
LOCAL INSTANCE FiniteSetsExt

CONSTANTS Registers,        \* the registers, PC (15) excluded
          InstructionSize,  \* dwInstructionSize: 2 for Thumb code
          PcOffset,         \* 4 for Thumb code, 8 for ARM code
          Image,            \* get_dword: the words of the binary
          Programs,         \* sets of instructions to write programs with, see Init
          MaxSteps          \* bound: the instructions executed, by program

ASSUME RegistersAssumption == {0, 13, 14} \subseteq Registers /\ Registers \subseteq 0..14

VARIABLES aRegisters,   \* the node in each register
          flags,        \* oCarryFlag, oOverflowFlag, oZeroFlag, oNegativeFlag
          aMemoryMap,   \* the builder's
          outputs,      \* the STORE and CALL nodes of the builder's graph
          lpAddress,    \* of the next instruction
          program,      \* the set of instructions the code is written with
          code,         \* the instructions decoded so far, by address
          steps

processorVars == <<aRegisters, flags, aMemoryMap, outputs, lpAddress, aCallStack, status>>
codeVars == <<program, code, steps>>

SP == 13
LR == 14
PC == 15

FlagNames == {"C", "V", "Z", "N"}

(***************************************************************************)
(* The processor while it executes one instruction: next is *lpNextAddress, *)
(* address the instruction's.  stamp makes the flag objects different from  *)
(* each other; called says that a CALL node was made.                       *)
(***************************************************************************)
LastStamp == Max({flags[f].id : f \in FlagNames})
Current ==
  [aRegisters |-> aRegisters, flags |-> flags, aMemoryMap |-> aMemoryMap,
   outputs |-> outputs, aCallStack |-> aCallStack, status |-> "OK",
   address |-> lpAddress, next |-> lpAddress + InstructionSize,
   stamp |-> LastStamp, called |-> FALSE]

With(p, n) == [p |-> p, node |-> n]

-----------------------------------------------------------------------------
(* Registers, jumps and flags.                                              *)

ClearBit0(w) == w - (w % 2)
IsEntryLr(n) == n = NewRegister(LR)

\* From _jump: on to the target, or past a call to it.
JumpTo(p, target) ==
  LET popped == [p EXCEPT !.aCallStack = PopCallStack(@, target)]
      call == NewCall(target, p.aRegisters[0])
      called == [popped EXCEPT !.outputs = @ \cup {call}, !.called = TRUE]
      returned == [called EXCEPT !.aRegisters[0] = call]
      lr == returned.aRegisters[LR]
  IN IF Inlined(popped.aCallStack, target) THEN [popped EXCEPT !.next = target]
     ELSE IF target \in NonReturning THEN [called EXCEPT !.status = "DONE"]
     ELSE IF IsEntryLr(lr) THEN [returned EXCEPT !.status = "DONE"]
     ELSE IF ~IsConstant(lr) THEN [returned EXCEPT !.status = "ERROR"]
     ELSE [returned EXCEPT !.next = ClearBit0(lr.payload),
                           !.aCallStack = PopCallStack(@, ClearBit0(lr.payload))]

\* Mutant of JumpToNode: every constant is jumped to
JumpToConstant(p, n) ==
  CASE IsConstant(n) -> [p EXCEPT !.next = ClearBit0(n.payload)]
    [] IsEntryLr(n) -> [p EXCEPT !.status = "DONE"]
    [] OTHER -> [p EXCEPT !.status = "ERROR"]

JumpToNode(p, n) ==
  CASE IsConstant(n) -> JumpTo(p, ClearBit0(n.payload))
    [] Is("LOAD", n) /\ IsConstant(Input(n, 1)) ->
         JumpTo(p, ClearBit0(Image[Input(n, 1).payload]))
    [] IsEntryLr(n) -> [p EXCEPT !.status = "DONE"]
    [] OTHER -> [p EXCEPT !.status = "ERROR"]

GetRegister(p, r) ==
  IF r = PC THEN NewConstant(p.address + PcOffset) ELSE p.aRegisters[r]

\* A jump may end the analysis: the rest of the instruction is not executed.
SetRegister(p, r, n) ==
  IF p.status # "OK" THEN p
  ELSE IF r = PC THEN JumpToNode(p, n)
  ELSE [p EXCEPT !.aRegisters[r] = n]

\* The flags that an operation sets share one new object.
SetFlag(p, op, n1, n2) ==
  LET written == CASE op = "ADD" -> FlagNames
                   [] op = "SHIFT" -> {"C", "Z", "N"}
                   [] op \in BitwiseOperations -> {"Z", "N"}
  IN IF p.status # "OK" THEN p
     ELSE [p EXCEPT !.stamp = @ + 1,
                    !.flags = [f \in FlagNames |-> IF f \in written THEN Flag(p.stamp + 1, op, n1, n2)
                                                   ELSE @[f]]]
SetFlagIf(b, p, op, n1, n2) == IF b THEN SetFlag(p, op, n1, n2) ELSE p

-----------------------------------------------------------------------------
(* Operands.                                                                *)

\* NewLoad and NewStore; the graph keeps every STORE.
Load(p, address) == NewLoad(p.aMemoryMap, address)
Store(p, data, address) ==
  [p EXCEPT !.aMemoryMap = Stored(@, data, address),
            !.outputs = @ \cup {StoreNode(data, address)}]

RotatedThroughCarry(half, carry) ==
  IF carry = NullNode \/ IsConstantOf(carry, 0) THEN half
  ELSE NewAdd(half, NewShift(carry, NewConstant(Width - 1)))

Shifted(p, base, y, shift, carry, bSetFlags) ==
  With(SetFlagIf(bSetFlags, p, "SHIFT", base, y),
       CASE shift = "ROR" -> NewRotate(base, y)
         [] shift = "RRX" -> RotatedThroughCarry(NewShift(base, y), carry)
         [] OTHER -> NewShift(base, y))

\* The amount is negative for shifts to the right: LSR and ASR alike.
GetOperandShift(p, base, amount, shift, bSetFlags, bit) ==
  Shifted(p, base, CASE shift \in {"LSR", "ASR"} -> Negated(amount)
                     [] shift = "RRX" -> MinusOne
                     [] OTHER -> amount,
          shift, Carry(p.flags["C"], bit), bSetFlags)

(***************************************************************************)
(* GetOperand: the node of an operand, and the processor with the flags     *)
(* that a register operand or a shift sets on the way.                      *)
(***************************************************************************)
ShiftAmount(p, op) ==
  IF op.type = "shifted" /\ op.value = 0 /\ op.shift # "LSL" THEN GetRegister(p, op.specflag1)
  ELSE NewConstant(op.value)
Indexed(reg, index) == With(index.p, NewAdd(reg, index.node))

GetOperand(p, op, bSetFlags, bit) ==
  LET reg == GetRegister(p, op.reg)
      offset == NewConstant(op.value)
      index == GetRegister(p, op.specflag1)
      Scaled(n) == GetOperandShift(p, n, ShiftAmount(p, op), op.shift, bSetFlags, bit)
  IN CASE op.type = "reg" -> With(SetFlagIf(bSetFlags, p, "ADD", reg, Zero), reg)
       [] op.type \in {"mem", "imm"} -> With(p, offset)
       [] op.type = "displ" -> With(SetFlagIf(bSetFlags, p, "ADD", reg, offset), NewAdd(reg, offset))
       [] op.type = "phrase" /\ op.value = 0 ->
            With(SetFlagIf(bSetFlags, p, "ADD", reg, index), NewAdd(reg, index))
       [] op.type = "phrase" /\ op.value # 0 -> Indexed(reg, Scaled(index))
       [] op.type = "shifted" -> Scaled(reg)

\* "Rd, Op" stands for "Rd, Rd, Op".
TwoOperands(i) == Len(i.ops) = 2
Left(i) == IF TwoOperands(i) THEN i.ops[1] ELSE i.ops[2]
Right(i) == Last(i.ops)
Rd(i) == i.ops[1].reg
SetsFlags(i) == "cond" \in i.auxpref

-----------------------------------------------------------------------------
(* The instructions.                                                        *)

Compares(i) == i.itype \in {"CMP", "CMN"}

Add(p, i, left, right) ==
  SetFlagIf(Compares(i) \/ SetsFlags(i),
            IF Compares(i) THEN p ELSE SetRegister(p, Rd(i), NewAdd(left, right)), "ADD", left, right)

AddOperands(p, i, n1, n2, carry) ==
  IF i.itype \in {"ADC", "SBC"} /\ carry = NullNode THEN [p EXCEPT !.status = "ERROR"]
  ELSE Add(p, i, IF i.itype = "RSB" THEN Negated(n1) ELSE n1,
           CASE i.itype \in {"ADD", "RSB"} -> n2
             [] i.itype = "ADC" -> NewAdd(n2, carry)
             [] i.itype = "SBC" -> Negated(NewAdd(n2, carry))
             [] i.itype \in {"SUB", "CMP"} -> Negated(n2)
             [] i.itype = "CMN" -> Negated(Complemented(n2)))

Multiply(p, i, n1, n2) ==
  SetFlagIf(SetsFlags(i), SetRegister(p, Rd(i), NewMult(n1, n2)), "MULT", n1, n2)

\* ADD and its like, and MUL; their operands do not set flags.
Calculate(p, i, n1, n2, bit) ==
  IF i.itype = "MUL" THEN Multiply(p, i, n1, n2)
  ELSE AddOperands(p, i, n1, n2, Carry(p.flags["C"], bit))

(***************************************************************************)
(* The instructions with one operand op, GetOperand's result for it: only   *)
(* the operand sets the flags of the first three.                           *)
(***************************************************************************)

\* MOV, ADR, MVN, NEG
Move(i, op) ==
  SetRegister(op.p, Rd(i), CASE i.itype \in {"MOV", "ADR"} -> op.node
                             [] i.itype = "MVN" -> Complemented(op.node)
                             [] i.itype = "NEG" -> Negated(op.node))

\* UXTB and UXTH keep a quarter and a half of the word.
LowBits(k) == NewConstant(ShiftedLeft(1, k) - 1)
Extend(i, op) ==
  SetRegister(op.p, Rd(i),
    NewAnd(op.node, LowBits(IF i.itype = "UXTB" THEN Width \div 4 ELSE Width \div 2)))

\* LSL, LSR, ASR, ROR with an amount that is an operand of its own
ShiftBy(p, i, n1, n2) ==
  SetRegister(SetFlagIf(SetsFlags(i), p, "SHIFT", n1, n2), Rd(i),
              IF i.itype = "ROR" THEN NewRotate(n1, n2) ELSE NewShift(n1, n2))
Shift(i, op) ==
  ShiftBy(op.p, i, GetRegister(op.p, Left(i).reg),
          IF i.itype \in {"LSR", "ASR"} THEN Negated(op.node) ELSE op.node)

BitwiseOperation(i) ==
  CASE i.itype \in {"AND", "TST", "BIC"} -> "AND"
    [] i.itype \in {"ORR", "ORN"} -> "OR"
    [] i.itype \in {"EOR", "TEQ"} -> "XOR"
UpdatesFlags(i) == SetsFlags(i) \/ i.itype \in {"TST", "TEQ"}

Combine(p, i, eFlagOp, n1, n2) ==
  SetFlagIf(UpdatesFlags(i),
            IF i.itype \in {"TST", "TEQ"} THEN p
            ELSE SetRegister(p, Rd(i), CASE eFlagOp = "AND" -> NewAnd(n1, n2)
                                         [] eFlagOp = "OR" -> NewOr(n1, n2)
                                         [] eFlagOp = "XOR" -> NewXor(n1, n2)),
            eFlagOp, n1, n2)
Logical(i, op) ==
  Combine(op.p, i, BitwiseOperation(i), GetRegister(op.p, Left(i).reg),
          IF i.itype \in {"BIC", "ORN"} THEN Complemented(op.node) ELSE op.node)

\* UBFX and SBFX: "we only sign extend in case of a constant".
SignExtended(n, k) ==
  IF IsConstant(n) /\ BitAnd[n.payload, ShiftedLeft(1, k - 1)] # 0
  THEN NewConstant(BitOr[n.payload, ShiftedLeft(MaxWord, k)]) ELSE n
Field(n, first, k) == NewAnd(NewShift(n, NewConstant(-first)), LowBits(k))
BitField(i, op) ==
  SetRegister(op.p, Rd(i),
    IF i.itype = "SBFX" THEN SignExtended(Field(op.node, i.ops[3].value, i.ops[4].value), i.ops[4].value)
    ELSE Field(op.node, i.ops[3].value, i.ops[4].value))

\* The bytes of the word in the opposite order.
Rev(i, op) ==
  LET byte == Width \div 4
      Byte(k) == NewConstant((2^byte - 1) * 2^(k * byte))
      By(k) == NewShift(op.node, NewConstant(k * byte))
  IN SetRegister(op.p, Rd(i), NewOr(NewOr(NewOr(By(-3), NewAnd(By(-1), Byte(1))),
                                          NewAnd(By(1), Byte(2))), NewAnd(By(3), Byte(3))))

\* The low half of the register stays.
Movt(i, op) ==
  SetRegister(op.p, Rd(i), NewOr(NewAnd(GetRegister(op.p, Rd(i)), LowBits(Width \div 2)),
                                 NewConstant(op.node.payload * 2^(Width \div 2))))

-----------------------------------------------------------------------------
(* Loads and stores.  The base is written back before the register is.      *)

\* The address of an access, and the base register after it.
AccessAt(i, reg, moved) ==
  IF "wback" \notin i.auxpref /\ "postidx" \in i.auxpref THEN [address |-> reg, base |-> moved]
  ELSE [address |-> moved, base |-> IF "wback" \in i.auxpref THEN moved ELSE NullNode]
Accessed(p, i, op) ==
  IF Last(i.ops).type = "displ" THEN AccessAt(i, GetRegister(p, Last(i.ops).reg), op.node)
  ELSE [address |-> op.node, base |-> NullNode]
WriteBack(p, i, a) == IF a.base = NullNode THEN p ELSE SetRegister(p, Last(i.ops).reg, a.base)

Ldr(p, i, a) == SetRegister(WriteBack(p, i, a), Rd(i), Load(p, a.address))
Str(p, i, a) == WriteBack(Store(p, GetRegister(p, Rd(i)), a.address), i, a)

WordSize == NewConstant(4)

\* LDRD and STRD: the registers of the first two operands
Ldrd(p, i, address) ==
  SetRegister(SetRegister(p, Rd(i), Load(p, address)), i.ops[2].reg, Load(p, NewAdd(address, WordSize)))
Strd(p, i, address) ==
  Store(Store(p, GetRegister(p, Rd(i)), address), GetRegister(p, i.ops[2].reg), NewAdd(address, WordSize))

(***************************************************************************)
(* PUSH, POP, STM and LDM: the registers of the list in ascending order     *)
(* from the base upwards, or in descending order from it downwards.         *)
(***************************************************************************)
Transfer(i) ==
  CASE i.itype = "PUSH" -> [reg |-> SP, bPost |-> FALSE, bIncrement |-> FALSE, bWriteback |-> TRUE]
    [] i.itype = "POP" -> [reg |-> SP, bPost |-> TRUE, bIncrement |-> TRUE, bWriteback |-> TRUE]
    [] OTHER -> [reg |-> Rd(i), bPost |-> "postidx" \in i.auxpref,
                 bIncrement |-> "negoff" \notin i.auxpref, bWriteback |-> "wbackldm" \in i.auxpref]

\* Mutant of Listed: ascending in either case
ListedUpwards(i) == SetToSortSeq(Last(i.ops).list, <)

Listed(i) ==
  SetToSortSeq(Last(i.ops).list, LAMBDA r, s : (r < s) = Transfer(i).bIncrement)
\* The base moved by k words.
Moved(p, i, k) ==
  NewAdd(GetRegister(p, Transfer(i).reg),
         NewConstant(IF Transfer(i).bIncrement THEN 4 * k ELSE -4 * k))
Slot(p, i, k) == Moved(p, i, IF Transfer(i).bPost THEN k - 1 ELSE k)
EndTransfer(p, i, q) ==
  IF Transfer(i).bWriteback THEN SetRegister(q, Transfer(i).reg, Moved(p, i, Len(Listed(i)))) ELSE q

StoreMultiple(p, i) ==
  EndTransfer(p, i,
    FoldLeft(LAMBDA q, k : Store(q, GetRegister(p, Listed(i)[k]), Slot(p, i, k)),
             p, [k \in 1..Len(Listed(i)) |-> k]))

LoadMultiple(p, i) ==
  EndTransfer(p, i,
    FoldLeft(LAMBDA q, k : SetRegister(q, Listed(i)[k], Load(p, Slot(p, i, k))),
             p, [k \in 1..Len(Listed(i)) |-> k]))

-----------------------------------------------------------------------------
(* Control.                                                                 *)

\* BL, BLX: LR and the call stack get the address of the next instruction.
Link(p) ==
  [p EXCEPT !.aRegisters[LR] = NewConstant(p.next), !.aCallStack = PushCallStack(@, p.next)]
\* B, BX, BL, BLX; the operand is read before LR is written
Jumps(p, i, target) ==
  JumpToNode(IF i.itype \in {"BL", "BLX"} THEN Link(p) ELSE p, target)

(***************************************************************************)
(* The switch on itype; op is GetOperand's result for the operand that it   *)
(* is asked for.  CBZ and CBNZ only introduce their condition: their jump   *)
(* is not executed.                                                         *)
(***************************************************************************)
Switch(p, i, op, bit) ==
  CASE i.itype \in {"ADD", "SUB", "CMP", "CMN", "ADC", "SBC", "RSB", "MUL"} ->
         Calculate(p, i, GetOperand(p, Left(i), FALSE, bit).node, op.node, bit)
    [] i.itype \in {"MOV", "ADR", "MVN", "NEG"} -> Move(i, op)
    [] i.itype \in {"TST", "TEQ", "AND", "ORR", "EOR", "BIC", "ORN"} -> Logical(i, op)
    [] i.itype \in {"LSL", "LSR", "ASR", "ROR"} -> Shift(i, op)
    [] i.itype \in {"UXTB", "UXTH"} -> Extend(i, op)
    [] i.itype \in {"UBFX", "SBFX"} -> BitField(i, op)
    [] i.itype = "REV" -> Rev(i, op)
    [] i.itype = "MOVT" -> Movt(i, op)
    [] i.itype = "LDR" -> Ldr(p, i, Accessed(p, i, op))
    [] i.itype = "STR" -> Str(p, i, Accessed(p, i, op))
    [] i.itype = "LDRD" -> Ldrd(p, i, op.node)
    [] i.itype = "STRD" -> Strd(p, i, op.node)
    [] i.itype \in {"PUSH", "STM"} -> StoreMultiple(p, i)
    [] i.itype \in {"POP", "LDM"} -> LoadMultiple(p, i)
    [] i.itype \in {"B", "BX", "BL", "BLX"} -> Jumps(p, i, op.node)
    [] i.itype = "RET" -> JumpToNode(p, GetRegister(p, LR))
    [] i.itype \in {"NOP", "CBZ", "CBNZ"} -> p
    [] i.itype = "UNSUPPORTED" -> [p EXCEPT !.status = "ERROR"]

\* The operand, and whether it sets flags.
MainOperand(i) == IF i.itype \in {"UBFX", "SBFX"} THEN i.ops[2] ELSE Last(i.ops)
OperandSetsFlags(i) ==
  i.itype \in {"MOV", "ADR", "MVN", "NEG", "TST", "TEQ", "AND", "ORR", "EOR", "BIC", "ORN",
               "LSL", "LSR", "ASR", "ROR", "UXTB", "UXTH"} /\ UpdatesFlags(i)

Executed(p, i, bit) == Switch(p, i, GetOperand(p, MainOperand(i), OperandSetsFlags(i), bit), bit)

\* RRX asks the carry flag for its node; a flag that was never set is null.
DereferencesNull(i) ==
  /\ flags["C"] = NoFlag
  /\ \E k \in DOMAIN i.ops : i.ops[k].type \in {"phrase", "shifted"} /\ i.ops[k].shift = "RRX"

-----------------------------------------------------------------------------
(* Conditions.                                                              *)

FlagsUsed(cond) ==
  CASE cond \in {"EQ", "NE"} -> {"Z"}
    [] cond \in {"CS", "CC"} -> {"C"}
    [] cond \in {"MI", "PL"} -> {"N"}
    [] cond \in {"VS", "VC"} -> {"V"}
    [] cond \in {"HI", "LS"} -> {"C", "Z"}
    [] cond \in {"GE", "LT"} -> {"N", "V"}
    [] cond \in {"GT", "LE"} -> {"Z", "N", "V"}

Conditional(i) == i.segpref \notin {"AL", "NV"}

\* _missing_flags, _flags_from_different_operations
FlagsUnusable(i) ==
  \/ \E f \in FlagsUsed(i.segpref) : flags[f] = NoFlag
  \/ \E f, g \in FlagsUsed(i.segpref) : flags[f] # flags[g]

InstructionCondition(i) ==
  ConditionalInstruction(flags[CHOOSE f \in FlagsUsed(i.segpref) : TRUE], i.segpref)

IsStackPointer(n) ==
  \/ n = NewRegister(SP)
  \/ Is("ADD", n) /\ Len(n.aInputNodes) = 2 /\ Input(n, 1) = NewRegister(SP) /\ ByConstant(n)

(***************************************************************************)
(* The "arch-specific conditional instruction hacks": CMP SP, #0 is used to *)
(* set the carry, and a pointer to the stack is not NULL.                   *)
(***************************************************************************)
HackedTrue(c) ==
  /\ IsStackPointer(c.oExpression1) /\ IsConstantOf(c.oExpression2, 0)
  /\ c.eOperator \in {"UGE", "NEQ"}
HackedFalse(c) ==
  /\ IsStackPointer(c.oExpression1)
  /\ \/ c.eOperator = "EQ" /\ IsConstantOf(c.oExpression2, 0)
     \/ c.eOperator = "UGE" /\ IsConstantOf(c.oExpression2, MaxWord)

ZeroTest(i) ==
  Comparison(GetRegister(Current, Rd(i)), IF i.itype = "CBZ" THEN "EQ" ELSE "NEQ", Zero)

-----------------------------------------------------------------------------
(* The behaviour: initialize, and one instruction after the other.          *)

ProcessorInit ==
  /\ StackInit
  /\ aRegisters = [r \in Registers |-> NewRegister(r)]
  /\ flags = [f \in FlagNames |-> NoFlag]
  /\ aMemoryMap = [n \in {} |-> n]
  /\ outputs = {}
  /\ lpAddress = 0
  /\ program \in Programs
  /\ code = [a \in {} |-> a]
  /\ steps = 0

\* decode_insn at lpAddress gives i, now as before.
Decode(i) ==
  /\ status = "OK"
  /\ steps < MaxSteps[program]
  /\ lpAddress \in Internal
  /\ i \in (IF lpAddress \in DOMAIN code THEN {code[lpAddress]} ELSE program)
  /\ code' = [a \in DOMAIN code \cup {lpAddress} |-> IF a = lpAddress THEN i ELSE code[a]]
  /\ steps' = steps + 1
  /\ UNCHANGED program

\* The processor after an instruction that left it as p.
Become(p) ==
  /\ aRegisters' = p.aRegisters
  /\ flags' = p.flags
  /\ aMemoryMap' = p.aMemoryMap
  /\ outputs' = p.outputs
  /\ aCallStack' = p.aCallStack
  /\ status' = p.status
  /\ lpAddress' = p.next

Execute(i, bit) ==
  Become(IF DereferencesNull(i) THEN [Current EXCEPT !.status = "CRASH"] ELSE Executed(Current, i, bit))

\* Mutant of Migrate: every flag gets an object of its own
MigrateEach(f) ==
  [g \in FlagNames |-> IF f[g] = NoFlag THEN NoFlag
                      ELSE [f[g] EXCEPT !.id = LastStamp + (CASE g = "C" -> 1 [] g = "V" -> 2
                                                              [] g = "Z" -> 3 [] g = "N" -> 4)]]

(***************************************************************************)
(* Migrate: the fork has flag objects of its own, shared like the original  *)
(* ones.  Its other state is that of the builder, in the fork's graph.      *)
(***************************************************************************)
Migrate(f) ==
  LET Copy(g, k) == IF f[g] = NoFlag THEN NoFlag ELSE [f[g] EXCEPT !.id = LastStamp + k]
      c == Copy("C", 1)
      v == IF f["V"] = f["C"] THEN c ELSE Copy("V", 2)
      z == IF f["Z"] = f["C"] THEN c ELSE IF f["Z"] = f["V"] THEN v ELSE Copy("Z", 3)
      n == IF f["N"] = f["C"] THEN c ELSE IF f["N"] = f["V"] THEN v
           ELSE IF f["N"] = f["Z"] THEN z ELSE Copy("N", 4)
  IN [C |-> c, V |-> v, Z |-> z, N |-> n]

(***************************************************************************)
(* What an instruction asks of the builder, and the ways it goes on: under  *)
(* a condition that is true of the path when it is executed, false when not.*)
(* IntroduceCondition answers CONTINUE, or SKIP, or the path is that of the *)
(* fork, which "takes the false case" and starts behind the instruction.    *)
(***************************************************************************)
AsksForZero(i) == i.itype \in {"CBZ", "CBNZ"}

Verdict(eStatus, condition) == [eStatus |-> eStatus, condition |-> condition]

OnAnswer(c) ==
  CASE c.eSpecial = "TRUE" -> {Verdict("EXECUTE", c)}
    [] c.eSpecial = "FALSE" -> {Verdict("SKIP", c)}
    [] c.eSpecial = "NORMAL" -> {Verdict(e, c) : e \in {"EXECUTE", "SKIP", "FORK"}}

OnQuestion(i, c) ==
  IF ~AsksForZero(i) /\ HackedTrue(c) THEN {Verdict("EXECUTE", C!TrueCondition)}
  ELSE IF ~AsksForZero(i) /\ HackedFalse(c) THEN {Verdict("SKIP", C!FalseCondition)}
  ELSE OnAnswer(Normalize(c))

Verdicts(i) ==
  CASE i.segpref = "NV" -> {Verdict("SKIP", C!FalseCondition)}
    [] Conditional(i) /\ FlagsUnusable(i) -> {Verdict("FAIL", C!FalseCondition)}
    [] AsksForZero(i) -> OnQuestion(i, ZeroTest(i))
    [] Conditional(i) /\ ~FlagsUnusable(i) -> OnQuestion(i, InstructionCondition(i))
    [] OTHER -> {Verdict("EXECUTE", C!TrueCondition)}

\* What an uninitialized carry may be, for the instructions that read it.
Bits(i) ==
  IF i.itype \in {"ADC", "SBC"} \/ \E k \in DOMAIN i.ops : i.ops[k].type = "shifted"
  THEN {0, 1} ELSE {0}

Executes(i, v) == v.eStatus = "EXECUTE" /\ \E bit \in Bits(i) : Execute(i, bit)
Skips(v) == v.eStatus = "SKIP" /\ Become(Current)
Forks(v) == v.eStatus = "FORK" /\ Become([Current EXCEPT !.flags = Migrate(@)])
Fails(v) == v.eStatus = "FAIL" /\ Become([Current EXCEPT !.status = "ERROR"])

-----------------------------------------------------------------------------
(* What stays in the graph (CodeBrokerImpl::ShouldCleanNode, which asks the *)
(* processor); nodes that others use stay in any case, see GraphCleanup.    *)

OnStack(address) ==
  \/ address = NewRegister(SP)
  \/ Is("ADD", address) /\ \E k \in DOMAIN address.aInputNodes : Input(address, k) = NewRegister(SP)

\* Mutant of Overwritten: what was stored last is not looked at
NotStored(n) == Input(n, 2) \notin DOMAIN aMemoryMap

Overwritten(n) ==
  \/ Input(n, 2) \notin DOMAIN aMemoryMap
  \/ aMemoryMap[Input(n, 2)] # Input(n, 1)

\* ArmImpl::ShouldClean
ShouldClean(n) == n # aRegisters[0] /\ (Is("STORE", n) => OnStack(Input(n, 2)))

ShouldCleanNode(n) ==
  /\ ~Is("CALL", n)
  /\ (Is("STORE", n) /\ Overwritten(n)) \/ ShouldClean(n)
=============================================================================
