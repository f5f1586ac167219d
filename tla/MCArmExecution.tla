--------------------------- MODULE MCArmExecution ----------------------------
(* The processor on words of four bits and two-byte instructions.           *)
EXTENDS ArmExecution
LOCAL INSTANCE TLC

-----------------------------------------------------------------------------
(* Operands and instructions.                                               *)

Op(type, reg, value, specflag1, shift, list) ==
  [type |-> type, reg |-> reg, value |-> value, specflag1 |-> specflag1, shift |-> shift, list |-> list]
Reg(r) == Op("reg", r, 0, 0, "LSL", {})
Imm(w) == Op("imm", 0, w, 0, "LSL", {})
Displ(r, w) == Op("displ", r, w, 0, "LSL", {})
Phrase(r, index, type, k) == Op("phrase", r, k, index, type, {})
ShiftedReg(r, type, k) == Op("shifted", r, k, 0, type, {})
List(rs) == Op("list", 0, 0, 0, "LSL", rs)

Instruction(itype, cond, ops, aux) == [itype |-> itype, segpref |-> cond, ops |-> ops, auxpref |-> aux]
I(itype, ops) == Instruction(itype, "AL", ops, {})
S(itype, ops) == Instruction(itype, "AL", ops, {"cond"})
If(cond, itype, ops) == Instruction(itype, cond, ops, {})

R0 == Reg(0)
R1 == Reg(1)
RSP == Reg(SP)
RLR == Reg(LR)

-----------------------------------------------------------------------------
(* The sets of instructions that programs are written with.                 *)

Additions == {I("ADD", <<R0, R0, R1>>), I("SUB", <<R1, R0, R1>>), I("RSB", <<R0, R1, Imm(3)>>),
         I("ADD", <<R1, Imm(9)>>), I("MUL", <<R0, R0, R1>>), I("MOV", <<R0, Imm(3)>>),
         I("NEG", <<R1, R0>>), I("ADD", <<R0, R1, ShiftedReg(0, "LSL", 2)>>)}
Carries == {I("MOV", <<RLR, Imm(9)>>), S("ADD", <<R1, RLR, Imm(8)>>), S("ADD", <<R1, R0, RLR>>),
            I("ADC", <<R1, Imm(2)>>), I("ADC", <<R1, R0, R1>>), I("MOV", <<R1, ShiftedReg(0, "RRX", 1)>>),
            S("LSR", <<R1, R0, Imm(4)>>), S("LSL", <<R1, R0, Imm(1)>>)}
Logic == {I("AND", <<R0, R1>>), I("ORR", <<R0, R1, Imm(6)>>), I("EOR", <<R1, R0>>),
          I("BIC", <<R0, R0, Imm(3)>>), I("ORN", <<R1, R0, R1>>), I("MVN", <<R0, R1>>),
          I("AND", <<R1, Imm(12)>>), I("MOVT", <<R1, Imm(2)>>)}
Shifts == {I("LSL", <<R0, Imm(3)>>), I("LSR", <<R0, R0, Imm(2)>>), I("ROR", <<R1, R0, Imm(3)>>),
           I("UXTB", <<R1, R0>>), I("UXTH", <<R1, R1>>), I("UBFX", <<R1, R0, Imm(1), Imm(2)>>),
           I("REV", <<R1, R0>>), I("EOR", <<R0, R1>>)}
Tests == {I("CMP", <<R0, Imm(7)>>), I("CMP", <<R0, R1>>), I("TST", <<R0, R1>>), I("TEQ", <<R0, R1>>),
          If("EQ", "MOV", <<R0, R1>>), If("NE", "MOV", <<R1, Imm(3)>>)}
Signs == {I("TST", <<R0, R1>>), I("TEQ", <<R0, R1>>), S("AND", <<R1, R0, Imm(9)>>), S("MUL", <<R0, R0, R1>>),
          If("MI", "EOR", <<R1, R0>>), If("PL", "MOV", <<R0, R1>>)}
Outs == {S("LSR", <<R1, R0, Imm(2)>>), S("LSL", <<R1, R0, Imm(1)>>),
         If("CS", "MOV", <<R1, Imm(3)>>), If("CC", "SUB", <<R1, R0, Imm(1)>>), I("ADC", <<R1, R1, Imm(5)>>)}
Ordered == {I("CMP", <<R0, Imm(3)>>), I("CMP", <<R0, Imm(8)>>), I("CMP", <<RSP, Imm(0)>>),
            If("CS", "MOV", <<R0, R1>>), If("LS", "MOV", <<R1, Imm(3)>>),
            If("EQ", "ADD", <<R1, Imm(1)>>), If("GE", "ADD", <<R0, R1>>), If("LT", "MOV", <<R0, R1>>), If("GT", "MOV", <<R1, R0>>)}
Loops == {S("SUB", <<R0, Imm(1)>>), If("NE", "B", <<Imm(0)>>), If("EQ", "B", <<Imm(6)>>),
          I("ADD", <<R1, R0>>), I("RET", <<>>), Instruction("NOP", "NV", <<>>, {})}
Memory == {I("STR", <<R1, Displ(0, 4)>>), I("LDR", <<R1, Displ(0, 4)>>),
           Instruction("STR", "AL", <<R1, Displ(0, 4)>>, {"wback"}),
           Instruction("LDR", "AL", <<R1, Displ(0, 8)>>, {"postidx"}),
           I("LDR", <<R0, Phrase(0, 1, "LSL", 0)>>), I("STRD", <<R0, R1, Displ(0, 0)>>),
           I("RET", <<>>)}
Transfers == {I("PUSH", <<List({0, 1, LR})>>), I("POP", <<List({1})>>), I("POP", <<List({0, PC})>>),
              Instruction("STM", "AL", <<R0, List({1})>>, {"postidx", "wbackldm"}),
              Instruction("LDM", "AL", <<R1, List({0, 1})>>, {"postidx"}), I("LDRD", <<R0, R1, Displ(SP, 0)>>)}
Control == {I("BL", <<Imm(6)>>), I("BL", <<Imm(10)>>), I("B", <<Imm(4)>>), I("RET", <<>>),
            I("PUSH", <<List({LR})>>), I("POP", <<List({PC})>>), I("BX", <<RLR>>), I("MOV", <<R0, Imm(3)>>)}
Others == {I("CMP", <<R0, R1>>), S("MOV", <<R0, ShiftedReg(1, "ASR", 1)>>), If("CS", "BL", <<Imm(0)>>),
           If("HI", "B", <<Imm(4)>>), I("CBZ", <<R0, Imm(8)>>), I("BLX", <<Imm(12)>>), S("SBC", <<R0, R1>>),
           I("UNSUPPORTED", <<>>)}

MCSampled == {Additions, Carries, Logic, Shifts, Tests, Signs, Outs, Ordered, Loops, Memory, Transfers, Control}
MCPrograms == MCSampled \cup {Others}

MCMaxSteps == [p \in MCPrograms |-> IF p \in {Loops, Control} THEN 5 ELSE 4]
MCRegisters == {0, 1, SP, LR}
MCInternal == {0, 2, 4, 6, 8}
MCAddresses == {2 * k : k \in 0..7}
MCImage == [a \in 0..15 |-> 4]
MCReadOnly == [a \in {} |-> a]
Corners == {0, 1, 7, 8, 15}
Entry(a, b) == [R |-> 0 :> a @@ 1 :> b @@ SP :> 8 @@ LR :> 15, mem |-> [w \in 0..15 |-> (7 * w + 3) % 16]]
MCSamples == {Entry(a, b) : a, b \in Corners}
=============================================================================
