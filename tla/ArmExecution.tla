----------------------------- MODULE ArmExecution ----------------------------
(***************************************************************************)
(* The processor and the machine run the same program side by side, the     *)
(* machine once for every sample: the words in the registers and in memory  *)
(* when the function is entered.  The processor follows one path; what it   *)
(* says of the registers, the memory and the conditions of that path is     *)
(* compared with what happens to the samples.                               *)
(*                                                                          *)
(* Two address nodes stand for two addresses in NewLoad and NewStore, so    *)
(* nothing is claimed for a sample in which two of them are one.            *)
(***************************************************************************)
EXTENDS ArmMachine
LOCAL INSTANCE SequencesExt
LOCAL INSTANCE Functions

CONSTANTS Samples,   \* [R, mem]: the words at the entry of the function
          Sampled    \* the programs that are compared with the machine

VARIABLES machine,   \* the machine of each sample
          ran,       \* the samples whose machine has taken the path so far
          live,      \* the samples in which the conditions of the path hold
          accessed   \* the address nodes of the path

vars == <<processorVars, codeVars, machine, ran, live, accessed>>

Init ==
  /\ ProcessorInit
  /\ live = IF program \in Sampled THEN Samples ELSE {}
  /\ ran = live
  /\ machine = [s \in live |-> [R |-> s.R, mem |-> s.mem, pc |-> 0, to |-> 0,
                                N |-> FALSE, Z |-> FALSE, C |-> FALSE, V |-> FALSE]]
  /\ accessed = {}

(***************************************************************************)
(* The nodes of the addresses that have been accessed: a value that was not *)
(* in aMemoryMap is a LOAD node in a register now.                          *)
(***************************************************************************)
AccessedNodes ==
  accessed \cup DOMAIN aMemoryMap'
    \cup {Input(aRegisters'[r], 1) : r \in {q \in Registers : Is("LOAD", aRegisters'[q])}}

Apart(s, nodes) == \A a, b \in nodes : a # b => Value(a, s) # Value(b, s)

\* Where the machine is when the processor goes on as it does now.
SamePlace(m, s) ==
  CASE status' = "OK" -> m.pc = lpAddress'
    [] status' = "DONE" -> \/ m.pc = ClearBit0(s.R[LR])
                           \/ \E n \in outputs' : Is("CALL", n) /\ n.payload \in NonReturning
    [] status' \in {"ERROR", "CRASH"} -> TRUE

(***************************************************************************)
(* The samples go on with i.  A CALL node was made if R0, its result, is    *)
(* another one.                                                             *)
(***************************************************************************)
Observe(i, v) ==
  LET executed == v.eStatus = "EXECUTE"
      called == i.itype \in {"B", "BX", "BL", "BLX", "RET"} /\ aRegisters'[0] # aRegisters[0]
      after == [s \in DOMAIN machine |-> IF s \in ran THEN Run(machine[s], i, called) ELSE machine[s]]
  IN /\ accessed' = IF live = {} THEN {} ELSE AccessedNodes
     /\ machine' = after
     /\ ran' = {s \in ran : /\ Apart(s, accessed')
                            /\ Passes(machine[s], i.segpref) = executed
                            /\ SamePlace(after[s], s)}
     /\ live' = {s \in live : Apart(s, accessed') /\ HoldsOf(v.condition, s) = executed}

Next ==
  \E i \in UNION Programs :
    /\ Decode(i)
    /\ \E v \in Verdicts(i) :
         /\ Executes(i, v) \/ Skips(v) \/ Forks(v) \/ Fails(v)
         /\ Observe(i, v)

Spec == Init /\ [][Next]_vars

-----------------------------------------------------------------------------

Analysed == status # "ERROR" /\ status # "CRASH"

(***************************************************************************)
(* While the conditions of the path hold, and only then, the machine takes  *)
(* the path: a condition says what the condition code means.                *)
(***************************************************************************)
PathsAgree == Analysed => live = ran

(***************************************************************************)
(* What a register holds has the value that is in the machine's register,   *)
(* for the samples that take the path.  At the end only R0, the return      *)
(* value, counts: POP with PC in its list does not write SP back.           *)
(***************************************************************************)
RegistersAgree ==
  Analysed => \A s \in live, r \in IF status = "OK" THEN Registers ELSE {0} :
                Value(aRegisters[r], s) = machine[s].R[r]

(***************************************************************************)
(* When the analysis is done, the STORE nodes that ShouldCleanNode keeps    *)
(* are the words the function has written outside its stack: each is what   *)
(* the memory has in the end, and every word that changed has one.          *)
(***************************************************************************)
KeptStores == {n \in outputs : Is("STORE", n) /\ ~ShouldCleanNode(n)}
StackAddresses(s) == {Value(n, s) : n \in {a \in accessed : OnStack(a)}}
OutputsKept ==
  status = "DONE" =>
    \A s \in live :
      /\ \A n \in KeptStores : machine[s].mem[Value(Input(n, 2), s)] = Value(Input(n, 1), s)
      /\ \A a \in Word \ StackAddresses(s) :
           machine[s].mem[a] # s.mem[a] => \E n \in KeptStores : Value(Input(n, 2), s) = a

(***************************************************************************)
(* A fork can use the condition codes that its builder could: the code      *)
(* "depends on equivalence of pointers when the flag nodes are equivalent". *)
(***************************************************************************)
ForkKeepsFlags ==
  [][flags' = Migrate(flags) =>
       \A f, g \in FlagNames : (flags[f] = flags[g]) = (flags'[f] = flags'[g])]_vars

\* The stack moves as CallStack says: the processor implements it.
ImplementsCallStack == StackSpec
=============================================================================
