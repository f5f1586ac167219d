------------------------------ MODULE CallStack ------------------------------
(***************************************************************************)
(* The call stack of the processor (ArmImpl::aCallStack, Arm.cpp): which    *)
(* calls are inlined, and what the others leave on the stack.  It stands    *)
(* for the steps of ArmProcessor, which shows it only what JumpToNode,      *)
(* PushCallStack and PopCallStack do to it.                                 *)
(*                                                                          *)
(* "We rely on the calling function to push entries onto the stack when a   *)
(* call is found": JumpToNode itself compares the depth with the limit      *)
(* after the call has pushed its entry, and nothing else bounds the stack.  *)
(***************************************************************************)
EXTENDS Integers, Sequences

CONSTANTS Addresses,       \* of instructions
          Internal,        \* the addresses in a segment that is not "extern"
          NonReturning,    \* the functions that do not return
          dwMaxCallDepth

ASSUME AddressesAssumption == Internal \subseteq Addresses
ASSUME DepthAssumption == dwMaxCallDepth \in Nat \ {0}

VARIABLES aCallStack,
          status   \* "OK", or why the builder stopped: "DONE", "ERROR", "CRASH"

stackVars == <<aCallStack, status>>

StackInit == aCallStack = <<>> /\ status = "OK"

PushCallStack(stack, a) == Append(stack, a)

\* Everything from the last entry for a upwards is removed.
PopCallStack(stack, a) ==
  LET found == {i \in 1..Len(stack) : stack[i] = a}
  IN IF found = {} THEN stack
     ELSE SubSeq(stack, 1, (CHOOSE i \in found : \A j \in found : j <= i) - 1)

\* Mutant of Inlined: one call more
InlinedToo(stack, target) == target \in Internal /\ Len(stack) <= dwMaxCallDepth

\* JumpToNode follows the jump.
Inlined(stack, target) == target \in Internal /\ Len(stack) < dwMaxCallDepth

(***************************************************************************)
(* JumpToNode with a constant target from an instruction that leaves the    *)
(* stack as it is given, and LR the constant lr: the jump is followed, or   *)
(* becomes a CALL node and the analysis goes on at lr.                      *)
(***************************************************************************)
Jump(stack, target, lr) ==
  LET popped == PopCallStack(stack, target)
  IN IF Inlined(popped, target)
     THEN aCallStack' = popped /\ status' = "OK"
     ELSE \/ /\ target \in NonReturning
             /\ aCallStack' = popped
             /\ status' = "DONE"
          \/ /\ target \notin NonReturning
             /\ aCallStack' = PopCallStack(popped, lr)
             /\ status' = "OK"

\* B, BX, a load of PC
Branch == \E target, lr \in Addresses : Jump(aCallStack, target, lr)

\* BL, BLX: LR is the constant that was pushed.
BranchAndLink ==
  \E target, lr \in Addresses : Jump(PushCallStack(aCallStack, lr), target, lr)

(***************************************************************************)
(* Everything else ends the analysis: the value of LR at the entry of the   *)
(* function goes into PC (DONE), PC gets what is no constant, or an         *)
(* instruction is not supported (ERROR).                                    *)
(***************************************************************************)
Stop ==
  /\ status' \in {"DONE", "ERROR", "CRASH"}
  /\ \E target, lr \in Addresses :
       aCallStack' \in {aCallStack, PopCallStack(aCallStack, target),
                       PushCallStack(aCallStack, lr),
                       PopCallStack(PushCallStack(aCallStack, lr), target)}

StackNext == status = "OK" /\ (Branch \/ BranchAndLink \/ Stop)

StackSpec == StackInit /\ [][StackNext]_stackVars

-----------------------------------------------------------------------------

StackTypeOK ==
  /\ aCallStack \in Seq(Addresses)
  /\ status \in {"OK", "DONE", "ERROR", "CRASH"}

(***************************************************************************)
(* Between two instructions the stack is below the limit, whatever was      *)
(* called, branched to, or returned to out of order ("this poisons our      *)
(* aCallStack"): a function that calls itself is inlined at most            *)
(* dwMaxCallDepth - 1 times.                                                *)
(***************************************************************************)
CallDepthBounded == status = "OK" => Len(aCallStack) < dwMaxCallDepth
=============================================================================
