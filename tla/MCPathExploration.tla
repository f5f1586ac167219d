------------------------- MODULE MCPathExploration -------------------------
(***************************************************************************)
(* Instances of PathExploration for TLC: functions of two instructions.     *)
(***************************************************************************)
EXTENDS PathExploration

CONSTANTS f1, f2

OneFunction == <<f1>>

AllAtZero == [f \in Functions |-> 0]
Circle == [a \in Addresses |-> IF a + 1 \in Addresses THEN a + 1 ELSE 0]

\* no instruction jumps, or each may jump to the first one: a loop
NoTargets == [a \in Addresses |-> {}]
BackToZero == [a \in Addresses |-> {0}]

\* nodes are added everywhere, or by the second instruction only
OneNode == [a \in Addresses |-> 1]
SecondOnly == [a \in Addresses |-> IF a = 1 THEN 1 ELSE 0]
=============================================================================
