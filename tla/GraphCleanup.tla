----------------------------- MODULE GraphCleanup -----------------------------
(***************************************************************************)
(* BrokerImpl::Cleanup, which removes from a finished graph the nodes that  *)
(* nothing of interest uses, and DFGraphImpl::RemoveNode.                   *)
(*                                                                          *)
(* Cleanup_Impl calls itself for the inputs of a node it gives up, from     *)
(* within a loop over them, which is within a loop of its caller's: the     *)
(* stack holds, for every call under way, the nodes its loop has yet to     *)
(* visit.  The containers are unordered, so a loop takes them in any order. *)
(* Nothing is removed before the whole graph is visited.                    *)
(***************************************************************************)
EXTENDS Integers, Sequences, FiniteSets

CONSTANT NumNodes
ASSUME NumNodesAssumption == NumNodes \in Nat

Node == 0..(NumNodes - 1)

VARIABLES
  aInputNodes,          \* node -> its inputs (a list, here as a set)
  aInputNodesUnique,    \* node -> its inputs, until it is removed
  aOutputNodes,         \* node -> the nodes it is an input of
  kept,                 \* the nodes that ShouldCleanNode says to keep
  aIdMap,               \* the nodes of the graph
  aScheduledForRemoval,
  aNumChildrenRemoved,  \* node -> its outputs that are scheduled for removal
  stack                 \* the loops, the innermost one first

arcs == <<aInputNodesUnique, aOutputNodes>>
vars == <<aInputNodes, arcs, kept, aIdMap, aScheduledForRemoval,
          aNumChildrenRemoved, stack>>

\* the nodes that n is an input of
UsesOf(n) == {m \in Node : n \in aInputNodes[m]}

(***************************************************************************)
(* Any graph that InsertNode makes: inputs are older than the node, and the *)
(* arcs match.  ShouldCleanNode depends on the builder's registers and      *)
(* memory map (or, for a signature, on aNodesToKeep): on nothing that       *)
(* Cleanup changes, so its answers are settled from the start.              *)
(***************************************************************************)
Init ==
  /\ aInputNodes \in [Node -> SUBSET Node]
  /\ \A n \in Node : aInputNodes[n] \subseteq 0..(n - 1)
  /\ aInputNodesUnique = aInputNodes
  /\ aOutputNodes = [n \in Node |-> UsesOf(n)]
  /\ kept \in SUBSET Node
  /\ aIdMap = Node
  /\ aScheduledForRemoval = {}
  /\ aNumChildrenRemoved = [n \in Node |-> {}]
  /\ stack = <<Node>>

-----------------------------------------------------------------------------
(* Cleanup_Impl *)

\* Mutant of InUse: a node is given up with its first output
InUseUntilOneIsGone(n) == aOutputNodes[n] # {} /\ aNumChildrenRemoved[n] = {}

\* "output usage is legit": an output of n is not scheduled for removal
InUse(n) ==
  /\ aOutputNodes[n] # {}
  /\ Cardinality(aNumChildrenRemoved[n]) # Cardinality(aOutputNodes[n])

ToSchedule(n) == n \notin aScheduledForRemoval /\ ~InUse(n) /\ n \notin kept

\* the inputs of n have lost a child
WithChildRemoved(n) ==
  [m \in Node |-> IF m \in aInputNodesUnique[n] THEN aNumChildrenRemoved[m] \cup {n}
                  ELSE aNumChildrenRemoved[m]]

\* the loop goes on to n, which it has not visited yet
Looping(n) == stack # <<>> /\ n \in Head(stack)
Rest(n) == <<Head(stack) \ {n}>> \o Tail(stack)

Skip(n) ==
  /\ Looping(n) /\ ~ToSchedule(n)
  /\ stack' = Rest(n)
  /\ UNCHANGED <<aInputNodes, arcs, kept, aIdMap, aScheduledForRemoval, aNumChildrenRemoved>>

Schedule(n) ==
  /\ Looping(n) /\ ToSchedule(n)
  /\ aScheduledForRemoval' = aScheduledForRemoval \cup {n}
  /\ aNumChildrenRemoved' = WithChildRemoved(n)
  /\ stack' = <<aInputNodesUnique[n]>> \o Rest(n)
  /\ UNCHANGED <<aInputNodes, arcs, kept, aIdMap>>

Return ==
  /\ stack # <<>> /\ Head(stack) = {}
  /\ stack' = Tail(stack)
  /\ UNCHANGED <<aInputNodes, arcs, kept, aIdMap, aScheduledForRemoval, aNumChildrenRemoved>>

-----------------------------------------------------------------------------
(* The removal, in any order *)

\* n untied from its inputs, its own outputs cleared
OutputsWithout(n) ==
  [m \in Node |-> IF m = n THEN {}
                  ELSE IF m \in aInputNodesUnique[n] THEN aOutputNodes[m] \ {n}
                  ELSE aOutputNodes[m]]

RemoveNode(n) ==
  /\ stack = <<>>
  /\ n \in aScheduledForRemoval \cap aIdMap
  /\ aOutputNodes' = OutputsWithout(n)
  /\ aInputNodesUnique' = [aInputNodesUnique EXCEPT ![n] = {}]
  /\ aIdMap' = aIdMap \ {n}
  /\ UNCHANGED <<aInputNodes, kept, aScheduledForRemoval, aNumChildrenRemoved, stack>>

Next ==
  \/ \E n \in Node : Skip(n) \/ Schedule(n) \/ RemoveNode(n)
  \/ Return

Spec == Init /\ [][Next]_vars

Done == stack = <<>> /\ aScheduledForRemoval \cap aIdMap = {}

-----------------------------------------------------------------------------
(* Properties *)

(***************************************************************************)
(* The types; and what is counted as a lost child of a node is an output of *)
(* the node, as the comparison of their numbers supposes.                   *)
(***************************************************************************)
TypeOK ==
  /\ aInputNodes \in [Node -> SUBSET Node]
  /\ aInputNodesUnique \in [Node -> SUBSET Node]
  /\ aOutputNodes \in [Node -> SUBSET Node]
  /\ kept \subseteq Node
  /\ aIdMap \subseteq Node
  /\ aScheduledForRemoval \subseteq Node
  /\ \A n \in Node : aNumChildrenRemoved[n] \subseteq UsesOf(n)
  /\ stack \in Seq(SUBSET Node)

(***************************************************************************)
(* At no time is a node given up that is to be kept, or that a node in the  *)
(* graph is computed from which is not given up itself.                     *)
(***************************************************************************)
NothingUsefulRemoved ==
  \A n \in aScheduledForRemoval :
    n \notin kept /\ UsesOf(n) \subseteq aScheduledForRemoval

(***************************************************************************)
(* In a graph that is cleaned up the arcs still match: a node's outputs are *)
(* the nodes of the graph that it is an input of, and its inputs are in it. *)
(* FindNode on a signature's graph and the evaluator follow these arcs.     *)
(***************************************************************************)
ArcsMatch ==
  Done => \A n \in aIdMap : /\ aOutputNodes[n] = UsesOf(n) \cap aIdMap
                            /\ aInputNodesUnique[n] = aInputNodes[n]
                            /\ aInputNodesUnique[n] \subseteq aIdMap

\* S has the nodes to keep, and what its nodes are computed from
IsClosed(S) == kept \subseteq S /\ \A n \in S : aInputNodes[n] \subseteq S

\* The reference: the least such set.
Useful == {n \in Node : \A S \in SUBSET Node : IsClosed(S) => n \in S}

(***************************************************************************)
(* Cleanup leaves exactly the useful nodes: one pass is enough, whatever    *)
(* the order of the containers.                                             *)
(***************************************************************************)
CleanupExact == Done => aIdMap = Useful

-----------------------------------------------------------------------------
(* The inductive invariant of the proofs *)

InputsAreOlder == \A n \in Node : aInputNodes[n] \subseteq 0..(n - 1)

\* until the last loop ends the graph is what it was
Untouched ==
  stack # <<>> => /\ aIdMap = Node
                  /\ aInputNodesUnique = aInputNodes
                  /\ aOutputNodes = [n \in Node |-> UsesOf(n)]

\* the children that are counted are those that are scheduled
CountsExact ==
  \A n \in Node : aNumChildrenRemoved[n] = UsesOf(n) \cap aScheduledForRemoval

\* a node that is to be scheduled is before one of the loops
NoneMissed ==
  \A n \in Node \ (aScheduledForRemoval \cup kept) :
    UsesOf(n) \subseteq aScheduledForRemoval =>
      \E i \in DOMAIN stack : n \in stack[i]

\* the graph and its arcs, at any point of the removal
Consistent ==
  /\ Node \ aScheduledForRemoval \subseteq aIdMap
  /\ \A n \in aIdMap : /\ aOutputNodes[n] = UsesOf(n) \cap aIdMap
                       /\ aInputNodesUnique[n] = aInputNodes[n]

IInv == /\ TypeOK /\ InputsAreOlder /\ Untouched /\ CountsExact
        /\ NothingUsefulRemoved /\ NoneMissed /\ Consistent
=============================================================================
