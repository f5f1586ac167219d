---------------------------- MODULE DataFlowGraph ----------------------------
(***************************************************************************)
(* The data flow graphs (DFGraphImpl in DFGraph.cpp) of the builders of a   *)
(* function: how nodes are found or inserted (BrokerImpl::FindNode), what   *)
(* the memory map makes of loads and stores, and how a graph is copied when *)
(* its builder forks.                                                       *)
(*                                                                          *)
(* A node object is a pair <<g, i>>: the one that was inserted into graph g *)
(* with dwNodeId = i.  A graph is built by one thread; that no thread can   *)
(* reach a node of another builder's graph is what the model is about.      *)
(*                                                                          *)
(* A node's data is its label: the type and the constant, register number   *)
(* or call target that idx() prints before the ids of the inputs.  What the *)
(* New... functions do to find the label and the inputs is left open here.  *)
(***************************************************************************)
EXTENDS Integers, Sequences, Functions, SequencesExt

CONSTANTS Graphs,       \* the graphs: of the first builder, and of its forks
          FirstGraph,
          NumRegisters, \* registers of the processor: 16
          Leaves,       \* labels of nodes without inputs
          Operations,   \* labels of nodes with inputs, other than these two:
          LOAD, STORE,
          MaxInputs,    \* bound on the inputs of an operation
          MaxNodes      \* bound on dwNodeCounter

ASSUME GraphsAssumption == FirstGraph \in Graphs
ASSUME BoundsAssumption ==
  /\ NumRegisters \in Nat /\ MaxNodes \in Nat /\ NumRegisters <= MaxNodes
  /\ MaxInputs \in Nat

VARIABLES
  oNode,         \* the node objects there are -> what they hold
  aIdMap,        \* graph -> the ids of its nodes
  aIndex,        \* graph -> (idx -> node), the map that the graph is
  dwNodeCounter, \* graph -> the next id
  aRegisters,    \* graph -> (register -> node), of the graph's builder
  aMemoryMap,    \* graph -> (id of an address -> node), of the graph's builder
  status,        \* graph -> what its builder does
  copyOf         \* graph -> the graph it is a copy of

graphVars == <<oNode, aIdMap, aIndex, dwNodeCounter>>
vars == <<graphVars, aRegisters, aMemoryMap, status, copyOf>>

Id(n) == n[2]
Ids(inputs) == [k \in DOMAIN inputs |-> Id(inputs[k])]

Nodes(g) == {<<g, i>> : i \in aIdMap[g]}

\* DFGraphImpl::FindNode by id: nullptr if there is none
NULL == <<>>
FindById(g, i) == IF i \in aIdMap[g] THEN <<g, i>> ELSE NULL

-----------------------------------------------------------------------------
(* InsertNode and FindNode *)

\* idx(): the label and the ids of the inputs
Idx(label, inputs) == <<label, Ids(inputs)>>

NewNode(label, inputs) ==
  [label |-> label, aInputNodes |-> inputs,
   aInputNodesUnique |-> Range(inputs), aOutputNodes |-> {}]

\* Mutant of WithNode: no output arcs
WithNodeUntied(n, label, inputs) ==
  [x \in DOMAIN oNode \cup {n} |->
     IF x = n THEN NewNode(label, inputs) ELSE oNode[x]]

\* the objects with the new one, n, which becomes an output of its inputs
WithNode(n, label, inputs) ==
  [x \in DOMAIN oNode \cup {n} |->
     IF x = n THEN NewNode(label, inputs)
     ELSE IF x \in Range(inputs) THEN [oNode[x] EXCEPT !.aOutputNodes = @ \cup {n}]
     ELSE oNode[x]]

\* the index of g with n; an entry that is there already stays
WithIndex(g, n, label, inputs) ==
  [k \in DOMAIN aIndex[g] \cup {Idx(label, inputs)} |->
     IF k \in DOMAIN aIndex[g] THEN aIndex[g][k] ELSE n]

InsertNode(g, label, inputs) ==
  LET n == <<g, dwNodeCounter[g]>>
  IN /\ dwNodeCounter[g] < MaxNodes
     /\ oNode' = WithNode(n, label, inputs)
     /\ aIdMap' = [aIdMap EXCEPT ![g] = @ \cup {Id(n)}]
     /\ aIndex' = [aIndex EXCEPT ![g] = WithIndex(g, n, label, inputs)]
     /\ dwNodeCounter' = [dwNodeCounter EXCEPT ![g] = @ + 1]

\* Mutant of Found: every node is inserted
FoundNever(g, label, inputs) == FALSE

Found(g, label, inputs) == Idx(label, inputs) \in DOMAIN aIndex[g]

\* BrokerImpl::FindNode: n is the node with the label and the inputs
FindNode(g, label, inputs, n) ==
  \/ /\ Found(g, label, inputs)
     /\ n = aIndex[g][Idx(label, inputs)]
     /\ UNCHANGED graphVars
  \/ /\ ~Found(g, label, inputs)
     /\ n = <<g, dwNodeCounter[g]>>
     /\ InsertNode(g, label, inputs)

-----------------------------------------------------------------------------
(* A builder at work *)

\* The nodes a builder holds, and the inputs of those: when it merges two
\* operations into one it uses the inputs of either.
Held(g) ==
  LET direct == Range(aRegisters[g]) \cup Range(aMemoryMap[g])
  IN direct \cup UNION {Range(oNode[n].aInputNodes) : n \in direct}

\* initialize: the processor makes the nodes of its registers
RegisterLabel(r) == <<"R", r>>
RegisterNumbers == 0..(NumRegisters - 1)

Init ==
  /\ oNode = [n \in {<<FirstGraph, r>> : r \in RegisterNumbers} |->
               NewNode(RegisterLabel(Id(n)), <<>>)]
  /\ aIdMap = [g \in Graphs |-> IF g = FirstGraph THEN RegisterNumbers ELSE {}]
  /\ aIndex = [g \in Graphs |->
                IF g # FirstGraph THEN <<>>
                ELSE [k \in {Idx(RegisterLabel(r), <<>>) : r \in RegisterNumbers} |->
                        <<g, k[1][2]>>]]
  /\ dwNodeCounter = [g \in Graphs |-> IF g = FirstGraph THEN NumRegisters ELSE 0]
  /\ aRegisters = [g \in Graphs |->
                    IF g # FirstGraph THEN <<>>
                    ELSE [r \in RegisterNumbers |-> <<g, r>>]]
  /\ aMemoryMap = [g \in Graphs |-> <<>>]
  /\ status = [g \in Graphs |-> IF g = FirstGraph THEN "building" ELSE "none"]
  /\ copyOf = [g \in Graphs |-> g]

SetRegister(g, r, n) == aRegisters' = [aRegisters EXCEPT ![g][r] = n]

\* a constant, or any operation that is not a load or a store
Operation(g, r) ==
  /\ status[g] = "building"
  /\ \E n \in Nodes(g) \cup {<<g, dwNodeCounter[g]>>} :
       /\ \/ \E label \in Leaves : FindNode(g, label, <<>>, n)
          \/ \E label \in Operations, k \in 1..MaxInputs :
               \E inputs \in [1..k -> Held(g)] : FindNode(g, label, inputs, n)
       /\ SetRegister(g, r, n)
  /\ UNCHANGED <<aMemoryMap, status, copyOf>>

NewLoad(g, r, address) ==
  /\ status[g] = "building"
  /\ IF Id(address) \in DOMAIN aMemoryMap[g]
     THEN /\ SetRegister(g, r, aMemoryMap[g][Id(address)])
          /\ UNCHANGED graphVars
     ELSE \E n \in Nodes(g) \cup {<<g, dwNodeCounter[g]>>} :
            FindNode(g, LOAD, <<address>>, n) /\ SetRegister(g, r, n)
  /\ UNCHANGED <<aMemoryMap, status, copyOf>>

NewStore(g, data, address) ==
  /\ status[g] = "building"
  /\ aMemoryMap' = [aMemoryMap EXCEPT ![g] =
       [i \in DOMAIN @ \cup {Id(address)} |-> IF i = Id(address) THEN data ELSE @[i]]]
  /\ \E n \in Nodes(g) \cup {<<g, dwNodeCounter[g]>>} :
       FindNode(g, STORE, <<data, address>>, n)
  /\ UNCHANGED <<aRegisters, status, copyOf>>

-----------------------------------------------------------------------------
(* fork *)

\* the fork goes on numbering its nodes where the graph is
CounterOfFork(g) == dwNodeCounter[g]

BeginFork(g, h) ==
  /\ status[g] = "building" /\ status[h] = "none"
  /\ status' = [status EXCEPT ![g] = "forking", ![h] = "copying"]
  /\ copyOf' = [copyOf EXCEPT ![h] = g]
  /\ dwNodeCounter' = [dwNodeCounter EXCEPT ![h] = CounterOfFork(g)]
  /\ UNCHANGED <<oNode, aIdMap, aIndex, aRegisters, aMemoryMap>>

\* Mutant of CopiedInputs: the inputs themselves, not their copies
SharedInputs(h, n) == oNode[n].aInputNodes

\* Mutant of CopiedInputs: the inputs without repetitions
CopiedInputsUnique(h, n) ==
  SetToSeq({<<h, Id(m)>> : m \in oNode[n].aInputNodesUnique})

\* the nodes in h with the ids of n's inputs
CopiedInputs(h, n) == [k \in DOMAIN oNode[n].aInputNodes |->
                         <<h, Id(oNode[n].aInputNodes[k])>>]

(***************************************************************************)
(* CopyNode, which copies a node's inputs before the node: in any order     *)
(* that does.                                                               *)
(***************************************************************************)
CopyNode(h, i) ==
  LET n == <<copyOf[h], i>>
      inputs == CopiedInputs(h, n)
  IN /\ status[h] = "copying"
     /\ i \in aIdMap[copyOf[h]] \ aIdMap[h]
     /\ \A k \in DOMAIN inputs : Id(inputs[k]) \in aIdMap[h]
     /\ oNode' = WithNode(<<h, i>>, oNode[n].label, inputs)
     /\ aIdMap' = [aIdMap EXCEPT ![h] = @ \cup {i}]
     /\ aIndex' = [aIndex EXCEPT ![h] = WithIndex(h, <<h, i>>, oNode[n].label, inputs)]
     /\ UNCHANGED <<dwNodeCounter, aRegisters, aMemoryMap, status, copyOf>>

\* Mutant of MemoryMapOfFork: the values stay those of the other graph
MemoryMapShared(h, values) == values

\* the values of the memory map, looked up in h
MemoryMapOfFork(h, values) ==
  [i \in DOMAIN values |-> FindById(h, Id(values[i]))]

\* Migrate: the registers, looked up in h
RegistersOfFork(h, values) ==
  [r \in DOMAIN values |-> FindById(h, Id(values[r]))]

\* every node is copied: the fork of the builder is ready
EndFork(h) ==
  /\ status[h] = "copying"
  /\ aIdMap[h] = aIdMap[copyOf[h]]
  /\ aRegisters' = [aRegisters EXCEPT ![h] = RegistersOfFork(h, aRegisters[copyOf[h]])]
  /\ aMemoryMap' = [aMemoryMap EXCEPT ![h] = MemoryMapOfFork(h, aMemoryMap[copyOf[h]])]
  /\ status' = [status EXCEPT ![h] = "building", ![copyOf[h]] = "building"]
  /\ UNCHANGED <<graphVars, copyOf>>

\* a node is more than dwStackSize inputs deep: the copy is dropped
FailFork(h) ==
  /\ status[h] = "copying"
  /\ status' = [status EXCEPT ![h] = "none", ![copyOf[h]] = "building"]
  /\ oNode' = [n \in DOMAIN oNode \ Nodes(h) |-> oNode[n]]
  /\ aIdMap' = [aIdMap EXCEPT ![h] = {}]
  /\ aIndex' = [aIndex EXCEPT ![h] = <<>>]
  /\ dwNodeCounter' = [dwNodeCounter EXCEPT ![h] = 0]
  /\ copyOf' = [copyOf EXCEPT ![h] = h]
  /\ UNCHANGED <<aRegisters, aMemoryMap>>

Build(g) ==
  \/ \E r \in RegisterNumbers : Operation(g, r)
  \/ \E r \in RegisterNumbers, address \in Held(g) : NewLoad(g, r, address)
  \/ \E data, address \in Held(g) : NewStore(g, data, address)

Fork(h) ==
  \/ \E g \in Graphs : BeginFork(g, h)
  \/ \E i \in aIdMap[copyOf[h]] : CopyNode(h, i)
  \/ EndFork(h)
  \/ FailFork(h)

Next == \E g \in Graphs : Build(g) \/ Fork(g)

Spec == Init /\ [][Next]_vars

-----------------------------------------------------------------------------
(* Properties *)

\* A node is newer than its inputs, in a fork too: the graph has no cycles,
\* which CopyNode's and Cleanup's recursion rely on.
InputsAreOlder ==
  \A n \in DOMAIN oNode : \A m \in Range(oNode[n].aInputNodes) : Id(m) < Id(n)

(***************************************************************************)
(* Whatever a builder can reach is a node of its own graph: its registers,  *)
(* the values of its memory map, and the inputs and outputs of its nodes.   *)
(* So no two threads ever change the same node.                             *)
(***************************************************************************)
Isolated ==
  \A g \in Graphs :
    /\ Nodes(g) \subseteq DOMAIN oNode
    /\ Range(aRegisters[g]) \cup Range(aMemoryMap[g]) \subseteq Nodes(g)
    /\ Range(aIndex[g]) \subseteq Nodes(g)
    /\ \A n \in Nodes(g) :
         /\ Range(oNode[n].aInputNodes) \subseteq Nodes(g)
         /\ oNode[n].aOutputNodes \subseteq Nodes(g)

(***************************************************************************)
(* The arcs match: a node is an output of its inputs, and of no others; and *)
(* they lead from older nodes to newer ones.                                *)
(***************************************************************************)
ArcsMatch ==
  /\ InputsAreOlder
  /\ \A g \in Graphs : \A m, n \in Nodes(g) :
       /\ n \in oNode[m].aOutputNodes <=> m \in Range(oNode[n].aInputNodes)
       /\ n \in oNode[m].aOutputNodes <=> m \in oNode[n].aInputNodesUnique

(***************************************************************************)
(* An expression has one node: the index of a graph finds each of its nodes *)
(* by its label and inputs, so that pointers are compared for expressions.  *)
(***************************************************************************)
IndexExact ==
  \A g \in Graphs :
    /\ \A n \in Nodes(g) :
         LET k == Idx(oNode[n].label, oNode[n].aInputNodes)
         IN k \in DOMAIN aIndex[g] /\ aIndex[g][k] = n
    /\ \A k \in DOMAIN aIndex[g] :
         \E n \in Nodes(g) : k = Idx(oNode[n].label, oNode[n].aInputNodes)

(***************************************************************************)
(* Every value in the memory map was stored by a node of this graph: the    *)
(* STORE of that value to that address, which is the one that ShouldClean-  *)
(* Node does not take for overwritten.                                      *)
(***************************************************************************)
StoresMatch ==
  \A g \in Graphs : \A i \in DOMAIN aMemoryMap[g] :
    \E n \in Nodes(g) : /\ oNode[n].label = STORE
                        /\ oNode[n].aInputNodes = <<aMemoryMap[g][i], <<g, i>>>>

\* What a graph and its builder are, but for which graph it is.
Contents(g) ==
  [nodes |-> [i \in aIdMap[g] |->
                LET n == oNode[<<g, i>>]
                IN <<n.label, Ids(n.aInputNodes), {Id(m) : m \in n.aInputNodesUnique},
                     {Id(m) : m \in n.aOutputNodes}>>],
   registers |-> Ids(aRegisters[g]), memory |-> Ids(aMemoryMap[g]),
   counter |-> dwNodeCounter[g]]

(***************************************************************************)
(* A fork starts out as an exact copy of its builder, and copying leaves    *)
(* the builder as it was.                                                   *)
(***************************************************************************)
ForkIsCopy ==
  [][\A h \in Graphs : status[h] = "copying" /\ status'[h] = "building" =>
       Contents(h)' = Contents(copyOf[h])]_vars
=============================================================================
