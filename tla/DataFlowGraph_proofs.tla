------------------------- MODULE DataFlowGraph_proofs -------------------------
(***************************************************************************)
(* The graphs of the builders of a function share nothing, their arcs match *)
(* and an expression has one node, for any number of forks, of forks of     *)
(* forks, and of nodes; and a fork is a copy.                               *)
(*                                                                          *)
(* The argument: a builder reaches the nodes of its own graph only, as long *)
(* as the inputs it uses, what the index finds and what the memory map and  *)
(* the registers hold are such nodes; a fork looks all of them up by id in  *)
(* its own graph, and finds them there because the graph it is copied from  *)
(* rests until the copy is complete.                                        *)
(***************************************************************************)
EXTENDS DataFlowGraph, TLAPS

(***************************************************************************)
(* The inductive invariant.                                                 *)
(***************************************************************************)

Key(n) == Idx(oNode[n].label, oNode[n].aInputNodes)

IsFcn(f) == f = [k \in DOMAIN f |-> f[k]]

IsNode(x) ==
  /\ x = [label |-> x.label, aInputNodes |-> x.aInputNodes,
          aInputNodesUnique |-> Range(x.aInputNodes), aOutputNodes |-> x.aOutputNodes]
  /\ IsFcn(x.aInputNodes)

\* The nodes of g are objects, and lead to older nodes of g.
NodesSound(g) ==
  \A n \in Nodes(g) :
    /\ n \in DOMAIN oNode
    /\ IsNode(oNode[n])
    /\ Range(oNode[n].aInputNodes) \subseteq Nodes(g)
    /\ oNode[n].aOutputNodes \subseteq Nodes(g)
    /\ \A m \in Range(oNode[n].aInputNodes) : Id(m) < Id(n)

ArcsSound(g) ==
  \A m, n \in Nodes(g) : n \in oNode[m].aOutputNodes <=> m \in Range(oNode[n].aInputNodes)

IndexSound(g) ==
  /\ \A n \in Nodes(g) : Key(n) \in DOMAIN aIndex[g] /\ aIndex[g][Key(n)] = n
  /\ \A k \in DOMAIN aIndex[g] : \E n \in Nodes(g) : k = Key(n)

\* Graphs and objects belong together.
GraphsTyped ==
  /\ aIdMap \in [Graphs -> SUBSET Nat]
  /\ DOMAIN aIndex = Graphs
  /\ \A n \in DOMAIN oNode : \E g \in Graphs : n \in Nodes(g)

GraphsSound ==
  /\ GraphsTyped
  /\ \A g \in Graphs : NodesSound(g) /\ ArcsSound(g) /\ IndexSound(g)

BuildersTyped ==
  /\ dwNodeCounter \in [Graphs -> Nat]
  /\ status \in [Graphs -> {"none", "building", "forking", "copying"}]
  /\ copyOf \in [Graphs -> Graphs]
  /\ DOMAIN aRegisters = Graphs /\ DOMAIN aMemoryMap = Graphs

\* The ids of a graph are those that were given out.
Numbered(g) == \A i \in aIdMap[g] : i < dwNodeCounter[g]

\* What the builder of g holds.
BuilderSound(g) ==
  /\ Range(aRegisters[g]) \subseteq Nodes(g)
  /\ Range(aMemoryMap[g]) \subseteq Nodes(g)
  /\ \A i \in DOMAIN aMemoryMap[g] :
       \E n \in Nodes(g) : /\ oNode[n].label = STORE
                           /\ oNode[n].aInputNodes = <<aMemoryMap[g][i], <<g, i>>>>

\* A graph that is not there, or no longer.
UnusedSound(g) ==
  status[g] = "none" =>
    aIdMap[g] = {} /\ aIndex[g] = <<>> /\ aRegisters[g] = <<>> /\ aMemoryMap[g] = <<>>

\* Inputs, looked up in h by their ids.
InGraph(h, inputs) == [k \in DOMAIN inputs |-> <<h, Id(inputs[k])>>]

\* A graph that is being copied into h rests, and h has a part of it.
CopySound(h) ==
  status[h] = "copying" =>
    /\ status[copyOf[h]] = "forking"
    /\ aRegisters[h] = <<>> /\ aMemoryMap[h] = <<>>
    /\ dwNodeCounter[h] = dwNodeCounter[copyOf[h]]
    /\ aIdMap[h] \subseteq aIdMap[copyOf[h]]
    /\ \A i \in aIdMap[h] :
         /\ oNode[<<h, i>>].label = oNode[<<copyOf[h], i>>].label
         /\ oNode[<<h, i>>].aInputNodes = InGraph(h, oNode[<<copyOf[h], i>>].aInputNodes)
    /\ \A g \in Graphs : status[g] = "copying" /\ copyOf[g] = copyOf[h] => g = h

IInv ==
  /\ GraphsSound
  /\ BuildersTyped
  /\ \A g \in Graphs : Numbered(g) /\ BuilderSound(g) /\ UnusedSound(g) /\ CopySound(g)

-----------------------------------------------------------------------------
(* Nodes and keys *)

LEMMA NodesFacts ==
  ASSUME NEW g, NEW n
  PROVE  n \in Nodes(g) <=> \E i \in aIdMap[g] : n = <<g, i>> /\ Id(n) = i
BY DEF Nodes, Id

\* Nothing is in an empty function.
LEMMA EmptyFacts == DOMAIN <<>> = {} /\ Range(<<>>) = {} /\ IsFcn(<<>>)
BY DEF Range, IsFcn

\* Within a graph, the ids tell the inputs.
LEMMA SameInputs ==
  ASSUME NEW g \in Graphs, NEW f1, NEW f2, IsFcn(f1), IsFcn(f2),
         Range(f1) \subseteq Nodes(g), Range(f2) \subseteq Nodes(g), Ids(f1) = Ids(f2)
  PROVE  f1 = f2
<1>1. DOMAIN f1 = DOMAIN f2
  BY DEF Ids
<1>2. \A k \in DOMAIN f1 : f1[k] = f2[k]
  <2> TAKE k \in DOMAIN f1
  <2>1. f1[k] \in Nodes(g) /\ f2[k] \in Nodes(g)
    BY <1>1 DEF Range
  <2>2. Id(f1[k]) = Id(f2[k])
    <3>1. Ids(f1)[k] = Id(f1[k]) /\ Ids(f2)[k] = Id(f2[k])
      BY <1>1 DEF Ids
    <3> QED  BY <3>1
  <2> QED  BY <2>1, <2>2, NodesFacts
<1> QED  BY <1>1, <1>2 DEF IsFcn

\* A node is told by its key.
LEMMA KeyFacts ==
  ASSUME GraphsSound, NEW g \in Graphs, NEW n \in Nodes(g), NEW m \in Nodes(g),
         Key(n) = Key(m)
  PROVE  n = m
BY DEF GraphsSound, IndexSound

-----------------------------------------------------------------------------
(* A node is inserted *)

(***************************************************************************)
(* A new node, made of nodes of its graph, whose expression is not in the   *)
(* index: the graph stays sound, and the others what they are.              *)
(***************************************************************************)
LEMMA InsertFacts ==
  ASSUME GraphsSound, NEW g \in Graphs, NEW i \in Nat, i \notin aIdMap[g],
         NEW label, NEW inputs, Range(inputs) \subseteq Nodes(g),
         oNode' = WithNode(<<g, i>>, label, inputs),
         aIdMap' = [aIdMap EXCEPT ![g] = @ \cup {i}]
  PROVE  /\ \A h \in Graphs : Nodes(h)' = IF h = g THEN Nodes(g) \cup {<<g, i>>} ELSE Nodes(h)
         /\ <<g, i>> \notin Nodes(g)
         /\ <<g, i>> \notin DOMAIN oNode
         /\ DOMAIN oNode' = DOMAIN oNode \cup {<<g, i>>}
         /\ oNode'[<<g, i>>] = NewNode(label, inputs)
         /\ \A h \in Graphs \ {g} : \A n \in Nodes(h) : oNode'[n] = oNode[n]
         /\ \A n \in Nodes(g) :
              /\ IsNode(oNode'[n])
              /\ oNode'[n].label = oNode[n].label
              /\ oNode'[n].aInputNodes = oNode[n].aInputNodes
              /\ oNode'[n].aOutputNodes = IF n \in Range(inputs) THEN oNode[n].aOutputNodes \cup {<<g, i>>}
                                          ELSE oNode[n].aOutputNodes
<1> DEFINE new == <<g, i>>
<1>1. \A h \in Graphs : Nodes(h)' = IF h = g THEN Nodes(g) \cup {new} ELSE Nodes(h)
  BY DEF GraphsSound, GraphsTyped, Nodes
<1>2. \A h \in Graphs : new \notin Nodes(h)
  BY DEF Nodes
<1>3. new \notin DOMAIN oNode
  BY <1>2 DEF GraphsSound, GraphsTyped
<1>4. /\ DOMAIN oNode' = DOMAIN oNode \cup {new}
      /\ \A n \in DOMAIN oNode \cup {new} :
           oNode'[n] = IF n = new THEN NewNode(label, inputs)
                       ELSE IF n \in Range(inputs)
                            THEN [oNode[n] EXCEPT !.aOutputNodes = @ \cup {new}]
                            ELSE oNode[n]
  BY DEF WithNode
<1>5. \A h \in Graphs : \A n \in Nodes(h) : n \in DOMAIN oNode /\ n # new
  BY <1>2 DEF GraphsSound, NodesSound
<1>6. \A h \in Graphs \ {g} : \A n \in Nodes(h) : oNode'[n] = oNode[n]
  <2> SUFFICES ASSUME NEW h \in Graphs \ {g}, NEW n \in Nodes(h)
               PROVE  oNode'[n] = oNode[n]
    OBVIOUS
  <2>1. n \notin Range(inputs)
    BY DEF Nodes
  <2> QED  BY <1>4, <1>5, <2>1
<1>7. ASSUME NEW n \in Nodes(g)
      PROVE  /\ IsNode(oNode'[n])
             /\ oNode'[n].label = oNode[n].label
             /\ oNode'[n].aInputNodes = oNode[n].aInputNodes
             /\ oNode'[n].aOutputNodes = IF n \in Range(inputs) THEN oNode[n].aOutputNodes \cup {new}
                                         ELSE oNode[n].aOutputNodes
  <2>1. IsNode(oNode[n])
    BY <1>7 DEF GraphsSound, NodesSound
  <2>2. CASE n \in Range(inputs)
    <3>1. oNode'[n] = [oNode[n] EXCEPT !.aOutputNodes = @ \cup {new}]
      BY <1>4, <1>5, <2>2
    <3> HIDE DEF new
    <3> QED  BY <2>1, <2>2, <3>1 DEF IsNode
  <2>3. CASE n \notin Range(inputs)
    BY <1>4, <1>5, <2>1, <2>3
  <2> QED  BY <2>2, <2>3
<1> QED  BY <1>1, <1>2, <1>3, <1>4, <1>6, <1>7

LEMMA InsertSound ==
  ASSUME GraphsSound, NEW g \in Graphs, NEW i \in Nat, i \notin aIdMap[g],
         NEW label, NEW inputs, IsFcn(inputs), Range(inputs) \subseteq Nodes(g),
         \A m \in Range(inputs) : Id(m) < i,
         Idx(label, inputs) \notin DOMAIN aIndex[g],
         oNode' = WithNode(<<g, i>>, label, inputs),
         aIdMap' = [aIdMap EXCEPT ![g] = @ \cup {i}],
         aIndex' = [aIndex EXCEPT ![g] = WithIndex(g, <<g, i>>, label, inputs)]
  PROVE  GraphsSound'
<1> DEFINE new == <<g, i>>
           k0 == Idx(label, inputs)
<1>1. /\ \A h \in Graphs : Nodes(h)' = IF h = g THEN Nodes(g) \cup {new} ELSE Nodes(h)
      /\ new \notin Nodes(g)
      /\ DOMAIN oNode' = DOMAIN oNode \cup {new}
      /\ oNode'[new] = NewNode(label, inputs)
      /\ \A h \in Graphs \ {g} : \A n \in Nodes(h) : oNode'[n] = oNode[n]
  <2>1. \A h \in Graphs : Nodes(h)' = IF h = g THEN Nodes(g) \cup {new} ELSE Nodes(h)
    BY InsertFacts
  <2>2. new \notin Nodes(g)
    BY InsertFacts
  <2>3. DOMAIN oNode' = DOMAIN oNode \cup {new}
    BY InsertFacts
  <2>4. oNode'[new] = NewNode(label, inputs)
    BY DEF WithNode
  <2>5. \A h \in Graphs \ {g} : \A n \in Nodes(h) : oNode'[n] = oNode[n]
    BY InsertFacts
  <2> QED  BY <2>1, <2>2, <2>3, <2>4, <2>5
<1>2. \A n \in Nodes(g) :
        /\ IsNode(oNode'[n])
        /\ oNode'[n].label = oNode[n].label
        /\ oNode'[n].aInputNodes = oNode[n].aInputNodes
        /\ oNode'[n].aOutputNodes = IF n \in Range(inputs) THEN oNode[n].aOutputNodes \cup {new}
                                    ELSE oNode[n].aOutputNodes
  BY InsertFacts
<1>3. /\ IsNode(oNode'[new])
      /\ oNode'[new].label = label /\ oNode'[new].aInputNodes = inputs
      /\ oNode'[new].aOutputNodes = {}
  BY <1>1 DEF NewNode, IsNode
<1>4. Id(new) = i
  BY DEF Id
<1>5. /\ DOMAIN aIndex' = Graphs
      /\ \A h \in Graphs \ {g} : aIndex'[h] = aIndex[h]
      /\ DOMAIN aIndex'[g] = DOMAIN aIndex[g] \cup {k0}
      /\ \A k \in DOMAIN aIndex[g] : aIndex'[g][k] = aIndex[g][k]
      /\ aIndex'[g][k0] = new
  BY DEF GraphsSound, GraphsTyped, WithIndex
<1>6. \A h \in Graphs : NodesSound(h) /\ ArcsSound(h) /\ IndexSound(h)
  BY DEF GraphsSound
<1> HIDE DEF new, k0
<1>7. GraphsTyped'
  <2>1. aIdMap' \in [Graphs -> SUBSET Nat]
    BY DEF GraphsSound, GraphsTyped
  <2>2. \A n \in DOMAIN oNode' : \E h \in Graphs : n \in Nodes(h)'
    BY <1>1 DEF GraphsSound, GraphsTyped
  <2> QED  BY <1>5, <2>1, <2>2 DEF GraphsTyped
<1>8. \A h \in Graphs \ {g} : NodesSound(h)' /\ ArcsSound(h)' /\ IndexSound(h)'
  <2> TAKE h \in Graphs \ {g}
  <2>1. /\ Nodes(h)' = Nodes(h) /\ aIndex'[h] = aIndex[h]
        /\ \A n \in Nodes(h) : oNode'[n] = oNode[n]
    BY <1>1, <1>5
  <2>2. NodesSound(h)'
    BY <1>1, <1>6, <2>1 DEF NodesSound
  <2>3. ArcsSound(h)'
    BY <1>6, <2>1 DEF ArcsSound
  <2>4. IndexSound(h)'
    BY <1>6, <2>1 DEF IndexSound, Key
  <2> QED  BY <2>2, <2>3, <2>4
<1>9. NodesSound(g)'
  <2>1. ASSUME NEW n \in Nodes(g)
        PROVE  /\ n \in DOMAIN oNode' /\ IsNode(oNode'[n])
               /\ Range(oNode'[n].aInputNodes) \subseteq Nodes(g)'
               /\ oNode'[n].aOutputNodes \subseteq Nodes(g)'
               /\ \A m \in Range(oNode'[n].aInputNodes) : Id(m) < Id(n)
    BY <1>1, <1>2, <1>6, <2>1 DEF NodesSound
  <2>2. /\ new \in DOMAIN oNode' /\ IsNode(oNode'[new])
        /\ Range(oNode'[new].aInputNodes) \subseteq Nodes(g)'
        /\ oNode'[new].aOutputNodes \subseteq Nodes(g)'
        /\ \A m \in Range(oNode'[new].aInputNodes) : Id(m) < Id(new)
    BY <1>1, <1>3, <1>4
  <2> QED  BY <1>1, <2>1, <2>2 DEF NodesSound
<1>10. ArcsSound(g)'
  <2> SUFFICES ASSUME NEW m \in Nodes(g) \cup {new}, NEW n \in Nodes(g) \cup {new}
               PROVE  n \in oNode'[m].aOutputNodes <=> m \in Range(oNode'[n].aInputNodes)
    BY <1>1 DEF ArcsSound
  <2>1. CASE m \in Nodes(g) /\ n \in Nodes(g)
    <3>1. n # new /\ oNode'[n].aInputNodes = oNode[n].aInputNodes
      BY <1>1, <1>2, <2>1
    <3>2. n \in oNode'[m].aOutputNodes <=> n \in oNode[m].aOutputNodes
      BY <1>2, <2>1, <3>1
    <3>3. n \in oNode[m].aOutputNodes <=> m \in Range(oNode[n].aInputNodes)
      BY <1>6, <2>1 DEF ArcsSound
    <3> QED  BY <3>1, <3>2, <3>3
  <2>2. CASE m \in Nodes(g) /\ n = new
    BY <1>1, <1>2, <1>3, <1>6, <2>2 DEF NodesSound
  <2>3. CASE m = new
    <3>1. new \notin Range(oNode'[n].aInputNodes)
      BY <1>1, <1>2, <1>3, <1>6 DEF NodesSound
    <3> QED  BY <1>3, <2>3, <3>1
  <2> QED  BY <2>1, <2>2, <2>3
<1>11. IndexSound(g)'
  <2>1. \A n \in Nodes(g) : Key(n)' = Key(n)
    BY <1>2 DEF Key
  <2>2. Idx(oNode'[new].label, oNode'[new].aInputNodes) = k0
    BY <1>3 DEF k0
  <2>3. \A n \in Nodes(g) \cup {new} : LET k == Idx(oNode'[n].label, oNode'[n].aInputNodes)
                                      IN k \in DOMAIN aIndex'[g] /\ aIndex'[g][k] = n
    BY <1>5, <1>6, <2>1, <2>2 DEF IndexSound, Key
  <2>4. \A k \in DOMAIN aIndex'[g] :
          \E n \in Nodes(g) \cup {new} : k = Idx(oNode'[n].label, oNode'[n].aInputNodes)
    BY <1>5, <1>6, <2>1, <2>2 DEF IndexSound, Key
  <2> QED  BY <1>1, <2>3, <2>4 DEF IndexSound, Key
<1> QED  BY <1>7, <1>8, <1>9, <1>10, <1>11 DEF GraphsSound

(***************************************************************************)
(* FindNode: whether the node is found or inserted, it is a node of the     *)
(* graph with that label and those inputs.                                  *)
(***************************************************************************)
LEMMA FindNodeSound ==
  ASSUME GraphsSound, BuildersTyped, NEW g \in Graphs, Numbered(g), NEW label, NEW inputs,
         IsFcn(inputs), Range(inputs) \subseteq Nodes(g), NEW n, FindNode(g, label, inputs, n)
  PROVE  /\ GraphsSound'
         /\ Numbered(g)'
         /\ dwNodeCounter' \in [Graphs -> Nat]
         /\ \A h \in Graphs \ {g} : /\ aIdMap'[h] = aIdMap[h] /\ aIndex'[h] = aIndex[h]
                                    /\ dwNodeCounter'[h] = dwNodeCounter[h]
                                    /\ \A m \in Nodes(h) : oNode'[m] = oNode[m]
         /\ Nodes(g) \subseteq Nodes(g)'
         /\ \A m \in Nodes(g) : /\ oNode'[m].label = oNode[m].label
                                /\ oNode'[m].aInputNodes = oNode[m].aInputNodes
         /\ n \in Nodes(g)' /\ oNode'[n].label = label /\ oNode'[n].aInputNodes = inputs
<1>1. CASE Found(g, label, inputs) /\ n = aIndex[g][Idx(label, inputs)] /\ UNCHANGED graphVars
  <2>1. PICK m \in Nodes(g) : Idx(label, inputs) = Key(m)
    BY <1>1 DEF Found, GraphsSound, IndexSound
  <2>2. n = m
    BY <1>1, <2>1 DEF GraphsSound, IndexSound
  <2>3. oNode[m].label = label /\ Ids(oNode[m].aInputNodes) = Ids(inputs)
    BY <2>1 DEF Key, Idx
  <2>4. IsFcn(oNode[m].aInputNodes) /\ Range(oNode[m].aInputNodes) \subseteq Nodes(g)
    BY DEF GraphsSound, NodesSound, IsNode
  <2>5. oNode[m].aInputNodes = inputs
    BY <2>3, <2>4, SameInputs
  <2>6. /\ oNode' = oNode /\ aIdMap' = aIdMap /\ aIndex' = aIndex
        /\ dwNodeCounter' = dwNodeCounter /\ \A h : Nodes(h)' = Nodes(h)
    BY <1>1 DEF graphVars, Nodes
  <2>7. GraphsSound'
    BY <2>6 DEF GraphsSound, GraphsTyped, NodesSound, ArcsSound, IndexSound, Key
  <2>8. Numbered(g)' /\ dwNodeCounter' \in [Graphs -> Nat]
    BY <2>6 DEF Numbered, BuildersTyped
  <2> QED  BY <2>2, <2>3, <2>5, <2>6, <2>7, <2>8
<1>2. CASE ~Found(g, label, inputs) /\ n = <<g, dwNodeCounter[g]>> /\ InsertNode(g, label, inputs)
  <2> DEFINE i == dwNodeCounter[g]
  <2>1. i \in Nat /\ i \notin aIdMap[g] /\ Id(n) = i
    BY <1>2 DEF BuildersTyped, Numbered, Id
  <2>2. \A m \in Range(inputs) : Id(m) < i
    BY NodesFacts DEF Numbered
  <2>3. /\ oNode' = WithNode(<<g, i>>, label, inputs)
        /\ aIdMap' = [aIdMap EXCEPT ![g] = @ \cup {i}]
        /\ aIndex' = [aIndex EXCEPT ![g] = WithIndex(g, <<g, i>>, label, inputs)]
        /\ dwNodeCounter' = [dwNodeCounter EXCEPT ![g] = @ + 1]
    BY <1>2, <2>1 DEF InsertNode
  <2>4. Idx(label, inputs) \notin DOMAIN aIndex[g] /\ n = <<g, i>>
    BY <1>2 DEF Found
  <2> HIDE DEF i
  <2>5. GraphsSound'
    BY <2>1, <2>2, <2>3, <2>4, InsertSound
  <2>6. /\ \A h \in Graphs : Nodes(h)' = IF h = g THEN Nodes(g) \cup {n} ELSE Nodes(h)
        /\ \A h \in Graphs \ {g} : \A m \in Nodes(h) : oNode'[m] = oNode[m]
    <3>1. \A h \in Graphs : Nodes(h)' = IF h = g THEN Nodes(g) \cup {<<g, i>>} ELSE Nodes(h)
      BY <2>1, <2>3, InsertFacts
    <3>2. \A h \in Graphs \ {g} : \A m \in Nodes(h) : oNode'[m] = oNode[m]
      BY <2>1, <2>3, InsertFacts
    <3> QED  BY <2>4, <3>1, <3>2
  <2>7. \A m \in Nodes(g) : /\ oNode'[m].label = oNode[m].label
                            /\ oNode'[m].aInputNodes = oNode[m].aInputNodes
    BY <2>1, <2>3, InsertFacts
  <2>8. oNode'[n].label = label /\ oNode'[n].aInputNodes = inputs
    <3>1. oNode'[n] = NewNode(label, inputs)
      BY <2>3, <2>4 DEF WithNode
    <3> QED  BY <3>1 DEF NewNode
  <2>9. /\ aIdMap \in [Graphs -> SUBSET Nat] /\ DOMAIN aIndex = Graphs
        /\ dwNodeCounter \in [Graphs -> Nat]
    BY DEF GraphsSound, GraphsTyped, BuildersTyped
  <2>10. /\ dwNodeCounter' \in [Graphs -> Nat] /\ dwNodeCounter'[g] = i + 1
         /\ aIdMap'[g] = aIdMap[g] \cup {i}
         /\ \A h \in Graphs \ {g} : /\ aIdMap'[h] = aIdMap[h] /\ aIndex'[h] = aIndex[h]
                                    /\ dwNodeCounter'[h] = dwNodeCounter[h]
    BY <2>1, <2>3, <2>9 DEF i
  <2>11. Numbered(g)'
    BY <2>1, <2>9, <2>10 DEF Numbered, i
  <2> QED  BY <2>5, <2>6, <2>7, <2>8, <2>10, <2>11
<1> QED  BY <1>1, <1>2 DEF FindNode

-----------------------------------------------------------------------------
(* A builder at work *)

\* What was stored by a node of g is so as long as the nodes are there.
LEMMA StoresKept ==
  ASSUME NEW g \in Graphs, BuilderSound(g), aMemoryMap'[g] = aMemoryMap[g],
         Nodes(g) \subseteq Nodes(g)',
         \A m \in Nodes(g) : /\ oNode'[m].label = oNode[m].label
                             /\ oNode'[m].aInputNodes = oNode[m].aInputNodes
  PROVE  \A i \in DOMAIN aMemoryMap'[g] :
           \E m \in Nodes(g)' : /\ oNode'[m].label = STORE
                                /\ oNode'[m].aInputNodes = <<aMemoryMap'[g][i], <<g, i>>>>
<1> TAKE i \in DOMAIN aMemoryMap'[g]
<1> DEFINE stored == <<aMemoryMap[g][i], <<g, i>>>>
<1>1. PICK m \in Nodes(g) : oNode[m].label = STORE /\ oNode[m].aInputNodes = stored
  BY DEF BuilderSound
<1>2. stored = <<aMemoryMap'[g][i], <<g, i>>>>
  OBVIOUS
<1> HIDE DEF stored
<1> QED  BY <1>1, <1>2

(***************************************************************************)
(* What a building step of g leaves as it was: the other graphs, and in g   *)
(* the nodes it had.                                                        *)
(***************************************************************************)
OthersKept(g) ==
  \A h \in Graphs \ {g} : /\ aIdMap'[h] = aIdMap[h] /\ aIndex'[h] = aIndex[h]
                          /\ dwNodeCounter'[h] = dwNodeCounter[h]
                          /\ aRegisters'[h] = aRegisters[h] /\ aMemoryMap'[h] = aMemoryMap[h]
                          /\ \A m \in Nodes(h) : oNode'[m] = oNode[m]

\* A step of a builder at work, which keeps its own graph sound.
LEMMA BuildFrame ==
  ASSUME IInv, NEW g \in Graphs, status[g] = "building", OthersKept(g),
         GraphsSound', BuildersTyped', Numbered(g)', BuilderSound(g)',
         UNCHANGED <<status, copyOf>>
  PROVE  IInv'
<1>1. /\ \A h \in Graphs : Numbered(h) /\ BuilderSound(h) /\ UnusedSound(h) /\ CopySound(h)
      /\ copyOf \in [Graphs -> Graphs]
  BY DEF IInv, BuildersTyped
<1>2. \A h \in Graphs \ {g} : Nodes(h)' = Nodes(h)
  BY DEF OthersKept, Nodes
<1>3. ASSUME NEW h \in Graphs \ {g}
      PROVE  Numbered(h)' /\ BuilderSound(h)' /\ UnusedSound(h)'
  <2>1. Numbered(h)'
    BY <1>1 DEF OthersKept, Numbered
  <2>2. BuilderSound(h)'
    <3>1. /\ aRegisters'[h] = aRegisters[h] /\ aMemoryMap'[h] = aMemoryMap[h]
          /\ Nodes(h)' = Nodes(h) /\ \A m \in Nodes(h) : oNode'[m] = oNode[m]
      BY <1>2 DEF OthersKept
    <3>2. \A i \in DOMAIN aMemoryMap'[h] :
            \E m \in Nodes(h)' : /\ oNode'[m].label = STORE
                                 /\ oNode'[m].aInputNodes = <<aMemoryMap'[h][i], <<h, i>>>>
      BY <1>1, <3>1, StoresKept
    <3> QED  BY <1>1, <3>1, <3>2 DEF BuilderSound
  <2>3. UnusedSound(h)'
    BY <1>1 DEF OthersKept, UnusedSound
  <2> QED  BY <2>1, <2>2, <2>3
<1>4. UnusedSound(g)'
  BY DEF UnusedSound
<1>5. ASSUME NEW h \in Graphs  PROVE  CopySound(h)'
  <2> SUFFICES ASSUME status[h] = "copying"  PROVE  CopySound(h)'
    BY DEF CopySound
  <2>1. h # g /\ copyOf[h] \in Graphs \ {g}
    BY <1>1 DEF CopySound
  <2>2. \A i \in aIdMap[h] : /\ i \in aIdMap[copyOf[h]]
                             /\ oNode'[<<h, i>>] = oNode[<<h, i>>]
                             /\ oNode'[<<copyOf[h], i>>] = oNode[<<copyOf[h], i>>]
    BY <1>1, <2>1 DEF CopySound, OthersKept, Nodes
  <2>3. CopySound(h)
    BY <1>1
  <2>4. /\ aIdMap'[h] = aIdMap[h] /\ aIdMap'[copyOf[h]] = aIdMap[copyOf[h]]
        /\ dwNodeCounter'[h] = dwNodeCounter[h]
        /\ dwNodeCounter'[copyOf[h]] = dwNodeCounter[copyOf[h]]
        /\ aRegisters'[h] = aRegisters[h] /\ aMemoryMap'[h] = aMemoryMap[h]
        /\ status' = status /\ copyOf' = copyOf
    BY <2>1 DEF OthersKept
  <2>5. \A i \in aIdMap[h] :
          /\ oNode'[<<h, i>>].label = oNode'[<<copyOf[h], i>>].label
          /\ oNode'[<<h, i>>].aInputNodes = InGraph(h, oNode'[<<copyOf[h], i>>].aInputNodes)
    BY <2>2, <2>3 DEF CopySound
  <2>6. /\ status[copyOf[h]] = "forking"
        /\ aRegisters[h] = <<>> /\ aMemoryMap[h] = <<>>
        /\ dwNodeCounter[h] = dwNodeCounter[copyOf[h]]
        /\ aIdMap[h] \subseteq aIdMap[copyOf[h]]
        /\ \A k \in Graphs : status[k] = "copying" /\ copyOf[k] = copyOf[h] => k = h
    BY <2>3 DEF CopySound
  <2> QED  BY <2>4, <2>5, <2>6 DEF CopySound
<1> QED  BY <1>1, <1>3, <1>4, <1>5 DEF IInv

\* Operands are nodes of the builder's graph.
LEMMA HeldFacts ==
  ASSUME IInv, NEW g \in Graphs
  PROVE  Held(g) \subseteq Nodes(g)
<1>1. Range(aRegisters[g]) \cup Range(aMemoryMap[g]) \subseteq Nodes(g)
  BY DEF IInv, BuilderSound
<1>2. \A n \in Nodes(g) : Range(oNode[n].aInputNodes) \subseteq Nodes(g)
  BY DEF IInv, GraphsSound, NodesSound
<1> QED  BY <1>1, <1>2 DEF Held

\* Only one register changes.
LEMMA RegisterFacts ==
  ASSUME BuildersTyped, NEW g \in Graphs, NEW r, NEW n, SetRegister(g, r, n)
  PROVE  /\ DOMAIN aRegisters' = Graphs
         /\ \A h \in Graphs \ {g} : aRegisters'[h] = aRegisters[h]
         /\ Range(aRegisters'[g]) \subseteq Range(aRegisters[g]) \cup {n}
BY DEF BuildersTyped, SetRegister, Range

(***************************************************************************)
(* A step that finds or inserts a node and puts it into a register.         *)
(***************************************************************************)
LEMMA FindIntoRegister ==
  ASSUME IInv, NEW g \in Graphs, status[g] = "building", NEW label, NEW inputs,
         IsFcn(inputs), Range(inputs) \subseteq Nodes(g), NEW n, NEW r,
         FindNode(g, label, inputs, n), SetRegister(g, r, n),
         UNCHANGED <<aMemoryMap, status, copyOf>>
  PROVE  IInv'
<1>1. GraphsSound /\ BuildersTyped /\ Numbered(g) /\ BuilderSound(g)
  BY DEF IInv
<1>2. GraphsSound' /\ Numbered(g)' /\ dwNodeCounter' \in [Graphs -> Nat]
  BY <1>1, FindNodeSound
<1>3. /\ \A h \in Graphs \ {g} : /\ aIdMap'[h] = aIdMap[h] /\ aIndex'[h] = aIndex[h]
                                 /\ dwNodeCounter'[h] = dwNodeCounter[h]
                                 /\ \A m \in Nodes(h) : oNode'[m] = oNode[m]
      /\ Nodes(g) \subseteq Nodes(g)'
      /\ \A m \in Nodes(g) : /\ oNode'[m].label = oNode[m].label
                             /\ oNode'[m].aInputNodes = oNode[m].aInputNodes
      /\ n \in Nodes(g)'
  BY <1>1, FindNodeSound
<1>4. /\ DOMAIN aRegisters' = Graphs
      /\ \A h \in Graphs \ {g} : aRegisters'[h] = aRegisters[h]
      /\ Range(aRegisters'[g]) \subseteq Range(aRegisters[g]) \cup {n}
  BY <1>1, RegisterFacts
<1>5. OthersKept(g)
  BY <1>3, <1>4 DEF OthersKept
<1>6. BuilderSound(g)'
  <2>1. Range(aRegisters'[g]) \subseteq Nodes(g)' /\ Range(aMemoryMap'[g]) \subseteq Nodes(g)'
    BY <1>1, <1>3, <1>4 DEF BuilderSound
  <2>2. \A i \in DOMAIN aMemoryMap'[g] :
          \E m \in Nodes(g)' : /\ oNode'[m].label = STORE
                               /\ oNode'[m].aInputNodes = <<aMemoryMap'[g][i], <<g, i>>>>
    BY <1>1, <1>3, StoresKept
  <2> QED  BY <2>1, <2>2 DEF BuilderSound
<1>7. BuildersTyped'
  BY <1>1, <1>2, <1>4 DEF BuildersTyped
<1> QED  BY <1>2, <1>5, <1>6, <1>7, BuildFrame

LEMMA OperationIInv ==
  ASSUME IInv, NEW g \in Graphs, NEW r \in RegisterNumbers, Operation(g, r)
  PROVE  IInv'
<1>1. status[g] = "building" /\ UNCHANGED <<aMemoryMap, status, copyOf>>
  BY DEF Operation
<1>2. PICK n : /\ \/ \E label \in Leaves : FindNode(g, label, <<>>, n)
                  \/ \E label \in Operations, k \in 1..MaxInputs :
                       \E inputs \in [1..k -> Held(g)] : FindNode(g, label, inputs, n)
               /\ SetRegister(g, r, n)
  BY DEF Operation
<1>3. CASE \E label \in Leaves : FindNode(g, label, <<>>, n)
  <2>1. PICK label \in Leaves : FindNode(g, label, <<>>, n)
    BY <1>3
  <2>2. IsFcn(<<>>) /\ Range(<<>>) \subseteq Nodes(g)
    BY EmptyFacts
  <2> QED  BY <1>1, <1>2, <2>1, <2>2, FindIntoRegister
<1>4. CASE \E label \in Operations, k \in 1..MaxInputs :
             \E inputs \in [1..k -> Held(g)] : FindNode(g, label, inputs, n)
  <2>3. PICK label \in Operations, k \in 1..MaxInputs :
          \E inputs \in [1..k -> Held(g)] : FindNode(g, label, inputs, n)
    BY <1>4
  <2>1. PICK inputs \in [1..k -> Held(g)] : FindNode(g, label, inputs, n)
    BY <2>3
  <2>2. IsFcn(inputs) /\ Range(inputs) \subseteq Nodes(g)
    BY HeldFacts DEF IsFcn, Range
  <2> QED  BY <1>1, <1>2, <2>1, <2>2, FindIntoRegister
<1> QED  BY <1>2, <1>3, <1>4

\* A step that changes nothing but a register keeps the graphs.
LEMMA GraphsUnchanged ==
  ASSUME GraphsSound, UNCHANGED graphVars
  PROVE  GraphsSound' /\ \A g : Nodes(g)' = Nodes(g)
<1>1. /\ oNode' = oNode /\ aIdMap' = aIdMap /\ aIndex' = aIndex
      /\ \A h : Nodes(h)' = Nodes(h)
  BY DEF graphVars, Nodes
<1> QED  BY <1>1 DEF GraphsSound, GraphsTyped, NodesSound, ArcsSound, IndexSound, Key

LEMMA LoadIInv ==
  ASSUME IInv, NEW g \in Graphs, NEW r \in RegisterNumbers, NEW address \in Held(g),
         NewLoad(g, r, address)
  PROVE  IInv'
<1>1. /\ status[g] = "building" /\ UNCHANGED <<aMemoryMap, status, copyOf>>
      /\ GraphsSound /\ BuildersTyped /\ Numbered(g) /\ BuilderSound(g)
  BY DEF NewLoad, IInv
<1>2. CASE Id(address) \in DOMAIN aMemoryMap[g]
  <2> DEFINE n == aMemoryMap[g][Id(address)]
  <2>1. SetRegister(g, r, n) /\ UNCHANGED graphVars
    BY <1>2 DEF NewLoad
  <2>2. n \in Nodes(g)
    BY <1>1, <1>2 DEF BuilderSound, Range
  <2>3. /\ DOMAIN aRegisters' = Graphs
        /\ \A h \in Graphs \ {g} : aRegisters'[h] = aRegisters[h]
        /\ Range(aRegisters'[g]) \subseteq Range(aRegisters[g]) \cup {n}
    BY <1>1, <2>1, RegisterFacts
  <2>4. GraphsSound' /\ \A h : Nodes(h)' = Nodes(h)
    BY <1>1, <2>1, GraphsUnchanged
  <2>5. /\ oNode' = oNode /\ aIdMap' = aIdMap /\ aIndex' = aIndex
        /\ dwNodeCounter' = dwNodeCounter
    BY <2>1 DEF graphVars
  <2>6. OthersKept(g) /\ BuildersTyped' /\ Numbered(g)'
    BY <1>1, <2>3, <2>5 DEF OthersKept, BuildersTyped, Numbered
  <2>7. BuilderSound(g)'
    BY <1>1, <2>2, <2>3, <2>4, <2>5 DEF BuilderSound
  <2> QED  BY <1>1, <2>4, <2>6, <2>7, BuildFrame
<1>3. CASE Id(address) \notin DOMAIN aMemoryMap[g]
  <2>1. PICK n : FindNode(g, LOAD, <<address>>, n) /\ SetRegister(g, r, n)
    BY <1>3 DEF NewLoad
  <2>2. address \in Nodes(g)
    BY HeldFacts
  <2>3. IsFcn(<<address>>) /\ Range(<<address>>) \subseteq Nodes(g)
    BY <2>2 DEF IsFcn, Range
  <2> QED  BY <1>1, <2>1, <2>3, FindIntoRegister
<1> QED  BY <1>2, <1>3

LEMMA StoreIInv ==
  ASSUME IInv, NEW g \in Graphs, NEW data \in Held(g), NEW address \in Held(g),
         NewStore(g, data, address)
  PROVE  IInv'
<1> DEFINE inputs == <<data, address>>
           a0 == Id(address)
<1>1. /\ status[g] = "building" /\ UNCHANGED <<aRegisters, status, copyOf>>
      /\ GraphsSound /\ BuildersTyped /\ Numbered(g) /\ BuilderSound(g)
  BY DEF NewStore, IInv
<1>2. PICK n : FindNode(g, STORE, inputs, n)
  BY DEF NewStore
<1>3. data \in Nodes(g) /\ address \in Nodes(g) /\ address = <<g, a0>>
  <2>1. data \in Nodes(g) /\ address \in Nodes(g)
    BY HeldFacts
  <2> QED  BY <2>1, NodesFacts
<1>4. IsFcn(inputs) /\ Range(inputs) \subseteq Nodes(g)
  BY <1>3 DEF IsFcn, Range
<1>5. GraphsSound' /\ Numbered(g)' /\ dwNodeCounter' \in [Graphs -> Nat]
  BY <1>1, <1>2, <1>4, FindNodeSound
<1>6. /\ \A h \in Graphs \ {g} : /\ aIdMap'[h] = aIdMap[h] /\ aIndex'[h] = aIndex[h]
                                 /\ dwNodeCounter'[h] = dwNodeCounter[h]
                                 /\ \A m \in Nodes(h) : oNode'[m] = oNode[m]
      /\ Nodes(g) \subseteq Nodes(g)'
      /\ \A m \in Nodes(g) : /\ oNode'[m].label = oNode[m].label
                             /\ oNode'[m].aInputNodes = oNode[m].aInputNodes
  BY <1>1, <1>2, <1>4, FindNodeSound
<1>7. n \in Nodes(g)' /\ oNode'[n].label = STORE /\ oNode'[n].aInputNodes = inputs
  BY <1>1, <1>2, <1>4, FindNodeSound
<1>8. /\ DOMAIN aMemoryMap' = Graphs
      /\ \A h \in Graphs \ {g} : aMemoryMap'[h] = aMemoryMap[h]
      /\ DOMAIN aMemoryMap'[g] = DOMAIN aMemoryMap[g] \cup {a0}
      /\ \A i \in DOMAIN aMemoryMap'[g] :
           aMemoryMap'[g][i] = IF i = a0 THEN data ELSE aMemoryMap[g][i]
  BY <1>1 DEF NewStore, BuildersTyped
<1> HIDE DEF a0
<1>9. OthersKept(g) /\ BuildersTyped'
  BY <1>1, <1>5, <1>6, <1>8 DEF OthersKept, BuildersTyped
<1>10. BuilderSound(g)'
  <2>1. Range(aRegisters'[g]) \subseteq Nodes(g)'
    BY <1>1, <1>6 DEF BuilderSound
  <2>2. \A i \in DOMAIN aMemoryMap'[g] :
          /\ aMemoryMap'[g][i] \in Nodes(g)'
          /\ \E m \in Nodes(g)' : /\ oNode'[m].label = STORE
                                  /\ oNode'[m].aInputNodes = <<aMemoryMap'[g][i], <<g, i>>>>
    <3> TAKE i \in DOMAIN aMemoryMap'[g]
    <3>1. CASE i = a0
      BY <1>3, <1>6, <1>7, <1>8, <3>1
    <3>2. CASE i # a0
      <4>1. i \in DOMAIN aMemoryMap[g] /\ aMemoryMap'[g][i] = aMemoryMap[g][i]
        BY <1>8, <3>2
      <4>2. aMemoryMap[g][i] \in Nodes(g)
        BY <1>1, <4>1 DEF BuilderSound, Range
      <4>3. PICK m \in Nodes(g) : /\ oNode[m].label = STORE
                                  /\ oNode[m].aInputNodes = <<aMemoryMap[g][i], <<g, i>>>>
        BY <1>1, <4>1 DEF BuilderSound
      <4> QED  BY <1>6, <4>1, <4>2, <4>3
    <3> QED  BY <3>1, <3>2
  <2>3. Range(aMemoryMap'[g]) \subseteq Nodes(g)'
    BY <2>2 DEF Range
  <2> QED  BY <2>1, <2>2, <2>3 DEF BuilderSound
<1> QED  BY <1>1, <1>5, <1>9, <1>10, BuildFrame

-----------------------------------------------------------------------------
(* A builder forks *)

\* A copy that is under way, while other graphs change.
LEMMA CopyKept ==
  ASSUME NEW h \in Graphs, status[h] = "copying", CopySound(h),
         status'[h] = status[h], status'[copyOf[h]] = status[copyOf[h]],
         copyOf'[h] = copyOf[h],
         aRegisters'[h] = aRegisters[h], aMemoryMap'[h] = aMemoryMap[h],
         dwNodeCounter'[h] = dwNodeCounter[h],
         dwNodeCounter'[copyOf[h]] = dwNodeCounter[copyOf[h]],
         aIdMap'[h] = aIdMap[h], aIdMap'[copyOf[h]] = aIdMap[copyOf[h]],
         \A m \in Nodes(h) \cup Nodes(copyOf[h]) :
           oNode'[m].label = oNode[m].label /\ oNode'[m].aInputNodes = oNode[m].aInputNodes,
         \A k \in Graphs : status'[k] = "copying" /\ copyOf'[k] = copyOf[h] => k = h
  PROVE  CopySound(h)'
<1> DEFINE g == copyOf[h]
<1>1. \A i \in aIdMap[h] :
        /\ i \in aIdMap[g] /\ <<h, i>> \in Nodes(h) /\ <<g, i>> \in Nodes(g)
        /\ oNode[<<h, i>>].label = oNode[<<g, i>>].label
        /\ oNode[<<h, i>>].aInputNodes = InGraph(h, oNode[<<g, i>>].aInputNodes)
  BY DEF CopySound, Nodes
<1>2. copyOf'[h] = g
  OBVIOUS
<1>3. \A i \in aIdMap[h] :
        /\ oNode'[<<h, i>>].label = oNode'[<<g, i>>].label
        /\ oNode'[<<h, i>>].aInputNodes = InGraph(h, oNode'[<<g, i>>].aInputNodes)
  BY <1>1
<1>4. /\ status[g] = "forking" /\ aRegisters[h] = <<>> /\ aMemoryMap[h] = <<>>
      /\ dwNodeCounter[h] = dwNodeCounter[g] /\ aIdMap[h] \subseteq aIdMap[g]
  BY DEF CopySound
<1>5. /\ status'[g] = "forking" /\ dwNodeCounter'[g] = dwNodeCounter[g]
      /\ aIdMap'[g] = aIdMap[g]
      /\ \A k \in Graphs : status'[k] = "copying" /\ copyOf'[k] = g => k = h
  BY <1>4
<1> HIDE DEF g
<1> QED  BY <1>2, <1>3, <1>4, <1>5 DEF CopySound

\* What a builder holds stays, if its graph does.
LEMMA BuilderKept ==
  ASSUME NEW g \in Graphs, BuilderSound(g),
         aRegisters'[g] = aRegisters[g], aMemoryMap'[g] = aMemoryMap[g],
         Nodes(g) \subseteq Nodes(g)',
         \A m \in Nodes(g) : /\ oNode'[m].label = oNode[m].label
                             /\ oNode'[m].aInputNodes = oNode[m].aInputNodes
  PROVE  BuilderSound(g)'
<1>1. \A i \in DOMAIN aMemoryMap'[g] :
        \E m \in Nodes(g)' : /\ oNode'[m].label = STORE
                             /\ oNode'[m].aInputNodes = <<aMemoryMap'[g][i], <<g, i>>>>
  BY StoresKept
<1> QED  BY <1>1 DEF BuilderSound

\* The graph that is copied, and the others that may be.
LEMMA ForkFacts ==
  ASSUME IInv, NEW h \in Graphs, status[h] = "copying"
  PROVE  /\ copyOf[h] \in Graphs /\ copyOf[h] # h /\ status[copyOf[h]] = "forking"
         /\ \A k \in Graphs \ {h} : status[k] = "copying" =>
              /\ copyOf[k] \in Graphs /\ copyOf[k] # h /\ copyOf[k] # copyOf[h]
              /\ status[copyOf[k]] = "forking"
BY DEF IInv, BuildersTyped, CopySound

LEMMA BeginForkIInv ==
  ASSUME IInv, NEW g \in Graphs, NEW h \in Graphs, BeginFork(g, h)
  PROVE  IInv'
<1>1. /\ status[g] = "building" /\ status[h] = "none" /\ g # h
      /\ oNode' = oNode /\ aIdMap' = aIdMap /\ aIndex' = aIndex
      /\ aRegisters' = aRegisters /\ aMemoryMap' = aMemoryMap
  BY DEF BeginFork
<1>2. /\ status \in [Graphs -> {"none", "building", "forking", "copying"}]
      /\ copyOf \in [Graphs -> Graphs] /\ dwNodeCounter \in [Graphs -> Nat]
      /\ DOMAIN aRegisters = Graphs /\ DOMAIN aMemoryMap = Graphs
  BY DEF IInv, BuildersTyped
<1>3. /\ \A k \in Graphs : status'[k] = IF k = g THEN "forking" ELSE IF k = h THEN "copying" ELSE status[k]
      /\ \A k \in Graphs : copyOf'[k] = IF k = h THEN g ELSE copyOf[k]
      /\ \A k \in Graphs : dwNodeCounter'[k] = IF k = h THEN dwNodeCounter[g] ELSE dwNodeCounter[k]
  BY <1>1, <1>2 DEF BeginFork, CounterOfFork
<1>4. BuildersTyped'
  <2>1. /\ status' \in [Graphs -> {"none", "building", "forking", "copying"}]
        /\ copyOf' \in [Graphs -> Graphs] /\ dwNodeCounter' \in [Graphs -> Nat]
    BY <1>1, <1>2 DEF BeginFork, CounterOfFork
  <2> QED  BY <1>1, <1>2, <2>1 DEF BuildersTyped
<1>5. GraphsSound' /\ \A k : Nodes(k)' = Nodes(k)
  <2>1. \A k : Nodes(k)' = Nodes(k)
    BY <1>1 DEF Nodes
  <2> QED  BY <1>1, <2>1 DEF IInv, GraphsSound, GraphsTyped, NodesSound, ArcsSound, IndexSound, Key
<1>6. \A k \in Graphs : Numbered(k) /\ BuilderSound(k) /\ UnusedSound(k) /\ CopySound(k)
  BY DEF IInv
<1>7. aIdMap[h] = {} /\ aRegisters[h] = <<>> /\ aMemoryMap[h] = <<>>
  BY <1>1, <1>6 DEF UnusedSound
<1>8. ASSUME NEW k \in Graphs  PROVE  Numbered(k)' /\ BuilderSound(k)' /\ UnusedSound(k)'
  <2>1. Numbered(k)'
    BY <1>1, <1>3, <1>6, <1>7 DEF Numbered
  <2>2. BuilderSound(k)'
    BY <1>1, <1>5, <1>6, BuilderKept
  <2>3. UnusedSound(k)'
    BY <1>1, <1>3, <1>6 DEF UnusedSound
  <2> QED  BY <2>1, <2>2, <2>3
<1>9. CopySound(h)'
  <2>1. \A k \in Graphs : status'[k] = "copying" /\ copyOf'[k] = g => k = h
    BY <1>1, <1>3, <1>6 DEF CopySound
  <2> QED  BY <1>1, <1>3, <1>7, <2>1 DEF CopySound
<1>10. ASSUME NEW k \in Graphs \ {h}  PROVE  CopySound(k)'
  <2> SUFFICES ASSUME status'[k] = "copying"  PROVE  CopySound(k)'
    BY DEF CopySound
  <2>1. status[k] = "copying" /\ status[copyOf[k]] = "forking" /\ copyOf[k] \in Graphs \ {g, h}
    BY <1>1, <1>2, <1>3, <1>6 DEF CopySound
  <2>2. \A l \in Graphs : status'[l] = "copying" /\ copyOf'[l] = copyOf[k] => l = k
    BY <1>3, <1>6, <2>1 DEF CopySound
  <2> QED  BY <1>1, <1>3, <1>6, <2>1, <2>2, CopyKept
<1> QED  BY <1>4, <1>5, <1>8, <1>9, <1>10 DEF IInv

\* The ids stay the same.
LEMMA CopiedFacts ==
  ASSUME NEW h, NEW f
  PROVE  /\ Ids(InGraph(h, f)) = Ids(f) /\ IsFcn(InGraph(h, f))
         /\ DOMAIN InGraph(h, f) = DOMAIN f
         /\ \A k \in DOMAIN f : InGraph(h, f)[k] = <<h, Id(f[k])>>
BY DEF Ids, InGraph, Id, IsFcn

LEMMA CopyNodeIInv ==
  ASSUME IInv, NEW h \in Graphs, NEW i \in aIdMap[copyOf[h]], CopyNode(h, i)
  PROVE  IInv'
<1> DEFINE g == copyOf[h]
           n == <<g, i>>
           new == <<h, i>>
           inputs == InGraph(h, oNode[n].aInputNodes)
           label == oNode[n].label
<1>1. /\ status[h] = "copying" /\ i \in aIdMap[g] /\ i \notin aIdMap[h]
      /\ \A k \in DOMAIN inputs : Id(inputs[k]) \in aIdMap[h]
      /\ oNode' = WithNode(new, label, inputs)
      /\ aIdMap' = [aIdMap EXCEPT ![h] = @ \cup {i}]
      /\ aIndex' = [aIndex EXCEPT ![h] = WithIndex(h, new, label, inputs)]
      /\ dwNodeCounter' = dwNodeCounter /\ aRegisters' = aRegisters
      /\ aMemoryMap' = aMemoryMap /\ status' = status /\ copyOf' = copyOf
  BY DEF CopyNode, CopiedInputs, InGraph
<1>2. /\ g \in Graphs /\ g # h
      /\ \A k \in Graphs \ {h} : status[k] = "copying" =>
           copyOf[k] \in Graphs /\ copyOf[k] # h /\ copyOf[k] # g
  BY <1>1, ForkFacts
<1>3. /\ \A k \in Graphs : /\ Numbered(k) /\ BuilderSound(k) /\ UnusedSound(k) /\ CopySound(k)
                           /\ NodesSound(k) /\ IndexSound(k)
      /\ GraphsSound /\ BuildersTyped
      /\ aIdMap \in [Graphs -> SUBSET Nat]
  BY DEF IInv, GraphsSound, GraphsTyped
<1>4. n \in Nodes(g) /\ i \in Nat /\ Id(n) = i
  BY <1>1, <1>2, <1>3 DEF Nodes, Id
<1>5. /\ Ids(inputs) = Ids(oNode[n].aInputNodes) /\ IsFcn(inputs)
      /\ DOMAIN inputs = DOMAIN oNode[n].aInputNodes
      /\ \A k \in DOMAIN inputs : inputs[k] = <<h, Id(oNode[n].aInputNodes[k])>>
  BY CopiedFacts
<1> HIDE DEF inputs, label
<1>6. Range(inputs) \subseteq Nodes(h) /\ \A m \in Range(inputs) : Id(m) < i
  <2> SUFFICES ASSUME NEW k \in DOMAIN inputs
               PROVE  inputs[k] \in Nodes(h) /\ Id(inputs[k]) < i
    BY DEF Range
  <2>1. inputs[k] = <<h, Id(oNode[n].aInputNodes[k])>> /\ Id(inputs[k]) \in aIdMap[h]
    BY <1>1, <1>5
  <2>2. Id(inputs[k]) = Id(oNode[n].aInputNodes[k])
    BY <2>1 DEF Id
  <2>3. oNode[n].aInputNodes[k] \in Range(oNode[n].aInputNodes)
    BY <1>5 DEF Range
  <2>4. Id(oNode[n].aInputNodes[k]) < i
    BY <1>2, <1>3, <1>4, <2>3 DEF NodesSound
  <2> QED  BY <2>1, <2>2, <2>4 DEF Nodes
<1>7. Idx(label, inputs) \notin DOMAIN aIndex[h]
  <2> SUFFICES ASSUME Idx(label, inputs) \in DOMAIN aIndex[h]  PROVE  FALSE
    OBVIOUS
  <2>1. PICK m \in Nodes(h) : Idx(label, inputs) = Key(m)
    BY <1>3 DEF IndexSound
  <2>2. PICK j \in aIdMap[h] : m = <<h, j>>
    BY DEF Nodes
  <2>3. /\ j \in aIdMap[g]
        /\ oNode[<<h, j>>].label = oNode[<<g, j>>].label
        /\ oNode[<<h, j>>].aInputNodes = InGraph(h, oNode[<<g, j>>].aInputNodes)
    BY <1>1, <1>3 DEF CopySound
  <2>4. Ids(InGraph(h, oNode[<<g, j>>].aInputNodes)) = Ids(oNode[<<g, j>>].aInputNodes)
    BY CopiedFacts
  <2>5. Key(m) = Key(<<g, j>>)
    BY <2>2, <2>3, <2>4 DEF Key, Idx
  <2>6. Key(n) = Key(m)
    BY <1>5, <2>1 DEF Key, Idx, label
  <2>7. <<g, j>> \in Nodes(g)
    BY <2>3 DEF Nodes
  <2>8. n = <<g, j>>
    BY <1>2, <1>3, <1>4, <2>5, <2>6, <2>7, KeyFacts
  <2> QED  BY <1>1, <2>8
<1>8. GraphsSound'
  BY <1>1, <1>3, <1>4, <1>5, <1>6, <1>7, InsertSound
<1>9. /\ \A k \in Graphs : Nodes(k)' = IF k = h THEN Nodes(h) \cup {new} ELSE Nodes(k)
      /\ \A k \in Graphs \ {h} : \A m \in Nodes(k) : oNode'[m] = oNode[m]
  <2>1. \A k \in Graphs : Nodes(k)' = IF k = h THEN Nodes(h) \cup {new} ELSE Nodes(k)
    BY <1>1, <1>3, <1>4, <1>6, InsertFacts
  <2>2. \A k \in Graphs \ {h} : \A m \in Nodes(k) : oNode'[m] = oNode[m]
    BY <1>1, <1>3, <1>4, <1>6, InsertFacts
  <2> QED  BY <2>1, <2>2
<1>10. \A m \in Nodes(h) : /\ oNode'[m].label = oNode[m].label
                           /\ oNode'[m].aInputNodes = oNode[m].aInputNodes
  BY <1>1, <1>3, <1>4, <1>6, InsertFacts
<1>11. oNode'[new].label = label /\ oNode'[new].aInputNodes = inputs
  <2>1. oNode'[new] = NewNode(label, inputs)
    BY <1>1 DEF WithNode
  <2> QED  BY <2>1 DEF NewNode
<1>12. BuildersTyped'
  BY <1>1, <1>3 DEF BuildersTyped
<1>13. ASSUME NEW k \in Graphs  PROVE  Numbered(k)' /\ BuilderSound(k)' /\ UnusedSound(k)'
  <2>1. Numbered(k)'
    <3>1. i < dwNodeCounter[h]
      BY <1>1, <1>2, <1>3 DEF CopySound, Numbered
    <3> QED  BY <1>1, <1>3, <3>1 DEF Numbered
  <2>2. BuilderSound(k)'
    BY <1>1, <1>3, <1>9, <1>10, BuilderKept
  <2>3. UnusedSound(k)'
    BY <1>1, <1>3 DEF UnusedSound
  <2> QED  BY <2>1, <2>2, <2>3
<1>14. CopySound(h)'
  <2>1. /\ status[g] = "forking" /\ aRegisters[h] = <<>> /\ aMemoryMap[h] = <<>>
        /\ dwNodeCounter[h] = dwNodeCounter[g]
        /\ aIdMap[h] \subseteq aIdMap[g]
        /\ \A j \in aIdMap[h] :
             /\ oNode[<<h, j>>].label = oNode[<<g, j>>].label
             /\ oNode[<<h, j>>].aInputNodes = InGraph(h, oNode[<<g, j>>].aInputNodes)
        /\ \A k \in Graphs : status[k] = "copying" /\ copyOf[k] = g => k = h
    BY <1>1, <1>3 DEF CopySound
  <2>2. aIdMap'[h] = aIdMap[h] \cup {i} /\ aIdMap'[g] = aIdMap[g]
    BY <1>1, <1>2, <1>3
  <2>3. \A j \in aIdMap[g] : oNode'[<<g, j>>] = oNode[<<g, j>>]
    BY <1>2, <1>9 DEF Nodes
  <2>4. \A j \in aIdMap[h] : /\ oNode'[<<h, j>>].label = oNode[<<h, j>>].label
                             /\ oNode'[<<h, j>>].aInputNodes = oNode[<<h, j>>].aInputNodes
    BY <1>10 DEF Nodes
  <2>5. /\ oNode'[<<h, i>>].label = oNode'[<<g, i>>].label
        /\ oNode'[<<h, i>>].aInputNodes = InGraph(h, oNode'[<<g, i>>].aInputNodes)
    BY <1>1, <1>11, <2>3 DEF inputs, label
  <2>6. \A j \in aIdMap'[h] :
          /\ oNode'[<<h, j>>].label = oNode'[<<g, j>>].label
          /\ oNode'[<<h, j>>].aInputNodes = InGraph(h, oNode'[<<g, j>>].aInputNodes)
    BY <2>1, <2>2, <2>3, <2>4, <2>5
  <2>7. aIdMap'[h] \subseteq aIdMap'[g]
    BY <1>1, <2>1, <2>2
  <2> QED  BY <1>1, <2>1, <2>6, <2>7 DEF CopySound
<1>15. ASSUME NEW k \in Graphs \ {h}  PROVE  CopySound(k)'
  <2> SUFFICES ASSUME status[k] = "copying"  PROVE  CopySound(k)'
    BY <1>1 DEF CopySound
  <2>1. copyOf[k] \in Graphs \ {h} /\ CopySound(k)
    BY <1>2, <1>3
  <2>2. aIdMap'[k] = aIdMap[k] /\ aIdMap'[copyOf[k]] = aIdMap[copyOf[k]]
    BY <1>1, <1>3, <2>1
  <2>3. \A m \in Nodes(k) \cup Nodes(copyOf[k]) : oNode'[m] = oNode[m]
    BY <1>9, <2>1
  <2>4. \A l \in Graphs : status[l] = "copying" /\ copyOf[l] = copyOf[k] => l = k
    BY <2>1 DEF CopySound
  <2> QED  BY <1>1, <2>1, <2>2, <2>3, <2>4, CopyKept
<1> QED  BY <1>8, <1>12, <1>13, <1>14, <1>15 DEF IInv

\* When the copy is complete, every node has its own in the fork.
LEMMA CompleteFacts ==
  ASSUME IInv, NEW h \in Graphs, status[h] = "copying", aIdMap[h] = aIdMap[copyOf[h]],
         NEW n \in Nodes(copyOf[h])
  PROVE  LET m == <<h, Id(n)>>
         IN /\ m \in Nodes(h) /\ FindById(h, Id(n)) = m
            /\ oNode[m].label = oNode[n].label
            /\ oNode[m].aInputNodes = InGraph(h, oNode[n].aInputNodes)
<1> DEFINE g == copyOf[h]
<1>1. PICK i \in aIdMap[g] : n = <<g, i>> /\ Id(n) = i
  BY NodesFacts
<1>2. CopySound(h)
  BY DEF IInv
<1> QED  BY <1>1, <1>2 DEF CopySound, Nodes, FindById

LEMMA EndForkIInv ==
  ASSUME IInv, NEW h \in Graphs, EndFork(h)
  PROVE  IInv'
<1> DEFINE g == copyOf[h]
<1>1. /\ status[h] = "copying" /\ aIdMap[h] = aIdMap[g]
      /\ oNode' = oNode /\ aIdMap' = aIdMap /\ aIndex' = aIndex
      /\ dwNodeCounter' = dwNodeCounter /\ copyOf' = copyOf
  BY DEF EndFork, graphVars
<1>2. /\ g \in Graphs /\ g # h /\ status[g] = "forking"
      /\ \A k \in Graphs \ {h} : status[k] = "copying" =>
           copyOf[k] \in Graphs /\ copyOf[k] # h /\ copyOf[k] # g
  BY <1>1, ForkFacts
<1>3. /\ \A k \in Graphs : Numbered(k) /\ BuilderSound(k) /\ UnusedSound(k) /\ CopySound(k)
      /\ GraphsSound /\ BuildersTyped
  BY DEF IInv
<1>4. /\ DOMAIN aRegisters' = Graphs /\ DOMAIN aMemoryMap' = Graphs
      /\ \A k \in Graphs \ {h} : aRegisters'[k] = aRegisters[k] /\ aMemoryMap'[k] = aMemoryMap[k]
      /\ aRegisters'[h] = [r \in DOMAIN aRegisters[g] |-> FindById(h, Id(aRegisters[g][r]))]
      /\ aMemoryMap'[h] = [j \in DOMAIN aMemoryMap[g] |-> FindById(h, Id(aMemoryMap[g][j]))]
  BY <1>3 DEF EndFork, RegistersOfFork, MemoryMapOfFork, BuildersTyped
<1>5. /\ \A k \in Graphs : status'[k] = IF k \in {g, h} THEN "building" ELSE status[k]
      /\ status' \in [Graphs -> {"none", "building", "forking", "copying"}]
  BY <1>2, <1>3 DEF EndFork, BuildersTyped
<1>6. GraphsSound' /\ \A k : Nodes(k)' = Nodes(k)
  BY <1>1, <1>3, GraphsUnchanged DEF graphVars
<1>7. BuildersTyped'
  BY <1>1, <1>3, <1>4, <1>5 DEF BuildersTyped
<1>8. BuilderSound(h)'
  <2>1. \A n \in Range(aRegisters[g]) \cup Range(aMemoryMap[g]) : FindById(h, Id(n)) \in Nodes(h)
    <3>1. Range(aRegisters[g]) \subseteq Nodes(g) /\ Range(aMemoryMap[g]) \subseteq Nodes(g)
      BY <1>2, <1>3 DEF BuilderSound
    <3>2. ASSUME NEW n \in Nodes(g) PROVE FindById(h, Id(n)) \in Nodes(h)
      BY <1>1, CompleteFacts
    <3> QED  BY <3>1, <3>2
  <2>2. Range(aRegisters'[h]) \subseteq Nodes(h) /\ Range(aMemoryMap'[h]) \subseteq Nodes(h)
    BY <1>4, <2>1 DEF Range
  <2>3. ASSUME NEW j \in DOMAIN aMemoryMap'[h]
        PROVE  \E n \in Nodes(h) : /\ oNode[n].label = STORE
                                   /\ oNode[n].aInputNodes = <<aMemoryMap'[h][j], <<h, j>>>>
    <3> DEFINE v == aMemoryMap[g][j]
    <3>1. j \in DOMAIN aMemoryMap[g] /\ aMemoryMap'[h][j] = FindById(h, Id(v))
      BY <1>4, <2>3
    <3>2. v \in Nodes(g)
      BY <1>2, <1>3, <3>1 DEF BuilderSound, Range
    <3>3. FindById(h, Id(v)) = <<h, Id(v)>>
      BY <1>1, <3>2, CompleteFacts
    <3>4. PICK n \in Nodes(g) : oNode[n].label = STORE /\ oNode[n].aInputNodes = <<v, <<g, j>>>>
      BY <1>2, <1>3, <3>1 DEF BuilderSound
    <3> DEFINE m == <<h, Id(n)>>
    <3>5. m \in Nodes(h) /\ oNode[m].label = STORE
          /\ oNode[m].aInputNodes = InGraph(h, oNode[n].aInputNodes)
      BY <1>1, <3>4, CompleteFacts
    <3> HIDE DEF v, m
    <3>6. InGraph(h, <<v, <<g, j>>>>) = <<<<h, Id(v)>>, <<h, j>>>>
      BY DEF InGraph, Id
    <3> QED  BY <3>1, <3>3, <3>4, <3>5, <3>6
  <2> QED  BY <1>1, <1>6, <2>2, <2>3 DEF BuilderSound
<1>9. ASSUME NEW k \in Graphs  PROVE  Numbered(k)' /\ BuilderSound(k)' /\ UnusedSound(k)'
  <2>1. Numbered(k)'
    BY <1>1, <1>3 DEF Numbered
  <2>2. ASSUME k # h  PROVE  BuilderSound(k)'
    BY <1>1, <1>3, <1>4, <1>6, <2>2, BuilderKept
  <2>3. UnusedSound(k)'
    BY <1>1, <1>3, <1>4, <1>5 DEF UnusedSound
  <2> QED  BY <1>8, <2>1, <2>2, <2>3
<1>10. ASSUME NEW k \in Graphs  PROVE  CopySound(k)'
  <2> SUFFICES ASSUME status'[k] = "copying"  PROVE  CopySound(k)'
    BY DEF CopySound
  <2>1. k # h /\ k # g /\ status[k] = "copying" /\ CopySound(k)
    BY <1>3, <1>5
  <2>2. copyOf[k] \in Graphs \ {g, h}
    BY <1>2, <2>1
  <2>3. \A l \in Graphs : status'[l] = "copying" /\ copyOf'[l] = copyOf[k] => l = k
    BY <1>1, <1>5, <2>1 DEF CopySound
  <2> QED  BY <1>1, <1>4, <1>5, <2>1, <2>2, <2>3, CopyKept
<1> QED  BY <1>6, <1>7, <1>9, <1>10 DEF IInv

LEMMA FailForkIInv ==
  ASSUME IInv, NEW h \in Graphs, FailFork(h)
  PROVE  IInv'
<1> DEFINE g == copyOf[h]
<1>1. /\ status[h] = "copying" /\ aRegisters' = aRegisters /\ aMemoryMap' = aMemoryMap
      /\ oNode' = [n \in DOMAIN oNode \ Nodes(h) |-> oNode[n]]
  BY DEF FailFork
<1>2. /\ g \in Graphs /\ g # h /\ status[g] = "forking"
      /\ \A k \in Graphs \ {h} : status[k] = "copying" =>
           copyOf[k] \in Graphs /\ copyOf[k] # h /\ copyOf[k] # g
  BY <1>1, ForkFacts
<1>3. /\ \A k \in Graphs : Numbered(k) /\ BuilderSound(k) /\ UnusedSound(k) /\ CopySound(k)
      /\ GraphsSound /\ BuildersTyped /\ GraphsTyped
      /\ \A k \in Graphs : NodesSound(k) /\ ArcsSound(k) /\ IndexSound(k)
  BY DEF IInv, GraphsSound
<1>4. /\ \A k \in Graphs : aIdMap'[k] = IF k = h THEN {} ELSE aIdMap[k]
      /\ \A k \in Graphs : aIndex'[k] = IF k = h THEN <<>> ELSE aIndex[k]
      /\ aIdMap' \in [Graphs -> SUBSET Nat] /\ DOMAIN aIndex' = Graphs
  BY <1>3 DEF FailFork, GraphsTyped
<1>5. /\ \A k \in Graphs : dwNodeCounter'[k] = IF k = h THEN 0 ELSE dwNodeCounter[k]
      /\ \A k \in Graphs : copyOf'[k] = IF k = h THEN h ELSE copyOf[k]
      /\ \A k \in Graphs : status'[k] = IF k = g THEN "building" ELSE IF k = h THEN "none" ELSE status[k]
  BY <1>2, <1>3 DEF FailFork, BuildersTyped
<1>6. BuildersTyped'
  <2>1. /\ dwNodeCounter' \in [Graphs -> Nat] /\ copyOf' \in [Graphs -> Graphs]
        /\ status' \in [Graphs -> {"none", "building", "forking", "copying"}]
    BY <1>2, <1>3 DEF FailFork, BuildersTyped
  <2> QED  BY <1>1, <1>3, <2>1 DEF BuildersTyped
<1>7. /\ \A k \in Graphs : Nodes(k)' = IF k = h THEN {} ELSE Nodes(k)
      /\ \A k \in Graphs \ {h} : \A n \in Nodes(k) : n \notin Nodes(h)
  BY <1>4 DEF Nodes
<1>8. \A k \in Graphs \ {h} : \A n \in Nodes(k) : n \in DOMAIN oNode' /\ oNode'[n] = oNode[n]
  BY <1>1, <1>3, <1>7 DEF NodesSound
<1>9. GraphsSound'
  <2>1. GraphsTyped'
    <3>1. \A n \in DOMAIN oNode' : \E k \in Graphs : n \in Nodes(k)'
      BY <1>1, <1>3, <1>7 DEF GraphsTyped
    <3> QED  BY <1>4, <3>1 DEF GraphsTyped
  <2>2. ASSUME NEW k \in Graphs \ {h}  PROVE  NodesSound(k)' /\ ArcsSound(k)' /\ IndexSound(k)'
    <3>1. Nodes(k)' = Nodes(k) /\ aIndex'[k] = aIndex[k]
      BY <1>4, <1>7
    <3>2. NodesSound(k)'
      BY <1>3, <1>8, <3>1 DEF NodesSound
    <3>3. ArcsSound(k)'
      BY <1>3, <1>8, <3>1 DEF ArcsSound
    <3>4. IndexSound(k)'
      BY <1>3, <1>8, <3>1 DEF IndexSound, Key
    <3> QED  BY <3>2, <3>3, <3>4
  <2>3. NodesSound(h)' /\ ArcsSound(h)' /\ IndexSound(h)'
    BY <1>4, <1>7, EmptyFacts DEF NodesSound, ArcsSound, IndexSound
  <2> QED  BY <2>1, <2>2, <2>3 DEF GraphsSound
<1>10. aRegisters[h] = <<>> /\ aMemoryMap[h] = <<>>
  BY <1>1, <1>3 DEF CopySound
<1>11. ASSUME NEW k \in Graphs  PROVE  Numbered(k)' /\ BuilderSound(k)' /\ UnusedSound(k)'
  <2>1. Numbered(k)'
    BY <1>3, <1>4, <1>5 DEF Numbered
  <2>2. ASSUME k # h  PROVE  BuilderSound(k)'
    BY <1>1, <1>3, <1>7, <1>8, <2>2, BuilderKept
  <2>3. BuilderSound(h)'
    BY <1>1, <1>10, EmptyFacts DEF BuilderSound
  <2>4. UnusedSound(k)'
    BY <1>1, <1>3, <1>4, <1>5, <1>10 DEF UnusedSound
  <2> QED  BY <2>1, <2>2, <2>3, <2>4
<1>12. ASSUME NEW k \in Graphs  PROVE  CopySound(k)'
  <2> SUFFICES ASSUME status'[k] = "copying"  PROVE  CopySound(k)'
    BY DEF CopySound
  <2>1. k # h /\ k # g /\ status[k] = "copying" /\ CopySound(k)
    BY <1>2, <1>3, <1>5
  <2>2. copyOf[k] \in Graphs \ {g, h}
    BY <1>2, <2>1
  <2>3. \A l \in Graphs : status'[l] = "copying" /\ copyOf'[l] = copyOf[k] => l = k
    BY <1>2, <1>5, <2>1 DEF CopySound
  <2>4. \A m \in Nodes(k) \cup Nodes(copyOf[k]) : oNode'[m] = oNode[m]
    BY <1>8, <2>1, <2>2
  <2> QED  BY <1>1, <1>4, <1>5, <2>1, <2>2, <2>3, <2>4, CopyKept
<1> QED  BY <1>6, <1>9, <1>11, <1>12 DEF IInv

-----------------------------------------------------------------------------
(* The invariant *)

\* In the beginning: a graph with the processor's registers.
LEMMA InitIInv == Init => IInv
<1> SUFFICES ASSUME Init  PROVE  IInv
  OBVIOUS
<1> DEFINE g0 == FirstGraph
<1>1. g0 \in Graphs /\ RegisterNumbers \subseteq Nat /\ NumRegisters \in Nat
      /\ \A r \in RegisterNumbers : r < NumRegisters
  BY GraphsAssumption, BoundsAssumption DEF RegisterNumbers
<1>2. /\ \A g \in Graphs : aIdMap[g] = IF g = g0 THEN RegisterNumbers ELSE {}
      /\ Nodes(g0) = {<<g0, r>> : r \in RegisterNumbers}
      /\ \A g \in Graphs \ {g0} : Nodes(g) = {}
      /\ DOMAIN oNode = Nodes(g0)
  BY <1>1 DEF Init, Nodes
<1>3. \A r \in RegisterNumbers : oNode[<<g0, r>>] = NewNode(RegisterLabel(r), <<>>)
  BY DEF Init, Id
<1>4. ASSUME NEW r \in RegisterNumbers
      PROVE  /\ IsNode(oNode[<<g0, r>>]) /\ Range(oNode[<<g0, r>>].aInputNodes) = {}
             /\ oNode[<<g0, r>>].aOutputNodes = {}
             /\ Key(<<g0, r>>) = Idx(RegisterLabel(r), <<>>)
  <2> DEFINE x == oNode[<<g0, r>>]
  <2>1. x = NewNode(RegisterLabel(r), <<>>)
    BY <1>3
  <2>2. Key(<<g0, r>>) = Idx(x.label, x.aInputNodes)
    BY DEF Key
  <2> HIDE DEF x
  <2>3. /\ x.label = RegisterLabel(r) /\ x.aInputNodes = <<>>
        /\ x.aInputNodesUnique = Range(<<>>) /\ x.aOutputNodes = {}
    BY <2>1 DEF NewNode
  <2>4. IsNode(x)
    BY <2>1, <2>3, EmptyFacts DEF NewNode, IsNode
  <2>5. Range(x.aInputNodes) = {}
    BY <2>3, EmptyFacts
  <2>6. Key(<<g0, r>>) = Idx(RegisterLabel(r), <<>>)
    BY <2>2, <2>3
  <2> QED  BY <2>3, <2>4, <2>5, <2>6 DEF x
<1>5. \A g \in Graphs \ {g0} : aIndex[g] = <<>> /\ aRegisters[g] = <<>> /\ aMemoryMap[g] = <<>>
  BY DEF Init
<1>6. /\ DOMAIN aIndex[g0] = {Idx(RegisterLabel(r), <<>>) : r \in RegisterNumbers}
      /\ \A r \in RegisterNumbers : aIndex[g0][Idx(RegisterLabel(r), <<>>)] = <<g0, r>>
  BY <1>1 DEF Init, Idx, RegisterLabel
<1>7. GraphsTyped
  BY <1>1, <1>2 DEF Init, GraphsTyped
<1>8. NodesSound(g0) /\ ArcsSound(g0)
  BY <1>2, <1>4 DEF NodesSound, ArcsSound
<1>9. IndexSound(g0)
  BY <1>2, <1>4, <1>6 DEF IndexSound
<1>10. \A g \in Graphs \ {g0} : NodesSound(g) /\ ArcsSound(g) /\ IndexSound(g)
  BY <1>2, <1>5, EmptyFacts DEF NodesSound, ArcsSound, IndexSound
<1>11. BuildersTyped
  BY <1>1 DEF Init, BuildersTyped
<1>12. /\ \A g \in Graphs : status[g] = IF g = g0 THEN "building" ELSE "none"
       /\ dwNodeCounter[g0] = NumRegisters /\ aMemoryMap[g0] = <<>>
       /\ aRegisters[g0] = [r \in RegisterNumbers |-> <<g0, r>>]
  BY <1>1 DEF Init
<1>13. ASSUME NEW g \in Graphs
       PROVE  Numbered(g) /\ BuilderSound(g) /\ UnusedSound(g) /\ CopySound(g)
  <2>1. Numbered(g)
    BY <1>1, <1>2, <1>12 DEF Numbered
  <2>2. Range(aRegisters[g]) \subseteq Nodes(g)
    BY <1>2, <1>5, <1>12, EmptyFacts DEF Range
  <2>3. BuilderSound(g)
    BY <1>5, <1>12, <2>2, EmptyFacts DEF BuilderSound
  <2>4. UnusedSound(g) /\ CopySound(g)
    BY <1>2, <1>5, <1>12 DEF UnusedSound, CopySound
  <2> QED  BY <2>1, <2>3, <2>4
<1> QED  BY <1>7, <1>8, <1>9, <1>10, <1>11, <1>13 DEF IInv, GraphsSound

(***************************************************************************)
(* The invariant holds in every reachable state.                            *)
(***************************************************************************)
THEOREM Invariance == Spec => []IInv
<1>1. IInv /\ [Next]_vars => IInv'
  <2> SUFFICES ASSUME IInv, [Next]_vars  PROVE  IInv'
    OBVIOUS
  <2>1. ASSUME NEW g \in Graphs, Build(g)  PROVE  IInv'
    BY <2>1, OperationIInv, LoadIInv, StoreIInv DEF Build
  <2>2. ASSUME NEW h \in Graphs, Fork(h)  PROVE  IInv'
    BY <2>2, BeginForkIInv, CopyNodeIInv, EndForkIInv, FailForkIInv DEF Fork
  <2>3. CASE UNCHANGED vars
    <3>1. /\ oNode' = oNode /\ aIdMap' = aIdMap /\ aIndex' = aIndex
          /\ dwNodeCounter' = dwNodeCounter /\ status' = status /\ copyOf' = copyOf
          /\ aRegisters' = aRegisters /\ aMemoryMap' = aMemoryMap
          /\ \A g : Nodes(g)' = Nodes(g)
      BY <2>3 DEF vars, graphVars, Nodes
    <3>2. GraphsSound' /\ BuildersTyped'
      BY <3>1, GraphsUnchanged DEF IInv, BuildersTyped, graphVars
    <3>3. ASSUME NEW g \in Graphs
          PROVE  Numbered(g)' /\ BuilderSound(g)' /\ UnusedSound(g)' /\ CopySound(g)'
      <4>1. Numbered(g) /\ BuilderSound(g) /\ UnusedSound(g) /\ CopySound(g)
        BY DEF IInv
      <4>2. Numbered(g)' /\ UnusedSound(g)'
        BY <3>1, <4>1 DEF Numbered, UnusedSound
      <4>3. BuilderSound(g)'
        BY <3>1, <4>1 DEF BuilderSound
      <4>4. CopySound(g)'
        BY <3>1, <4>1 DEF CopySound
      <4> QED  BY <4>2, <4>3, <4>4
    <3> QED  BY <3>2, <3>3 DEF IInv
  <2> QED  BY <2>1, <2>2, <2>3 DEF Next
<1> QED  BY <1>1, InitIInv, PTL DEF Spec

(***************************************************************************)
(* Builders share nothing: whatever one reaches is of its own graph.        *)
(***************************************************************************)
THEOREM BuildersAreIsolated == Spec => []Isolated
<1>1. IInv => Isolated
  <2> SUFFICES ASSUME IInv, NEW g \in Graphs
               PROVE  /\ Nodes(g) \subseteq DOMAIN oNode
                      /\ Range(aRegisters[g]) \cup Range(aMemoryMap[g]) \subseteq Nodes(g)
                      /\ Range(aIndex[g]) \subseteq Nodes(g)
                      /\ \A n \in Nodes(g) : /\ Range(oNode[n].aInputNodes) \subseteq Nodes(g)
                                             /\ oNode[n].aOutputNodes \subseteq Nodes(g)
    BY DEF Isolated
  <2>1. NodesSound(g) /\ IndexSound(g) /\ BuilderSound(g)
    BY DEF IInv, GraphsSound
  <2>2. Range(aIndex[g]) \subseteq Nodes(g)
    <3> SUFFICES ASSUME NEW k \in DOMAIN aIndex[g]  PROVE  aIndex[g][k] \in Nodes(g)
      BY DEF Range
    <3> QED  BY <2>1 DEF IndexSound
  <2> QED  BY <2>1, <2>2 DEF NodesSound, BuilderSound
<1> QED  BY <1>1, Invariance, PTL

(***************************************************************************)
(* The arcs in both directions match in every graph, and a node is newer    *)
(* than its inputs.                                                         *)
(***************************************************************************)
THEOREM ArcsAlwaysMatch == Spec => []ArcsMatch
<1>1. IInv => ArcsMatch
  <2> SUFFICES ASSUME IInv  PROVE  ArcsMatch
    OBVIOUS
  <2>1. \A g \in Graphs : NodesSound(g) /\ ArcsSound(g)
    BY DEF IInv, GraphsSound
  <2>2. InputsAreOlder
    BY <2>1 DEF IInv, GraphsSound, GraphsTyped, NodesSound, InputsAreOlder
  <2>3. \A g \in Graphs : \A n \in Nodes(g) :
          oNode[n].aInputNodesUnique = Range(oNode[n].aInputNodes)
    <3> SUFFICES ASSUME NEW g \in Graphs, NEW n \in Nodes(g)
                 PROVE  oNode[n].aInputNodesUnique = Range(oNode[n].aInputNodes)
      OBVIOUS
    <3> DEFINE x == oNode[n]
    <3>1. IsNode(x)
      BY <2>1 DEF NodesSound
    <3> HIDE DEF x
    <3>2. x.aInputNodesUnique = Range(x.aInputNodes)
      BY <3>1 DEF IsNode
    <3> QED  BY <3>2 DEF x
  <2> QED  BY <2>1, <2>2, <2>3 DEF ArcsMatch, ArcsSound
<1> QED  BY <1>1, Invariance, PTL

(***************************************************************************)
(* An expression has one node in a graph, and the index finds it.           *)
(***************************************************************************)
THEOREM IndexIsExact == Spec => []IndexExact
<1>1. IInv => IndexExact
  BY DEF IInv, GraphsSound, IndexSound, IndexExact, Key
<1> QED  BY <1>1, Invariance, PTL

(***************************************************************************)
(* The memory map holds what the graph's own STORE nodes have stored.       *)
(***************************************************************************)
THEOREM StoresAlwaysMatch == Spec => []StoresMatch
<1>1. IInv => StoresMatch
  BY DEF IInv, BuilderSound, StoresMatch
<1> QED  BY <1>1, Invariance, PTL

-----------------------------------------------------------------------------
(* A fork is a copy *)

\* Looking inputs up in another graph keeps their ids.
LEMMA SameIds ==
  ASSUME NEW h, NEW f
  PROVE  /\ Ids(InGraph(h, f)) = Ids(f)
         /\ Range(InGraph(h, f)) = {<<h, Id(m)>> : m \in Range(f)}
         /\ {Id(m) : m \in Range(InGraph(h, f))} = {Id(m) : m \in Range(f)}
<1>1. Ids(InGraph(h, f)) = Ids(f)
  BY DEF Ids, InGraph, Id
<1>2. Range(InGraph(h, f)) = {<<h, Id(m)>> : m \in Range(f)}
  BY DEF Range, InGraph
<1>3. {Id(m) : m \in Range(InGraph(h, f))} = {Id(m) : m \in Range(f)}
  <2> DEFINE copies == Range(InGraph(h, f))
             R == Range(f)
  <2>1. copies = {<<h, Id(m)>> : m \in R}
    BY <1>2
  <2>2. \A m : Id(<<h, Id(m)>>) = Id(m)
    BY DEF Id
  <2> HIDE DEF copies, R
  <2>3. {Id(m) : m \in copies} = {Id(m) : m \in R}
    BY <2>1, <2>2
  <2> QED  BY <2>3 DEF copies, R
<1> QED  BY <1>1, <1>2, <1>3

\* The ids of what a builder holds stay when the fork looks it up.
LEMMA HeldIds ==
  ASSUME IInv, NEW h \in Graphs, status[h] = "copying", aIdMap[h] = aIdMap[copyOf[h]],
         NEW values, Range(values) \subseteq Nodes(copyOf[h])
  PROVE  Ids([k \in DOMAIN values |-> FindById(h, Id(values[k]))]) = Ids(values)
<1>1. ASSUME NEW k \in DOMAIN values
      PROVE  Id(FindById(h, Id(values[k]))) = Id(values[k])
  <2>1. values[k] \in Nodes(copyOf[h])
    BY DEF Range
  <2>2. FindById(h, Id(values[k])) = <<h, Id(values[k])>>
    BY <2>1, CompleteFacts
  <2> QED  BY <2>2 DEF Id
<1> QED  BY <1>1 DEF Ids

\* What Contents tells of a node.
NodeContents(n) ==
  <<oNode[n].label, Ids(oNode[n].aInputNodes),
    {Id(m) : m \in oNode[n].aInputNodesUnique}, {Id(m) : m \in oNode[n].aOutputNodes}>>

LEMMA CopiedContents ==
  ASSUME IInv, NEW h \in Graphs, status[h] = "copying", aIdMap[h] = aIdMap[copyOf[h]],
         NEW i \in aIdMap[h]
  PROVE  NodeContents(<<h, i>>) = NodeContents(<<copyOf[h], i>>)
<1> DEFINE g == copyOf[h]
           m == <<h, i>>
           n == <<g, i>>
<1>1. g \in Graphs /\ n \in Nodes(g) /\ m \in Nodes(h)
  BY ForkFacts DEF Nodes
<1>2. \A k \in Graphs : NodesSound(k) /\ ArcsSound(k)
  BY DEF IInv, GraphsSound
<1>3. \A j \in aIdMap[g] :
        /\ <<g, j>> \in Nodes(g) /\ <<h, j>> \in Nodes(h)
        /\ oNode[<<h, j>>].label = oNode[<<g, j>>].label
        /\ oNode[<<h, j>>].aInputNodes = InGraph(h, oNode[<<g, j>>].aInputNodes)
  <2> TAKE j \in aIdMap[g]
  <2>1. <<g, j>> \in Nodes(g) /\ Id(<<g, j>>) = j
    BY DEF Nodes, Id
  <2> QED  BY <2>1, CompleteFacts
<1>4. /\ oNode[m].label = oNode[n].label
      /\ Ids(oNode[m].aInputNodes) = Ids(oNode[n].aInputNodes)
      /\ {Id(x) : x \in Range(oNode[m].aInputNodes)} = {Id(x) : x \in Range(oNode[n].aInputNodes)}
  <2>1. i \in aIdMap[g]
    OBVIOUS
  <2>2. oNode[m].aInputNodes = InGraph(h, oNode[n].aInputNodes)
    BY <1>3, <2>1
  <2>3. oNode[m].label = oNode[n].label
    BY <1>3, <2>1
  <2> DEFINE f == oNode[n].aInputNodes
  <2>4. oNode[m].aInputNodes = InGraph(h, f)
    BY <2>2
  <2> HIDE DEF f
  <2>5. /\ Ids(oNode[m].aInputNodes) = Ids(f)
        /\ {Id(x) : x \in Range(oNode[m].aInputNodes)} = {Id(x) : x \in Range(f)}
    <3> DEFINE c == oNode[m].aInputNodes
    <3>1. /\ Ids(InGraph(h, f)) = Ids(f)
          /\ {Id(x) : x \in Range(InGraph(h, f))} = {Id(x) : x \in Range(f)}
      BY SameIds
    <3>2. c = InGraph(h, f)
      BY <2>4
    <3> HIDE DEF c
    <3>3. Ids(c) = Ids(f) /\ {Id(x) : x \in Range(c)} = {Id(x) : x \in Range(f)}
      BY <3>1, <3>2, Zenon
    <3> QED  BY <3>3 DEF c
  <2> QED  BY <2>3, <2>5 DEF f
<1>5. \A k \in Graphs : \A x \in Nodes(k) :
        oNode[x].aInputNodesUnique = Range(oNode[x].aInputNodes)
  <2> SUFFICES ASSUME NEW k \in Graphs, NEW x \in Nodes(k)
               PROVE  oNode[x].aInputNodesUnique = Range(oNode[x].aInputNodes)
    OBVIOUS
  <2> DEFINE y == oNode[x]
  <2>1. IsNode(y)
    BY <1>2 DEF NodesSound
  <2> HIDE DEF y
  <2>2. y.aInputNodesUnique = Range(y.aInputNodes)
    BY <2>1 DEF IsNode
  <2> QED  BY <2>2 DEF y
<1>6. \A j \in aIdMap[g] :
        <<h, j>> \in oNode[m].aOutputNodes <=> <<g, j>> \in oNode[n].aOutputNodes
  <2> TAKE j \in aIdMap[g]
  <2>1. <<h, j>> \in oNode[m].aOutputNodes <=> m \in Range(oNode[<<h, j>>].aInputNodes)
    BY <1>1, <1>2, <1>3 DEF ArcsSound
  <2>2. <<g, j>> \in oNode[n].aOutputNodes <=> n \in Range(oNode[<<g, j>>].aInputNodes)
    BY <1>1, <1>2, <1>3 DEF ArcsSound
  <2> DEFINE f == oNode[<<g, j>>].aInputNodes
  <2>3. Range(oNode[<<h, j>>].aInputNodes) = {<<h, Id(x)>> : x \in Range(f)}
    BY <1>3, SameIds
  <2>4. Range(f) \subseteq Nodes(g)
    BY <1>1, <1>2, <1>3 DEF NodesSound
  <2> HIDE DEF f
  <2>5. m \in {<<h, Id(x)>> : x \in Range(f)} <=> n \in Range(f)
    <3>1. ASSUME NEW x \in Range(f), m = <<h, Id(x)>>  PROVE  n \in Range(f)
      <4>1. Id(x) = i
        BY <3>1
      <4>2. x = <<g, Id(x)>>
        BY <2>4, NodesFacts
      <4> QED  BY <4>1, <4>2
    <3>2. ASSUME n \in Range(f)  PROVE  m \in {<<h, Id(x)>> : x \in Range(f)}
      <4>1. Id(n) = i
        BY DEF Id
      <4> QED  BY <3>2, <4>1
    <3> QED  BY <3>1, <3>2
  <2> QED  BY <2>1, <2>2, <2>3, <2>5 DEF f
<1>7. {Id(x) : x \in oNode[m].aOutputNodes} = {Id(x) : x \in oNode[n].aOutputNodes}
  <2>1. oNode[m].aOutputNodes \subseteq Nodes(h) /\ oNode[n].aOutputNodes \subseteq Nodes(g)
    BY <1>1, <1>2 DEF NodesSound
  <2>2. \A x \in oNode[m].aOutputNodes : <<g, Id(x)>> \in oNode[n].aOutputNodes
    BY <1>6, <2>1, NodesFacts
  <2>3. \A x \in oNode[n].aOutputNodes : <<h, Id(x)>> \in oNode[m].aOutputNodes
    BY <1>6, <2>1, NodesFacts
  <2>4. \A k, j : Id(<<k, j>>) = j
    BY DEF Id
  <2> HIDE DEF g, m, n
  <2> QED  BY <2>2, <2>3, <2>4
<1> QED  BY <1>1, <1>4, <1>5, <1>7 DEF NodeContents

LEMMA EndForkCopies ==
  ASSUME IInv, NEW h \in Graphs, EndFork(h)
  PROVE  Contents(h)' = Contents(copyOf[h])
<1> DEFINE g == copyOf[h]
<1>1. /\ status[h] = "copying" /\ aIdMap[h] = aIdMap[g]
      /\ oNode' = oNode /\ aIdMap' = aIdMap /\ dwNodeCounter' = dwNodeCounter
  BY DEF EndFork, graphVars
<1>2. g \in Graphs
  BY <1>1, ForkFacts
<1>3. /\ aRegisters'[h] = [r \in DOMAIN aRegisters[g] |-> FindById(h, Id(aRegisters[g][r]))]
      /\ aMemoryMap'[h] = [j \in DOMAIN aMemoryMap[g] |-> FindById(h, Id(aMemoryMap[g][j]))]
  BY DEF IInv, BuildersTyped, EndFork, RegistersOfFork, MemoryMapOfFork
<1>4. Range(aRegisters[g]) \subseteq Nodes(g) /\ Range(aMemoryMap[g]) \subseteq Nodes(g)
  BY <1>2 DEF IInv, BuilderSound
<1>5. Ids(aRegisters'[h]) = Ids(aRegisters[g])
  BY <1>1, <1>3, <1>4, HeldIds
<1>6. Ids(aMemoryMap'[h]) = Ids(aMemoryMap[g])
  BY <1>1, <1>3, <1>4, HeldIds
<1>7. dwNodeCounter'[h] = dwNodeCounter[g]
  BY <1>1 DEF IInv, CopySound
<1>8. \A i \in aIdMap[h] : NodeContents(<<h, i>>) = NodeContents(<<g, i>>)
  BY <1>1, CopiedContents
<1>9. Contents(h)' = [nodes |-> [i \in aIdMap[h] |-> NodeContents(<<h, i>>)],
                      registers |-> Ids(aRegisters'[h]), memory |-> Ids(aMemoryMap'[h]),
                      counter |-> dwNodeCounter'[h]]
  BY <1>1 DEF Contents, NodeContents, Ids
<1>10. Contents(g) = [nodes |-> [i \in aIdMap[g] |-> NodeContents(<<g, i>>)],
                      registers |-> Ids(aRegisters[g]), memory |-> Ids(aMemoryMap[g]),
                      counter |-> dwNodeCounter[g]]
  BY DEF Contents, NodeContents
<1>11. [i \in aIdMap[h] |-> NodeContents(<<h, i>>)] = [i \in aIdMap[g] |-> NodeContents(<<g, i>>)]
  <2> HIDE DEF g
  <2> QED  BY <1>1, <1>8
<1> HIDE DEF g
<1>12. Contents(h)' = Contents(g)
  BY <1>5, <1>6, <1>7, <1>9, <1>10, <1>11
<1> QED  BY <1>12 DEF g

(***************************************************************************)
(* A fork starts out as an exact copy of its builder: when Broker::fork     *)
(* returns, nodes, arcs, registers, memory map and counter are the same but *)
(* for the graph they belong to.                                            *)
(***************************************************************************)
THEOREM ForksAreCopies == Spec => ForkIsCopy
<1>1. IInv /\ [Next]_vars =>
        \A h \in Graphs : status[h] = "copying" /\ status'[h] = "building" =>
          Contents(h)' = Contents(copyOf[h])
  <2> SUFFICES ASSUME IInv, [Next]_vars, NEW h \in Graphs,
                      status[h] = "copying", status'[h] = "building"
               PROVE  Contents(h)' = Contents(copyOf[h])
    OBVIOUS
  <2>1. CASE UNCHANGED vars
    BY <2>1 DEF vars
  <2>2. ASSUME NEW g \in Graphs, Build(g)  PROVE  FALSE
    BY <2>2 DEF Build, Operation, NewLoad, NewStore
  <2>3. ASSUME NEW k \in Graphs, Fork(k)  PROVE  Contents(h)' = Contents(copyOf[h])
    <3>1. ASSUME NEW g \in Graphs, BeginFork(g, k)  PROVE  FALSE
      BY <3>1 DEF BeginFork, IInv, BuildersTyped
    <3>2. ASSUME NEW i, CopyNode(k, i)  PROVE  FALSE
      BY <3>2 DEF CopyNode
    <3>3. ASSUME FailFork(k)  PROVE  FALSE
      BY <3>3, ForkFacts DEF FailFork, IInv, BuildersTyped
    <3>4. ASSUME EndFork(k)  PROVE  Contents(h)' = Contents(copyOf[h])
      <4>1. k = h
        BY <3>4, ForkFacts DEF EndFork, IInv, BuildersTyped
      <4> QED  BY <3>4, <4>1, EndForkCopies
    <3> QED  BY <2>3, <3>1, <3>2, <3>3, <3>4 DEF Fork
  <2> QED  BY <2>1, <2>2, <2>3 DEF Next
<1> QED  BY <1>1, Invariance, PTL DEF Spec, ForkIsCopy
===============================================================================
