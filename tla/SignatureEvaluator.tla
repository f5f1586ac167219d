-------------------------- MODULE SignatureEvaluator --------------------------
(***************************************************************************)
(* SignatureEvaluatorImpl (SignatureEvaluator.hpp, SignatureEvaluator.cpp): *)
(* the search for a signature in the data flow graph of a function.         *)
(*                                                                          *)
(* Pass 1 finds for every node of the signature the nodes of the code that  *)
(* may stand for it; the candidates are a sparse matrix.  PruneFlagged      *)
(* removes candidates whose neighbours have none.  Pass 2 settles one node  *)
(* of the signature after the other, prunes, and goes back when it fails.   *)
(* Pass2Recurse calls itself: its calls under way are the frames here.      *)
(*                                                                          *)
(* A word of the matrix holds the candidates of one signature node among    *)
(* BlockSize code nodes, and is erased with its last candidate.  Valid and  *)
(* undefined are never told apart, and no more are invalid and unexplored,  *)
(* once pass 1 is over.  The clock is a flag: the time of evaluation is up, *)
(* or not.                                                                  *)
(***************************************************************************)
EXTENDS Integers, FiniteSets, SequencesExt

CONSTANTS Refs,         \* the names of opaque types: OPAQUE<ref>
          BlockSize,    \* code nodes in a word of the matrix: 32
          MaskBits      \* bits of 0x3f, the mask that FlagMap tests with: 6

ASSUME BlockSizeAssumption == BlockSize \in Nat \ {0} /\ MaskBits \in 1..BlockSize

VARIABLES
  oSignatureDefinition, \* the definition that is evaluated: its variants
  oCodeGraph,
  itSig,             \* the variant that oSignatureGraph points to
  order,             \* the order in which its graph is iterated
  oMatrix,           \* signature node -> its candidates
  aStack,            \* the matrices that were pushed
  oFlagMap,          \* word -> its bits that are set
  oOpaqueAssignment, \* opaque type -> the type of code node it stands for
  frames,            \* the calls of Pass2Recurse that have settled a node
  oMapping,          \* code node -> signature node, of the match
  late,              \* more than dwMaxEvaluationTime has passed
  pc                 \* what is done next

inputVars == <<oSignatureDefinition, oCodeGraph>>
searchVars == <<oMatrix, aStack, oFlagMap, oOpaqueAssignment>>
evaluatorVars == <<inputVars, itSig, order, searchVars, frames, oMapping, late, pc>>

-----------------------------------------------------------------------------
(* Graphs: type, value (of a constant, or the opaque type) and inputs of a  *)
(* node; nodes are numbered, and inputs have lower numbers.                 *)

oSignatureGraph == oSignatureDefinition[itSig]
SignatureNodes == DOMAIN oSignatureGraph.type
CodeNodes == DOMAIN oCodeGraph.type

InputsIn(g, n) == ToSet(g.inputs[n])
OutputsIn(g, n) == {m \in DOMAIN g.type : n \in InputsIn(g, m)}

\* the inputs of these are compared one by one
OrderSensitive == {"STORE", "LOAD", "SHIFT", "ROTATE"}
InOrder(s) == oSignatureGraph.type[s] \in OrderSensitive

\* dwOpaqueRefId = -1, and the value of a node of any other type
NoRef == "none"
ASSUME RefsAssumption == NoRef \notin Refs

(***************************************************************************)
(* What Evaluate is given: graphs that are closed, of finitely many nodes;  *)
(* those of the variants have no cycles, and opaque types of the evaluator. *)
(***************************************************************************)
IsGraph(g) ==
  /\ DOMAIN g.type \subseteq Nat /\ IsFiniteSet(DOMAIN g.type)
  /\ g.inputs \in [DOMAIN g.type -> Seq(DOMAIN g.type)]

IsVariantGraph(g) ==
  /\ IsGraph(g)
  /\ \A S \in SUBSET DOMAIN g.type : S # {} => \E s \in S : OutputsIn(g, s) \cap S = {}
  /\ \A s \in DOMAIN g.type : g.type[s] = "OPAQUE" => g.value[s] \in Refs \cup {NoRef}

IsEvaluable(oDefinition, oGraph) ==
  /\ oDefinition \in Seq(Range(oDefinition))
  /\ \A i \in DOMAIN oDefinition : IsVariantGraph(oDefinition[i])
  /\ IsGraph(oGraph)

RefOf(s) == IF oSignatureGraph.type[s] = "OPAQUE" THEN oSignatureGraph.value[s] ELSE NoRef

\* node_type_spec_t; Matches is equality
Unknown == <<"UNKNOWN">>
TypeSpec(c) == <<oCodeGraph.type[c], oCodeGraph.value[c]>>

IsCandidate(s, c) ==
  CASE oSignatureGraph.type[s] = "OPAQUE" -> TRUE
    [] oSignatureGraph.type[s] = "CONSTANT" ->
         TypeSpec(c) = <<"CONSTANT", oSignatureGraph.value[s]>>
    [] OTHER -> oSignatureGraph.type[s] = oCodeGraph.type[c]

-----------------------------------------------------------------------------
(* The sparse matrix *)

None == -1
Lowest(S) == IF S = {} THEN None ELSE CHOOSE c \in S : \A d \in S : c <= d

Block(c) == c \div BlockSize
Bit(c) == c % BlockSize

FirstCandidate(m, s) == Lowest(m[s])

\* Mutant of After: find in place of lower_bound, nothing follows a word that
\* was erased
AfterFound(row, c) ==
  {d \in row : c < d /\ \E e \in row : Block(e) = Block(c)}

(***************************************************************************)
(* The candidates NextCandidate looks through: from the first word that is  *)
(* not before that of c, and in that word those behind the bit of c.  When  *)
(* the word of c was erased meanwhile, it is a later word.                  *)
(***************************************************************************)
After(row, c) ==
  LET words == {Block(d) : d \in {e \in row : Block(e) >= Block(c)}}
  IN {d \in row : \/ Block(d) = Lowest(words) /\ Bit(d) > Bit(c)
                  \/ words # {} /\ Block(d) > Lowest(words)}

NextCandidate(m, s, c) == Lowest(After(m[s], c))

\* Mutant of NextInLoop: the loop goes on with the candidate it has
SameInLoop(m, s, c) == c

\* the candidate that follows in the loop of Pass2Recurse
NextInLoop(m, s, c) == NextCandidate(m, s, c)

\* The loop over the candidates of a row that invalidates those not to keep.
Sweep(row, kept) ==
  LET sweep[at \in (SUBSET row) \X (row \cup {None})] ==
        LET left == IF at[2] \in kept THEN at[1] ELSE at[1] \ {at[2]}
        IN IF at[2] = None THEN at[1] ELSE sweep[<<left, Lowest(After(left, at[2]))>>]
  IN sweep[<<row, Lowest(row)>>]

-----------------------------------------------------------------------------
(* FlagMap: the code nodes that are assigned, 64 bits for each 32 nodes *)

WordSize == 2 * BlockSize

\* 1 << (id & 0x3f): an int, so that the x86 takes the count modulo 32 and
\* the sign is extended
IntBit(c) == IF Bit(c) = BlockSize - 1 THEN (BlockSize - 1)..(WordSize - 1) ELSE {Bit(c)}

Flagged(flags, c) ==
  [b \in DOMAIN flags \cup {Block(c)} |->
     IF b # Block(c) THEN flags[b]
     ELSE IF b \in DOMAIN flags THEN flags[b] \cup {c % WordSize}
     ELSE IntBit(c)]

\* Mutant of Unflagged: the flag stays
UnflaggedNever(flags, c) == flags

Unflagged(flags, c) == [flags EXCEPT ![Block(c)] = @ \ IntBit(c)]

\* (1 << id & 0x3f): the shift comes first
IsAssigned(c) ==
  /\ Block(c) \in DOMAIN oFlagMap
  /\ Bit(c) \in 0..(MaskBits - 1)
  /\ Bit(c) \in oFlagMap[Block(c)]

-----------------------------------------------------------------------------
(* Pass 1 *)

\* What a step that shrinks or extends a matrix makes of m in the end.
Matrices == [SignatureNodes -> SUBSET CodeNodes]
Settle(m, step) ==
  LET settle[n \in Matrices] == IF step[n] = n THEN n ELSE settle[step[n]]
  IN settle[m]

\* The candidates of every node, if only inputs counted: Pass1Recurse.
Fits(m, s, c) ==
  LET ins == oSignatureGraph.inputs[s]
      outs == oCodeGraph.inputs[c]
  IN /\ IsCandidate(s, c)
     /\ IF InOrder(s)
        THEN Len(ins) = Len(outs) => \A k \in DOMAIN ins : outs[k] \in m[ins[k]]
        ELSE \A e \in ToSet(ins) : ToSet(outs) \cap m[e] # {}

Fitting ==
  Settle([s \in SignatureNodes |-> CodeNodes],
         [m \in Matrices |-> [s \in SignatureNodes |-> {c \in m[s] : Fits(m, s, c)}]])

\* The pairs that the call for s and c looks at: up to the first input that
\* nothing fits.
Visits(fitting, s, c, inputOrder) ==
  LET outs == oCodeGraph.inputs[c]
      ins == IF InOrder(s) THEN oSignatureGraph.inputs[s] ELSE inputOrder
      IsInput(k) == ins[k] \in InputsIn(oSignatureGraph, s)
      Looked(k) == IF InOrder(s) THEN {outs[k]} ELSE ToSet(outs)
      Fails(k) == IsInput(k) /\ Looked(k) \cap fitting[ins[k]] = {}
  IN IF ~IsCandidate(s, c) \/ (InOrder(s) /\ Len(ins) # Len(outs)) THEN {}
     ELSE UNION {{ins[k]} \X Looked(k) :
                   k \in {i \in DOMAIN ins : IsInput(i) /\ \A j \in 1..(i - 1) : ~Fails(j)}}

SignatureRoots == {s \in SignatureNodes : OutputsIn(oSignatureGraph, s) = {}}

\* The pairs that are visited, from the roots down, and found to fit.
Visited(fitting, inputOrder) ==
  LET Reached(m, s) ==
        {c \in CodeNodes : \E t \in OutputsIn(oSignatureGraph, s) : \E d \in m[t] :
                             <<s, c>> \in Visits(fitting, t, d, inputOrder)}
  IN Settle([s \in SignatureNodes |-> IF s \in SignatureRoots THEN CodeNodes ELSE {}],
            [m \in Matrices |-> [s \in SignatureNodes |-> m[s] \cup Reached(m, s)]])

Candidates(fitting, inputOrder) ==
  LET visited == Visited(fitting, inputOrder)
  IN [s \in SignatureNodes |-> fitting[s] \cap visited[s]]

-----------------------------------------------------------------------------
(* PruneFlagged *)

\* the neighbours of s have candidates among those of c
Supported(m, s, c) ==
  LET ins == oSignatureGraph.inputs[s]
      outs == oCodeGraph.inputs[c]
  IN /\ IF InOrder(s)
        THEN Len(ins) = Len(outs) /\ \A k \in DOMAIN ins : outs[k] \in m[ins[k]]
        ELSE /\ Cardinality(ToSet(ins)) <= Cardinality(ToSet(outs))
             /\ \A e \in ToSet(ins) : m[e] \cap ToSet(outs) # {}
     /\ \A t \in OutputsIn(oSignatureGraph, s) : m[t] \cap OutputsIn(oCodeGraph, c) # {}

(***************************************************************************)
(* The loop starts over as long as it has invalidated anything: whatever    *)
(* the order, it ends with the largest matrix that supports itself.  It     *)
(* gives up when a node is left without candidates, or the time is up.      *)
(***************************************************************************)
Pruned(m) ==
  Settle(m, [n \in Matrices |-> [s \in SignatureNodes |-> {c \in n[s] : Supported(n, s, c)}]])

PruneFlagged(m) == ~late /\ {} \notin Range(Pruned(m))

-----------------------------------------------------------------------------
(* OpaqueAssignment: a node without an opaque type is always ALREADY_SET *)

Assign(s, c) ==
  CASE RefOf(s) = NoRef -> "ALREADY_SET"
    [] RefOf(s) # NoRef /\ oOpaqueAssignment[RefOf(s)] = Unknown -> "OK"
    [] OTHER -> IF oOpaqueAssignment[RefOf(s)] = TypeSpec(c) THEN "ALREADY_SET" ELSE "NOK"

Assigned(s, c) ==
  IF Assign(s, c) = "OK" THEN [oOpaqueAssignment EXCEPT ![RefOf(s)] = TypeSpec(c)]
                         ELSE oOpaqueAssignment

Unassigned(s) == [oOpaqueAssignment EXCEPT ![RefOf(s)] = Unknown]

\* s may not stand for c: another node of the signature does, or its type
\* stands for another one
Refused(s, c) == IsAssigned(c) \/ Assign(s, c) = "NOK"

-----------------------------------------------------------------------------
(* Pass 2 *)

\* The matrix without the candidates that an opaque type s, just assigned,
\* rules out.
Claimed(m, s, c) ==
  [t \in SignatureNodes |->
     IF Assign(s, c) = "OK" /\ RefOf(t) = RefOf(s)
     THEN Sweep(m[t], {d \in CodeNodes : TypeSpec(d) = TypeSpec(c)})
     ELSE m[t]]

\* ... and without the other candidates of s.
Settled(m, s, c) == Claimed([m EXCEPT ![s] = Sweep(@, {c})], s, c)

Node == order[Len(frames) + 1]   \* itE of a call that begins
Top == Last(frames)
TopNode == order[Len(frames)]    \* itE of the call that Top is of
HasSingle(s) == NextCandidate(oMatrix, s, FirstCandidate(oMatrix, s)) = None

\* A call goes on: its frame, with the candidate it has settled on, whether
\* it is one of several, and whether it assigned the opaque type.
Frame(each, c, status) == [each |-> each, it |-> c, ok |-> status = "OK"]

\* No action of pass 2 changes these.
KeptInPass2 == <<inputVars, itSig, order, late>>

EvaluatorInit ==
  /\ oSignatureDefinition = <<>>
  /\ oCodeGraph = [type |-> <<>>, value |-> <<>>, inputs |-> <<>>]
  /\ itSig = 1
  /\ order = <<>>
  /\ oMatrix = <<>>
  /\ aStack = <<>>
  /\ oFlagMap = <<>>
  /\ oOpaqueAssignment = [r \in Refs |-> Unknown]
  /\ frames = <<>>
  /\ oMapping = <<>>
  /\ late = FALSE
  /\ pc = "idle"

\* The search for a definition, which may have no variants, begins.
Evaluate(oDefinition, oGraph) ==
  /\ pc = "idle"
  /\ oSignatureDefinition' = oDefinition
  /\ oCodeGraph' = oGraph
  /\ pc' = IF oDefinition = <<>> THEN "failed" ELSE "pass1"
  /\ UNCHANGED <<itSig, order, searchVars, frames, oMapping, late>>

HasNextVariant == itSig < Len(oSignatureDefinition)

\* The variant does not match: what was kept for it is created anew.
NextVariant ==
  /\ IF HasNextVariant /\ ~late
     THEN itSig' = itSig + 1 /\ pc' = "pass1"
     ELSE UNCHANGED itSig /\ pc' = "failed"
  /\ order' = <<>>
  /\ oMatrix' = <<>>
  /\ aStack' = <<>>
  /\ oFlagMap' = <<>>
  /\ oOpaqueAssignment' = [r \in Refs |-> Unknown]
  /\ UNCHANGED <<inputVars, frames, oMapping, late>>

\* The containers are unordered: neither the order of the nodes nor that of
\* their inputs is known.
Orders == SetToSeqs(SignatureNodes)

\* Every node that has no outputs is compared with every node of the code.
Pass1 ==
  /\ pc = "pass1"
  /\ \E m \in {Candidates(fitting, inputOrder) : fitting \in {Fitting},
                           inputOrder \in SetToSeqs(SignatureNodes \ SignatureRoots)} :
       IF (\A s \in SignatureRoots : m[s] # {}) /\ PruneFlagged(m)
       THEN /\ oMatrix' = Pruned(m)
            /\ pc' = "pass2"
            /\ UNCHANGED <<inputVars, itSig, order, aStack, oFlagMap, oOpaqueAssignment,
                           frames, oMapping, late>>
       ELSE NextVariant

Pass2 ==
  /\ pc = "pass2"
  /\ order' \in Orders
  /\ pc' = "call"
  /\ UNCHANGED <<inputVars, itSig, searchVars, frames, oMapping, late>>

CallFails ==
  /\ pc = "call"
  /\ Len(frames) < Len(order)
  /\ HasSingle(Node)
  /\ LET c == FirstCandidate(oMatrix, Node)
     IN \/ Refused(Node, c)
        \/ Assign(Node, c) = "OK" /\ ~PruneFlagged(Claimed(oMatrix, Node, c))
  /\ pc' = "back"
  /\ UNCHANGED <<KeptInPass2, searchVars, frames, oMapping>>

\* The only candidate: a type that it assigns may rule out others.
CallSingle ==
  /\ pc = "call"
  /\ Len(frames) < Len(order)
  /\ HasSingle(Node)
  /\ LET c == FirstCandidate(oMatrix, Node)
         status == Assign(Node, c)
         m == Claimed(oMatrix, Node, c)
     IN /\ ~Refused(Node, c)
        /\ IF status = "OK"
           THEN /\ PruneFlagged(m)
                /\ aStack' = Append(aStack, oMatrix)
                /\ oMatrix' = Pruned(m)
           ELSE UNCHANGED <<aStack, oMatrix>>
        /\ oOpaqueAssignment' = Assigned(Node, c)
        /\ oFlagMap' = Flagged(oFlagMap, c)
        /\ frames' = Append(frames, Frame(FALSE, c, status))
  /\ UNCHANGED <<KeptInPass2, oMapping, pc>>

CallEach ==
  /\ pc = "call"
  /\ Len(frames) < Len(order)
  /\ ~HasSingle(Node)
  /\ frames' = Append(frames, Frame(TRUE, FirstCandidate(oMatrix, Node), "none"))
  /\ pc' = "try"
  /\ UNCHANGED <<KeptInPass2, searchVars, oMapping>>

\* The candidate of the loop cannot be settled on.
Try(c) == ~Refused(TopNode, c) /\ PruneFlagged(Settled(oMatrix, TopNode, c))

TryClaim ==
  /\ pc = "try"
  /\ Top.it # None
  /\ Try(Top.it)
  /\ aStack' = Append(aStack, oMatrix)
  /\ oMatrix' = Pruned(Settled(oMatrix, TopNode, Top.it))
  /\ oOpaqueAssignment' = Assigned(TopNode, Top.it)
  /\ oFlagMap' = Flagged(oFlagMap, Top.it)
  /\ frames' = Append(Front(frames), Frame(TRUE, Top.it, Assign(TopNode, Top.it)))
  /\ pc' = "call"
  /\ UNCHANGED <<KeptInPass2, oMapping>>

TrySkip ==
  /\ pc = "try"
  /\ Top.it # None
  /\ ~late /\ ~Try(Top.it)
  /\ frames' = Append(Front(frames),
                     Frame(TRUE, NextInLoop(oMatrix, TopNode, Top.it), "none"))
  /\ UNCHANGED <<KeptInPass2, searchVars, oMapping, pc>>

\* The loop is over; when time is up, after one more candidate that fails.
TryNone ==
  /\ pc = "try"
  /\ Top.it = None \/ late
  /\ frames' = Front(frames)
  /\ pc' = "back"
  /\ UNCHANGED <<KeptInPass2, searchVars, oMapping>>

\* the test for isomorphism, of the first candidates
Isomorphic ==
  \A s \in SignatureNodes :
    /\ oMatrix[s] # {}
    /\ LET ins == oSignatureGraph.inputs[s]
           outs == oCodeGraph.inputs[FirstCandidate(oMatrix, s)]
       IN IF InOrder(s)
          THEN \A k \in DOMAIN ins : outs[k] \in oMatrix[ins[k]]
          ELSE \A e \in ToSet(ins) : oMatrix[e] \cap ToSet(outs) # {}

\* a code node that stands for two is mapped to the later of them
Mapping ==
  [c \in {FirstCandidate(oMatrix, s) : s \in SignatureNodes} |->
     order[SelectLastInSeq(order, LAMBDA s : FirstCandidate(oMatrix, s) = c)]]

\* What a failed test leaves in oMapping is cleared by the next one.
CallAtEnd ==
  /\ pc = "call"
  /\ Len(frames) = Len(order)
  /\ IF Isomorphic THEN oMapping' = Mapping /\ pc' = "found"
                   ELSE UNCHANGED oMapping /\ pc' = "back"
  /\ UNCHANGED <<KeptInPass2, searchVars, frames>>

\* A call has returned false to the call of Top.
ReturnFalse ==
  /\ pc = "back"
  /\ frames # <<>>
  /\ oFlagMap' = Unflagged(oFlagMap, Top.it)
  /\ IF Top.each \/ Top.ok
     THEN aStack' = Front(aStack) /\ oMatrix' = Last(aStack)
     ELSE UNCHANGED <<aStack, oMatrix>>
  /\ oOpaqueAssignment' = IF Top.ok THEN Unassigned(TopNode) ELSE oOpaqueAssignment
  /\ IF Top.each
     THEN /\ frames' = Append(Front(frames),
                        Frame(TRUE, NextInLoop(oMatrix', TopNode, Top.it), "none"))
          /\ pc' = "try"
     ELSE frames' = Front(frames) /\ UNCHANGED pc
  /\ UNCHANGED <<KeptInPass2, oMapping>>

GiveUp ==
  /\ pc = "back"
  /\ frames = <<>>
  /\ NextVariant

Step ==
  \/ Pass1 \/ Pass2
  \/ CallFails \/ CallSingle \/ CallEach \/ CallAtEnd
  \/ TryClaim \/ TrySkip \/ TryNone
  \/ ReturnFalse \/ GiveUp

Over == pc \in {"found", "failed"}

\* what the display asks of a node of the code
Mark(oCodeNode) == oCodeNode \in DOMAIN oMapping

TimeIsUp ==
  /\ ~late /\ ~Over /\ pc # "idle"
  /\ late' = TRUE
  /\ UNCHANGED <<inputVars, itSig, order, searchVars, frames, oMapping, pc>>

EvaluatorNext ==
  \/ /\ IsEvaluable(oSignatureDefinition', oCodeGraph')
     /\ Evaluate(oSignatureDefinition', oCodeGraph')
  \/ Step
  \/ TimeIsUp

EvaluatorSpec == EvaluatorInit /\ [][EvaluatorNext]_evaluatorVars

-----------------------------------------------------------------------------
(* Properties *)

\* The frames that hold a node: all but that of a loop at its head.
Holding == IF pc = "try" THEN Front(frames) ELSE frames

\* nodes whose flag can be told, whatever other nodes of their word were flagged
Readable == {c \in CodeNodes : Bit(c) < MaskBits /\ Block(c) % 2 = 0}

(***************************************************************************)
(* The calls of Pass2Recurse undo what they did: the matrices that were     *)
(* pushed, the flags and the opaque types are those of the calls under way, *)
(* each undone by the call that did it.  That a call which only found its   *)
(* type already set does not take it back is part of it.                    *)
(***************************************************************************)
Backtracked ==
  /\ Len(aStack) = Cardinality({i \in DOMAIN Holding : Holding[i].each \/ Holding[i].ok})
  /\ \A c \in CodeNodes :
       /\ IsAssigned(c) => \E i \in DOMAIN Holding : Holding[i].it = c
       /\ c \in Readable =>
            Cardinality({i \in DOMAIN Holding : Holding[i].it = c}) =
              (IF IsAssigned(c) THEN 1 ELSE 0)
  /\ \A r \in Refs :
       LET by == {i \in DOMAIN Holding : RefOf(order[i]) = r}
       IN /\ \A i \in by : TypeSpec(Holding[i].it) = oOpaqueAssignment[r]
          /\ Cardinality({i \in by : Holding[i].ok}) =
               (IF oOpaqueAssignment[r] = Unknown THEN 0 ELSE 1)

(***************************************************************************)
(* What a match of the nodes S is: every node of the signature g has a node *)
(* of the code that may stand for it, and that has, in their order where it *)
(* counts, the inputs that its inputs in S stand for; in S an opaque type   *)
(* stands for one type.  A match is one of all nodes.                       *)
(***************************************************************************)
IsMatchOf(S, g, M) ==
  /\ \A s \in DOMAIN g.type :
       LET ins == g.inputs[s]
           outs == oCodeGraph.inputs[M[s]]
       IN /\ \/ g.type[s] = "OPAQUE"
             \/ /\ g.type[s] = oCodeGraph.type[M[s]]
                /\ g.type[s] = "CONSTANT" => g.value[s] = oCodeGraph.value[M[s]]
          /\ IF g.type[s] \in OrderSensitive
             THEN /\ Len(ins) = Len(outs)
                  /\ \A k \in DOMAIN ins : ins[k] \in S => outs[k] = M[ins[k]]
             ELSE \A e \in ToSet(ins) \cap S : M[e] \in ToSet(outs)
  /\ \A s, t \in S :
       /\ g.type[s] = "OPAQUE" /\ g.type[t] = "OPAQUE"
       /\ g.value[s] = g.value[t] /\ g.value[s] # NoRef
       => TypeSpec(M[s]) = TypeSpec(M[t])

IsMatch(g, M) == IsMatchOf(DOMAIN g.type, g, M)

Matched == [s \in SignatureNodes |-> FirstCandidate(oMatrix, s)]

\* The nodes that are left with the one candidate that was settled on.
Kept == {s \in SignatureNodes :
           \E i \in DOMAIN frames : order[i] = s /\ oMatrix[s] = {frames[i].it}}

\* the matrix that pass 2 has begun with
Initial == IF aStack = <<>> THEN oMatrix ELSE aStack[1]

\* When NextCandidate lands in a later word it passes over no candidate.
InStep(row) == \A c, d \in row : Block(c) < Block(d) => Bit(c) < Bit(d)

(***************************************************************************)
(* A match that is reported is one of all nodes that kept the candidate     *)
(* they were settled on, and of those no two have a node of the code whose  *)
(* flag can be told.  Where the code is in several words, NextCandidate may *)
(* pass over candidates when a word is erased under it, and they stay; a    *)
(* node none of whose candidates can be passed over is kept.  When that is  *)
(* so of every node, as in one word, what is reported is a match.           *)
(***************************************************************************)
FoundIsMatch ==
  pc = "found" =>
    /\ IsMatchOf(Kept, oSignatureGraph, Matched)
    /\ \A s, t \in Kept : Matched[s] = Matched[t] /\ Matched[s] \in Readable => s = t
    /\ \A s \in SignatureNodes : /\ Matched[oMapping[Matched[s]]] = Matched[s]
                                 /\ InStep(Initial[s]) => s \in Kept

HasMatch(g) ==
  \E M \in [DOMAIN g.type -> CodeNodes] : IsInjective(M) /\ IsMatch(g, M)

(***************************************************************************)
(* No variant that is given up in time has a match: neither pass 1, nor     *)
(* pruning, nor a flag or an opaque type left from a call that failed rules *)
(* out one.  The first variant that matches is the one that is reported.    *)
(***************************************************************************)
NoMatchMissed ==
  ~late =>
    \A i \in DOMAIN oSignatureDefinition :
      i < itSig \/ pc = "failed" => ~HasMatch(oSignatureDefinition[i])

(***************************************************************************)
(* "candidate is already assigned to a different signature node"            *)
(* (SignatureEvaluator.cpp:318): in a match every node of the signature has *)
(* a node of the code of its own, which is marked for it.                   *)
(***************************************************************************)
EveryNodeMarked ==
  pc = "found" => Cardinality({c \in CodeNodes : Mark(c)}) = Cardinality(SignatureNodes)
=============================================================================
