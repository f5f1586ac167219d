--------------------------- MODULE SignatureSearch ----------------------------
(***************************************************************************)
(* A signature definition from its text to a result: the parser, and the    *)
(* evaluator that looks for what it has built in the graph of a function    *)
(* (ControlDialog::ConstructSignatures, CoordinatorThread::run).            *)
(***************************************************************************)
EXTENDS SignatureText, SignatureEvaluator

CONSTANTS Definitions, \* the definitions, as their authors mean them
          CodeGraphs,  \* the graphs they are looked for in
          MaxNodes     \* bound on the nodes of a variant that is looked for

vars == <<parserVars, evaluatorVars>>

(***************************************************************************)
(* The graph of a variant, as the evaluator sees it: the nodes to keep and  *)
(* those they are made of.                                                  *)
(***************************************************************************)
RECURSIVE Subnodes(_)
Subnodes(n) == {n} \cup UNION {Subnodes(m) : m \in ToSet(n.aInputNodes)}

\* Mutant of ValueOf: -1 is taken for an index
ValueOfAnyRef(n) ==
  CASE Is("CONSTANT", n) -> ToString(n.payload)
    [] Is("OPAQUE", n) -> ToString(n.dwOpaqueRefId)
    [] OTHER -> NoRef

ValueOf(n) ==
  CASE Is("CONSTANT", n) -> ToString(n.payload)
    [] Is("OPAQUE", n) /\ n.dwOpaqueRefId # -1 -> ToString(n.dwOpaqueRefId)
    [] OTHER -> NoRef

\* The nodes, in any order, are numbered.
GraphOf(nodes) ==
  [type |-> [i \in DOMAIN nodes |-> nodes[i].eNodeType],
   value |-> [i \in DOMAIN nodes |-> ValueOf(nodes[i])],
   inputs |-> [i \in DOMAIN nodes |->
                 [k \in DOMAIN nodes[i].aInputNodes |->
                    CHOOSE j \in DOMAIN nodes : nodes[j] = Input(nodes[i], k)]]]
VariantNodes(r) == UNION {Subnodes(n) : n \in r.aNodesToKeep}
Searchable == \A i \in DOMAIN oResult : Cardinality(VariantNodes(oResult[i])) <= MaxNodes

Init == ParserInit /\ EvaluatorInit

\* Parsed definitions are evaluated, on every graph: here, on one of them.
StartEvaluation ==
  /\ ePhase = "OK" /\ Searchable
  /\ \E oGraph \in CodeGraphs :
       Evaluate([i \in DOMAIN oResult |-> GraphOf(SetToSeq(VariantNodes(oResult[i])))], oGraph)
  /\ UNCHANGED parserVars

EvaluatorStep == Step /\ UNCHANGED parserVars

Next ==
  \/ ParserStep /\ UNCHANGED evaluatorVars
  \/ StartEvaluation
  \/ EvaluatorStep
  \/ TimeIsUp /\ UNCHANGED parserVars

\* Evaluate runs as a task of its own, and waits for nothing.
Spec == Init /\ [][Next]_vars /\ WF_vars(EvaluatorStep)

-----------------------------------------------------------------------------
(* Properties *)

\* Parse returns; nothing of what it returns changes later.
ParseReturns == ePhase \in {"OK", "NOK"} /\ pc = "idle"

(***************************************************************************)
(* Going back and trying the next alternative leaves no traces in what is   *)
(* returned: a definition that is written out is read as it was meant, its  *)
(* variants with their nodes and the number of their opaque types, nothing  *)
(* of one in the next; and it is rejected if, and only if, a variant        *)
(* defines a label twice.  (The two kinds of expressions that are not read  *)
(* as written are named in SignatureText.)                                  *)
(***************************************************************************)
ParsedAsWritten ==
  ParseReturns =>
    \A d \in Definitions :
      szSignatureDefinition = WrittenDefinition(d) /\ IsReadAsWritten(d) =>
        /\ (ePhase = "NOK") = (\E i \in DOMAIN d : Redefines(d[i]))
        /\ ePhase = "OK" =>
             Len(oResult) = Len(d) /\ \A i \in DOMAIN d : IsVariant(oResult[i], d[i])

(***************************************************************************)
(* The evaluator has an array of dwNumOpaqueRefs opaque types, and takes    *)
(* dwOpaqueRefId, unless it is -1, as an index without testing it: the id   *)
(* of every OPAQUE node of a variant, of whatever text, is in the array.    *)
(***************************************************************************)
OpaqueRefsInRange ==
  ParseReturns => \A i \in DOMAIN oResult :
    \A n \in VariantNodes(oResult[i]) :
      Is("OPAQUE", n) => n.dwOpaqueRefId \in -1..(oResult[i].dwNumOpaqueRefs - 1)

(***************************************************************************)
(* What the parser has built is what the evaluator takes for granted:       *)
(* graphs that are closed and have no cycles, and opaque types it knows.    *)
(***************************************************************************)
ImplementsEvaluator == EvaluatorSpec

\* Every evaluation comes to an end, even if time is never up.
EvaluationEnds == pc = "pass1" ~> Over
=============================================================================
