--------------------------- MODULE SignatureParser ----------------------------
(***************************************************************************)
(* SignatureParserImpl (SignatureParser.cpp): a recursive descent through   *)
(* the text of a signature definition, which builds the nodes of its        *)
(* variants as it goes.                                                     *)
(*                                                                          *)
(* The text is a sequence of tokens: names, numerals, symbols of one or two *)
(* characters, " " (any blanks) and "\n"; an offset is a position in it.    *)
(* How the characters of a name or a numeral are read, and their limits of  *)
(* 31 and 15, are left out; no name begins with TRANSIENT but the keyword.  *)
(*                                                                          *)
(* Every function pushes dwOffset when it begins, and pops or clears it     *)
(* once on every way out: aStack holds the offsets at which the calls under *)
(* way began, and here each operator has the state it began with.  Going    *)
(* back restores the offset, and nothing else: what was built stays built,  *)
(* and is built once more by the next alternative.                          *)
(***************************************************************************)
EXTENDS Expression
LOCAL INSTANCE SequencesExt
LOCAL INSTANCE TLC

CONSTANTS Texts,    \* the definitions that are parsed
          Symbols,  \* the tokens that are neither names nor numerals
          Numerals  \* numeral -> its sign, whether it is written 0x, its digits

VARIABLES
  szSignatureDefinition,
  oParser,      \* dwOffset, labels, opaque types; what oBuilder has built
  aNodesToKeep, \* of oBuilder
  szVariant,    \* of oBuilder
  oResult,      \* the variants that are complete
  ePhase        \* what Parse does next, or the status it has returned

builderVars == <<aNodesToKeep, szVariant, oResult>>
parserVars == <<szSignatureDefinition, oParser, builderVars, ePhase>>

(***************************************************************************)
(* The state that is handed through the functions.  dwOpaqueId stands for   *)
(* oGraph->dwNodeCounter, of which only the OPAQUE nodes take note.         *)
(***************************************************************************)
NoNodes(s) == [s EXCEPT !.aLabeledNodes = <<>>, !.aOpaqueLabels = <<>>,
                        !.aMemoryMap = <<>>, !.dwOpaqueId = 0]
AtOffset(i) == [dwOffset |-> i, aLabeledNodes |-> <<>>, aOpaqueLabels |-> <<>>,
                aMemoryMap |-> <<>>, dwOpaqueId |-> 0]

-----------------------------------------------------------------------------
(* Tokens                                                                   *)

Spaces == {" ", "\n"}
Behind(s) == [s EXCEPT !.dwOffset = @ + 1]

\* Mutant of Restored: ClearOffset in place of PopOffset
NotRestored(s, start) == s

\* PopOffset
Restored(s, start) == [s EXCEPT !.dwOffset = start.dwOffset]

AtEnd(s) == s.dwOffset > Len(szSignatureDefinition)
At(s, tokens) == ~AtEnd(s) /\ szSignatureDefinition[s.dwOffset] \in tokens
AtName(s) == ~AtEnd(s) /\ szSignatureDefinition[s.dwOffset] \notin Spaces \cup Symbols \cup DOMAIN Numerals
Token(s) == szSignatureDefinition[s.dwOffset]

\* The first position from i on with no token of these, or the end.
PastAll(i, tokens) ==
  CHOOSE j \in i..(Len(szSignatureDefinition) + 1) :
    /\ \A k \in i..(j - 1) : szSignatureDefinition[k] \in tokens
    /\ j <= Len(szSignatureDefinition) => szSignatureDefinition[j] \notin tokens
SkipSpaces(s) == [s EXCEPT !.dwOffset = PastAll(@, Spaces)]

\* Where the line of position i ends.
LineEnd(i) == PastAll(i, ToSet(szSignatureDefinition) \ {"\n"})

(***************************************************************************)
(* GetKeyword: the rest of the line behind the keyword, or of the next line *)
(* if that is empty.  It fails, and goes back, without a value.             *)
(***************************************************************************)
Keyword(szValue, s) == [szValue |-> szValue, s |-> s]
KeywordValue(start, s) ==
  IF AtEnd(s) THEN Keyword(<<>>, start)
  ELSE Keyword(SubSeq(szSignatureDefinition, s.dwOffset, LineEnd(s.dwOffset) - 1),
               [s EXCEPT !.dwOffset = LineEnd(@)])
GetKeyword(s, szKeyword) ==
  IF At(SkipSpaces(s), {szKeyword}) /\ At(Behind(SkipSpaces(s)), Spaces)
  THEN KeywordValue(s, SkipSpaces(Behind(SkipSpaces(s))))
  ELSE Keyword(<<>>, s)

-----------------------------------------------------------------------------
(* Expressions.  A function returns a node, or nullptr, and leaves a state. *)

Parsed(node, s) == [node |-> node, s |-> s]
Nothing(s) == Parsed(NullNode, s)
Found(p) == p.node # NullNode
Spaced(p) == [p EXCEPT !.s = SkipSpaces(@)]

\* dwTypeMask: all kinds of expressions, or those that may be an operand.
AnyExpression == {"ADDITION", "SHIFT", "FUNCTION", "NAME", "NUMBER"}
Operand == {"FUNCTION", "NAME", "NUMBER"}

RECURSIVE ParseExpression(_, _)

(***************************************************************************)
(* strtol returns a long, which has 32 bits where the plug-in is built, and *)
(* the greatest one for digits that exceed it; strtoull has room for all.   *)
(***************************************************************************)
NumeralValue(n) == n.sign * (IF n.hex /\ n.digits >= Half THEN Half - 1 ELSE n.digits)
ParseNumber(s) ==
  IF At(s, DOMAIN Numerals) THEN Parsed(NewConstant(NumeralValue(Numerals[Token(s)])), Behind(s))
  ELSE Nothing(s)

\* The offset stays behind a name that is not a label.
ParseName(s) ==
  IF ~AtName(s) THEN Nothing(s)
  ELSE IF Token(s) \in DOMAIN s.aLabeledNodes THEN Parsed(s.aLabeledNodes[Token(s)], Behind(s))
  ELSE Nothing(Behind(s))

(***************************************************************************)
(* The loops over arguments and summands: expressions with a separator in   *)
(* between, or behind the last one.                                         *)
(***************************************************************************)
Elements(nodes, s) == [nodes |-> nodes, s |-> s]
RECURSIVE ParseElements(_, _, _, _)
NextElements(p, nodes, separator, mask) ==
  IF ~Found(p) THEN Elements(nodes, p.s)
  ELSE IF At(SkipSpaces(p.s), {separator})
  THEN ParseElements(Behind(SkipSpaces(p.s)), Append(nodes, p.node), separator, mask)
  ELSE Elements(Append(nodes, p.node), SkipSpaces(p.s))
ParseElements(s, nodes, separator, mask) ==
  NextElements(ParseExpression(SkipSpaces(s), mask), nodes, separator, mask)

\* The operation on the first two nodes, then on its result and the next.
Folded(Operation(_, _), nodes) == FoldLeft(Operation, Head(nodes), Tail(nodes))

\* szOpaqueRef is entered for good, whether or not the function is one.
WithOpaqueRef(s, ref) ==
  [s EXCEPT !.aOpaqueLabels =
     IF ref \in DOMAIN @ THEN @ ELSE @ @@ (ref :> Cardinality(DOMAIN @))]
NoRefName == ""
RefId(s, ref) == IF ref = NoRefName THEN -1 ELSE s.aOpaqueLabels[ref]

ParsedOpaque(s, ref, inputs) ==
  Parsed(OpaqueNode(s.dwOpaqueId, RefId(s, ref), inputs), [s EXCEPT !.dwOpaqueId = @ + 1])

\* The numbers of arguments that a function takes, if it is known.
Takes(szName, n) ==
  \/ szName = "LOAD" /\ n = 1
  \/ szName \in {"STORE", "ROTATE"} /\ n = 2
  \/ szName \in {"XOR", "OR", "AND", "MULT"} /\ n >= 2
  \/ szName = "OPAQUE"

Apply(szName, ref, args, s) ==
  CASE szName = "STORE" ->
         Parsed(StoreNode(args[1], args[2]), [s EXCEPT !.aMemoryMap = Stored(@, args[1], args[2])])
    [] szName = "LOAD" -> Parsed(NewLoad(s.aMemoryMap, args[1]), s)
    [] szName = "XOR" -> Parsed(Folded(NewXor, args), s)
    [] szName = "OR" -> Parsed(Folded(NewOr, args), s)
    [] szName = "AND" -> Parsed(Folded(NewAnd, args), s)
    [] szName = "MULT" -> Parsed(Folded(NewMult, args), s)
    [] szName = "ROTATE" -> Parsed(NewRotate(args[1], args[2]), s)
    [] szName = "OPAQUE" -> ParsedOpaque(s, ref, args)

ParseCall(start, szName, ref, a) ==
  IF At(a.s, {")"}) /\ Takes(szName, Len(a.nodes)) THEN Apply(szName, ref, a.nodes, Behind(a.s))
  ELSE Nothing(Restored(a.s, start))

\* "opaque is allowed with no arguments"
ParseArguments(start, szName, ref, s) ==
  IF At(s, {"("}) THEN ParseCall(start, szName, ref, ParseElements(Behind(s), <<>>, ",", AnyExpression))
  ELSE IF szName = "OPAQUE" THEN ParsedOpaque(s, ref, <<>>)
  ELSE Nothing(Restored(s, start))

\* OPAQUE<ref>: s is at the reference.
ParseOpaqueRef(start, s) ==
  IF AtName(s) /\ At(SkipSpaces(Behind(s)), {">"})
  THEN ParseArguments(start, "OPAQUE", Token(s),
                      SkipSpaces(Behind(SkipSpaces(Behind(WithOpaqueRef(s, Token(s)))))))
  ELSE Nothing(Restored(s, start))

ParseFunction(s) ==
  IF ~AtName(s) THEN Nothing(s)
  ELSE IF Token(s) = "OPAQUE" /\ At(SkipSpaces(Behind(s)), {"<"})
  THEN ParseOpaqueRef(s, SkipSpaces(Behind(SkipSpaces(Behind(s)))))
  ELSE ParseArguments(s, Token(s), NoRefName, SkipSpaces(Behind(s)))

\* A right shift is by a negative amount.
ShiftedBy(start, node, operator, amount) ==
  IF ~Found(amount) THEN Nothing(Restored(amount.s, start))
  ELSE Parsed(NewShift(node, IF operator = ">>" THEN NewMult(amount.node, NewConstant(-1))
                                                ELSE amount.node), amount.s)
ShiftBehind(start, first) ==
  IF Found(first) /\ At(first.s, {">>", "<<"})
  THEN ShiftedBy(start, first.node, Token(first.s),
                 ParseExpression(SkipSpaces(Behind(first.s)), Operand))
  ELSE Nothing(Restored(first.s, start))
ParseShift(s) == ShiftBehind(s, Spaced(ParseExpression(s, Operand)))

SumOf(start, a) ==
  IF Len(a.nodes) < 2 THEN Nothing(Restored(a.s, start)) ELSE Parsed(Folded(NewAdd, a.nodes), a.s)
SumBehind(start, first) ==
  IF Found(first) /\ At(first.s, {"+"})
  THEN SumOf(start, ParseElements(Behind(first.s), <<first.node>>, "+", Operand))
  ELSE Nothing(Restored(first.s, start))
ParseAddition(s) == SumBehind(s, Spaced(ParseExpression(s, Operand)))

\* Blanks may stand before the parenthesis, and not behind it.
Closed(start, p) ==
  IF Found(p) /\ At(p.s, {")"}) THEN Parsed(p.node, Behind(p.s)) ELSE Nothing(Restored(p.s, start))
ParseParenthesized(s) ==
  IF At(SkipSpaces(s), {"("})
  THEN Closed(s, Spaced(ParseExpression(Behind(SkipSpaces(s)), AnyExpression)))
  ELSE Nothing(s)

\* The alternatives, in the order they are tried; the last one always is.
Alternatives == <<"ADDITION", "SHIFT", "FUNCTION", "NAME", "NUMBER", "PARENTHESES">>

Parse(alternative, s) ==
  CASE alternative = "ADDITION" -> ParseAddition(s)
    [] alternative = "SHIFT" -> ParseShift(s)
    [] alternative = "FUNCTION" -> ParseFunction(s)
    [] alternative = "NAME" -> ParseName(s)
    [] alternative = "NUMBER" -> ParseNumber(s)
    [] alternative = "PARENTHESES" -> ParseParenthesized(s)

ParseExpression(s, mask) ==
  FoldLeft(LAMBDA p, alternative : IF Found(p) THEN p ELSE Parse(alternative, p.s),
           Nothing(s),
           SelectSeq(Alternatives, LAMBDA a : a \in mask \cup {"PARENTHESES"}))

-----------------------------------------------------------------------------
(* Parse                                                                    *)

ParserInit ==
  /\ szSignatureDefinition \in Texts
  /\ oParser = AtOffset(1)
  /\ aNodesToKeep = {}
  /\ szVariant = <<>>
  /\ oResult = <<>>
  /\ ePhase = "header"

\* The identifier is left out.
ParseHeader ==
  /\ ePhase = "header"
  /\ LET header == GetKeyword(GetKeyword(oParser, "IDENTIFIER").s, "VARIANT")
     IN szVariant' = header.szValue /\ oParser' = header.s
  /\ ePhase' = "variant"
  /\ UNCHANGED <<szSignatureDefinition, aNodesToKeep, oResult>>

(***************************************************************************)
(* oResult with oBuilder.  Cleanup leaves the nodes to keep and those they  *)
(* are made of (GraphCleanup!CleanupExact): none, if there are none to keep.*)
(***************************************************************************)
Pushed ==
  IF aNodesToKeep = {} THEN oResult
  ELSE Append(oResult, [szVariant |-> szVariant, aNodesToKeep |-> aNodesToKeep,
                        dwNumOpaqueRefs |-> Cardinality(DOMAIN oParser.aOpaqueLabels)])

\* Mutant of Forgotten: the labels of the previous variant stay
LabelsStay(s) == [NoNodes(s) EXCEPT !.aLabeledNodes = s.aLabeledNodes]

\* What is known of the previous variant and its builder is dropped.
Forgotten(s) == NoNodes(s)

NextVariantKeyword == GetKeyword(oParser, "VARIANT")

StartVariant ==
  /\ ePhase = "variant"
  /\ NextVariantKeyword.szValue # <<>>
  /\ oResult' = Pushed
  /\ aNodesToKeep' = {}
  /\ szVariant' = NextVariantKeyword.szValue
  /\ oParser' = Forgotten(NextVariantKeyword.s)
  /\ ePhase' = "statement"
  /\ UNCHANGED szSignatureDefinition

\* TRANSIENT is skipped, and has no effect: bTransient is reset at once.
PastTransient(s) ==
  IF At(s, {"TRANSIENT"}) /\ ~AtEnd(Behind(s)) THEN SkipSpaces(Behind(s)) ELSE s

\* A label and its colon, or the offset before them.
NoLabel == ""
LabelAt(start, s) ==
  IF AtName(s) /\ At(SkipSpaces(Behind(s)), {":"})
  THEN [szLabel |-> Token(s), s |-> SkipSpaces(Behind(SkipSpaces(Behind(s))))]
  ELSE [szLabel |-> NoLabel, s |-> start]
ParseLabel(s) == LabelAt(SkipSpaces(s), PastTransient(SkipSpaces(s)))

Labeled(s, szLabel, node) ==
  IF szLabel = NoLabel THEN s
  ELSE [s EXCEPT !.aLabeledNodes = @ @@ (szLabel :> node)]

AtStatement ==
  \/ ePhase = "statement"
  \/ ePhase = "variant" /\ NextVariantKeyword.szValue = <<>>

Statement(szLabel, p) ==
  \/ /\ Found(p)
     /\ aNodesToKeep' = aNodesToKeep \cup {p.node}
     /\ IF szLabel \in DOMAIN p.s.aLabeledNodes
        THEN oParser' = p.s /\ ePhase' = "NOK"
        ELSE LET s == SkipSpaces(Labeled(p.s, szLabel, p.node))
             IN IF At(s, {";"}) THEN oParser' = Behind(s) /\ ePhase' = "variant"
                                ELSE oParser' = s /\ ePhase' = "end"
  \/ /\ ~Found(p)
     /\ oParser' = p.s
     /\ ePhase' = "end"
     /\ UNCHANGED aNodesToKeep

ParseStatement ==
  /\ AtStatement
  /\ \E label \in {ParseLabel(oParser)} :
       \E p \in {ParseExpression(label.s, AnyExpression)} : Statement(label.szLabel, p)
  /\ UNCHANGED <<szSignatureDefinition, szVariant, oResult>>

\* What is left of the text is an unexpected token.
EndOfText ==
  /\ ePhase = "end"
  /\ IF AtEnd(oParser) THEN oResult' = Pushed /\ ePhase' = "OK"
                       ELSE ePhase' = "NOK" /\ UNCHANGED oResult
  /\ UNCHANGED <<szSignatureDefinition, oParser, aNodesToKeep, szVariant>>

ParserStep == ParseHeader \/ StartVariant \/ ParseStatement \/ EndOfText
=============================================================================
