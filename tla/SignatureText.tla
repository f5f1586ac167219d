---------------------------- MODULE SignatureText -----------------------------
(***************************************************************************)
(* Signature definitions as their author means them, how they are written,  *)
(* and what the parser is to make of them: every operation once, in the     *)
(* order of the text.  The reference that SignatureParser is compared with. *)
(*                                                                          *)
(* An expression is an operation, a word (a numeral, a label, or the        *)
(* reference of an OPAQUE) and its arguments.  A definition is a sequence   *)
(* of variants: a name and statements, which are expressions with a label.  *)
(***************************************************************************)
EXTENDS SignatureParser
LOCAL INSTANCE SequencesExt
LOCAL INSTANCE FiniteSetsExt
LOCAL INSTANCE TLC

Expr(op, word, args) == [op |-> op, word |-> word, args |-> args]
Num(word) == Expr("NUMBER", word, <<>>)
Name(word) == Expr("NAME", word, <<>>)
Opq(ref, args) == Expr("OPAQUE", ref, args)
Fn(op, args) == Expr(op, "", args)

Stmt(label, e) == [szLabel |-> label, e |-> e]
Var(words, statements) == [szVariant |-> words, statements |-> statements]

RECURSIVE Subexpressions(_)
Subexpressions(e) == {e} \cup UNION {Subexpressions(e.args[k]) : k \in DOMAIN e.args}

-----------------------------------------------------------------------------
(* How a definition is written.                                             *)

\* The sequences one after the other, with a token in between.
Joined(sequences, separator) ==
  FoldLeft(LAMBDA text, q : IF text = <<>> THEN q ELSE text \o separator \o q, <<>>, sequences)

InParentheses(text) == <<"(">> \o text \o <<")">>
Infix(op) == CASE op = "ADD" -> "+" [] op = "SHL" -> "<<" [] op = "SHR" -> ">>"
IsInfix(e) == e.op \in {"ADD", "SHL", "SHR"}

RECURSIVE Written(_)
WrittenOperand(e) == IF IsInfix(e) THEN InParentheses(Written(e)) ELSE Written(e)
Written(e) ==
  CASE e.op \in {"NUMBER", "NAME"} -> <<e.word>>
    [] IsInfix(e) -> Joined([k \in DOMAIN e.args |-> WrittenOperand(e.args[k])], <<Infix(e.op)>>)
    [] e.op = "OPAQUE" ->
         <<"OPAQUE">> \o (IF e.word = NoRefName THEN <<>> ELSE <<"<", e.word, ">">>)
           \o (IF e.args = <<>> THEN <<>> ELSE InParentheses(Joined([k \in DOMAIN e.args |-> Written(e.args[k])], <<",">>)))
    [] OTHER -> <<e.op>> \o InParentheses(Joined([k \in DOMAIN e.args |-> Written(e.args[k])], <<",">>))

WrittenStatement(st) ==
  (IF st.szLabel = NoLabel THEN <<>> ELSE <<st.szLabel, " ", ":", " ">>) \o Written(st.e)
WrittenVariant(v) ==
  <<"VARIANT", " ">> \o v.szVariant \o <<"\n">>
    \o Joined([k \in DOMAIN v.statements |-> WrittenStatement(v.statements[k])], <<";", "\n">>)

\* The last variant ends without a semicolon, and with a new line.
WrittenDefinition(d) ==
  <<"IDENTIFIER", " ", "id", "\n">>
    \o Joined([k \in DOMAIN d |-> WrittenVariant(d[k])], <<";", "\n">>) \o <<"\n">>

-----------------------------------------------------------------------------
(* What a definition means.                                                 *)

\* How a numeral reads: its digits, whatever they are.
Meant(numeral) == Numerals[numeral].sign * Numerals[numeral].digits

\* m is the state of the parser, but for its offset.
RECURSIVE Meaning(_, _)
AndElement(nodes, p) == Elements(Append(nodes, p.node), p.s)
MeaningOfAll(args, m) ==
  FoldLeft(LAMBDA a, e : AndElement(a.nodes, Meaning(e, a.s)), Elements(<<>>, m), args)
Applied(e, a) ==
  CASE e.op = "ADD" -> Parsed(Folded(NewAdd, a.nodes), a.s)
    [] e.op = "SHL" -> Parsed(NewShift(a.nodes[1], a.nodes[2]), a.s)
    [] e.op = "SHR" -> Parsed(NewShift(a.nodes[1], NewMult(a.nodes[2], NewConstant(-1))), a.s)
    [] OTHER -> Apply(e.op, e.word, a.nodes, a.s)
Meaning(e, m) ==
  CASE e.op = "NUMBER" -> Parsed(NewConstant(Meant(e.word)), m)
    [] e.op = "NAME" -> Parsed(m.aLabeledNodes[e.word], m)
    [] OTHER -> Applied(e, MeaningOfAll(e.args,
                  IF e.op = "OPAQUE" /\ e.word # NoRefName THEN WithOpaqueRef(m, e.word) ELSE m))

\* The nodes to keep of a variant, in order, and the state they are made in.
AndStatement(nodes, szLabel, p) ==
  Elements(Append(nodes, p.node), Labeled(p.s, szLabel, p.node))
MeaningOfVariant(v) ==
  FoldLeft(LAMBDA a, st : AndStatement(a.nodes, st.szLabel, Meaning(st.e, a.s)),
           Elements(<<>>, AtOffset(1)), v.statements)

\* The opaque nodes that n is made of, in a fixed order.
RECURSIVE OpaqueIds(_)
OpaqueIds(n) ==
  FoldLeft(LAMBDA ids, i : ids \cup OpaqueIds(i),
           IF Is("OPAQUE", n) THEN {n.payload} ELSE {}, n.aInputNodes)

\* The same nodes, but for the ids of OPAQUE nodes, which grow in both alike.
RECURSIVE Renamed(_, _)
Renamed(n, ids) ==
  [n EXCEPT !.payload = IF Is("OPAQUE", n) THEN Cardinality({i \in ids : i < @}) ELSE @,
            !.aInputNodes = [k \in DOMAIN @ |-> Renamed(@[k], ids)]]
UpToIds(nodes) == {Renamed(n, UNION {OpaqueIds(m) : m \in nodes}) : n \in nodes}

IsBuilt(r, a) ==
  /\ UpToIds(r.aNodesToKeep) = UpToIds(ToSet(a.nodes))
  /\ r.dwNumOpaqueRefs = Cardinality(DOMAIN a.s.aOpaqueLabels)
IsVariant(r, v) == r.szVariant = v.szVariant /\ IsBuilt(r, MeaningOfVariant(v))

-----------------------------------------------------------------------------
(* What the parser is known to read otherwise.                              *)

Statements(d) == UNION {{d[i].statements[j].e : j \in DOMAIN d[i].statements} : i \in DOMAIN d}

\* Hexadecimal numerals from Half on are all read as Half - 1.
HasGreatHex(e) ==
  \E x \in Subexpressions(e) : x.op = "NUMBER" /\ Numerals[x.word].hex /\ Numerals[x.word].digits >= Half

\* An expression that loads what it stores is built more than once: the
\* next time, the load returns what was stored.
LoadsWhatItStores(e) ==
  \E x, y \in Subexpressions(e) : x.op = "LOAD" /\ y.op = "STORE" /\ x.args[1] = y.args[2]

IsReadAsWritten(d) == \A e \in Statements(d) : ~HasGreatHex(e) /\ ~LoadsWhatItStores(e)

\* A label is defined twice in a variant.
Redefines(v) ==
  \E i, j \in DOMAIN v.statements :
    i # j /\ v.statements[i].szLabel # NoLabel /\ v.statements[i].szLabel = v.statements[j].szLabel
=============================================================================
