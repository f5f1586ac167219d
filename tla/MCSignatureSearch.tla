-------------------------- MODULE MCSignatureSearch ---------------------------
(* Instances of SignatureSearch for TLC.                                     *)
EXTENDS SignatureSearch

-----------------------------------------------------------------------------
(* Code *)

Leaf(v) == [type |-> "CONSTANT", value |-> v, inputs |-> <<>>]
Op(type, inputs) == [type |-> type, value |-> NoRef, inputs |-> inputs]

\* The graph of a sequence of nodes, which refer to each other by position
\* and have these ids.
Graph(nodes, ids) ==
  LET At1(n) == nodes[CHOOSE i \in DOMAIN ids : ids[i] = n]
  IN [type |-> [n \in ToSet(ids) |-> At1(n).type],
      value |-> [n \in ToSet(ids) |-> At1(n).value],
      inputs |-> [n \in ToSet(ids) |-> [k \in DOMAIN At1(n).inputs |-> ids[At1(n).inputs[k]]]]]

\* all in one word, or one in a word and three in the next: behind its bit, or
\* not all of them
Ids == {<<0, 1, 2, 3>>, <<0, 5, 6, 7>>, <<1, 4, 5, 6>>}

\* two leaves, an operation on them, and one that takes its result
MCCodeGraphs ==
  {Graph(<<Leaf("1"), Leaf(v), third, fourth>>, ids) :
     v \in {"1", "2"},
     third \in {Op("ADD", <<1, 2>>), Op("SHIFT", <<1, 1>>)},
     fourth \in {Op("ADD", <<1, 2, 3>>), Op("SHIFT", <<3, 2>>)},
     ids \in Ids}

\* In three words: candidates are passed over, and what is reported is no match.
PassedOver ==
  Graph(<<Leaf("1"), Op("LOAD", <<1>>), Leaf("2"), Op("SHIFT", <<3, 2>>),
          Op("SHIFT", <<1, 2>>), Op("SHIFT", <<2, 2>>)>>, <<1, 4, 5, 6, 7, 8>>)
MCWideCodeGraphs == MCCodeGraphs \cup {PassedOver}

-----------------------------------------------------------------------------
(* Definitions *)

Numeral(sign, hex, digits) == [sign |-> sign, hex |-> hex, digits |-> digits]
MCNumerals ==
  [w \in {"1", "2", "3", "-1", "0x6", "0xd"} |->
     CASE w = "1" -> Numeral(1, FALSE, 1)
       [] w = "2" -> Numeral(1, FALSE, 2)
       [] w = "3" -> Numeral(1, FALSE, 3)
       [] w = "-1" -> Numeral(-1, FALSE, 1)
       [] w = "0x6" -> Numeral(1, TRUE, 6)
       [] w = "0xd" -> Numeral(1, TRUE, 13)]
\* No segment of the database is read.
MCReadOnly == <<>>

MCSymbols == {"(", ")", "<", ">", "<<", ">>", "+", ",", ":", ";"}

O == Opq(NoRefName, <<>>)
R == Opq("r", <<>>)
a == Name("a")
b == Name("b")

Unlabeled(e) == Stmt(NoLabel, e)
Single(e) == <<Var(<<"v">>, <<Unlabeled(e)>>)>>
Labels(x, y, e) == <<Var(<<"v">>, <<Stmt("a", x), Stmt("b", y), Unlabeled(e)>>)>>

\* an operation on two leaves; one that is an operand of another; a node that
\* is the input of two; one below an operand
Pairs == {Single(Fn(op, <<x, y>>)) : x, y \in {Num("1"), O, R}, op \in {"ADD", "SHL"}}
Chains == {Labels(x, R, Fn("SHL", <<Fn("ADD", <<a, b>>), b>>)) : x \in {O, R}}
Shared == Labels(O, Opq(NoRefName, <<a>>), Opq(NoRefName, <<a>>))
Below == Single(Fn("SHL", <<O, Opq(NoRefName, <<O>>)>>))

\* two variants, of which the second may match; the same label in both
Two == {<<Var(<<"v", " ", "1">>, <<Stmt("a", Fn("SHL", <<x, x>>))>>),
          Var(<<"v", " ", "2">>, <<Stmt("a", O), Unlabeled(Num("2"))>>)>> : x \in {O, R}}

\* functions of labels, nested operations, numerals; what is stored is loaded
Functions ==
  {Labels(R, O, e) : e \in {
     Fn("XOR", <<a, b, Num("1")>>),
     Fn("AND", <<Fn("OR", <<a, Num("1")>>), Num("0x6")>>),
     Fn("MULT", <<Fn("ADD", <<Num("1"), a>>), Num("-1")>>),
     Fn("ROTATE", <<Fn("SHR", <<a, Num("2")>>), b>>),
     Fn("ADD", <<Fn("SHL", <<a, Num("3")>>), Fn("ADD", <<b, Num("1")>>), a>>),
     Opq("s", <<a, Opq("r", <<b>>), Fn("ADD", <<O, R>>)>>)}}
Stores ==
  {<<Var(<<"v">>, <<Stmt("a", R), Unlabeled(Fn("STORE", <<Num("1"), a>>)), Unlabeled(e)>>)>> :
     e \in {Fn("ADD", <<Fn("LOAD", <<a>>), Num("1")>>),
            Fn("STORE", <<Fn("LOAD", <<a>>), Fn("LOAD", <<R>>)>>)}}

\* a label is defined twice; a great hexadecimal; a load of what is stored
Odd == {Labels(O, Num("1"), Fn("ADD", <<a, Num("0xd")>>)),
        <<Var(<<"v">>, <<Stmt("a", O), Stmt("b", R), Stmt("a", R)>>)>>,
        Labels(O, R, Fn("STORE", <<Fn("ADD", <<Fn("LOAD", <<a>>), Num("1")>>), a>>))}

MCDefinitions == Pairs \cup Chains \cup {Shared, Below} \cup Two \cup Functions \cup Stores \cup Odd

\* A label of the variant before, in a variant without opaque types.
LabelOfAnother ==
  <<Var(<<"v">>, <<Stmt("a", R)>>), Var(<<"w">>, <<Unlabeled(Fn("ADD", <<a, Num("1")>>))>>)>>

\* What nobody means, or would write otherwise.
Untidy ==
  {<<>>, <<"VARIANT", " ">>, <<"VARIANT", "\n", "v", "\n", "1">>,
   <<"VARIANT", " ", "v", "\n", "VARIANT", " ", "w", "\n", "1">>,
   <<" ", "TRANSIENT", " ", "a", " ", ":", "1", " ", ";", " ", "a", " ", "<<", " ", "OPAQUE", ";">>,
   <<"TRANSIENT", " ", "OPAQUE">>, <<"TRANSIENT", ":", "1">>,
   <<"OPAQUE", " ", "<", " ", "r", " ", ">", " ", "(", ")", "+", "1", "+">>,
   <<"OPAQUE", "<", "1", ">">>, <<"OPAQUE", "<", "r">>, <<"OPAQUE", "<", "r", ">", "(", "1">>,
   <<"OPAQUE", "(", "OPAQUE", "<", "r", ">", ",", "no", ")">>,
   <<"no", "(", "OPAQUE", "<", "r", ">", ")">>, <<"no">>, <<"1", ";", "no">>,
   <<"STORE", "(", "1", ")">>, <<"XOR", "(", "1", ")">>, <<"1", "+", "no">>,
   <<"1", "<<", "no">>, <<"OPAQUE", ">>", "1", ">>", "1">>, <<"1", "2">>,
   <<"(", "(", "OPAQUE", ")", " ", ")">>, <<"(", " ", "1", ")">>, <<"(", "1", ";">>}

MCTexts == {WrittenDefinition(d) : d \in MCDefinitions \cup {LabelOfAnother}} \cup Untidy
=============================================================================
