--------------------- MODULE MCBlockPermutationEvaluator ---------------------
(***************************************************************************)
(* Instances of BlockPermutationEvaluator for TLC: a cipher that is chained *)
(* over three blocks, with its variations.                                  *)
(***************************************************************************)
EXTENDS BlockPermutationEvaluator

None == "none"
Const(v) == [type |-> "CONSTANT", value |-> v, inputs |-> <<>>]
Op(type, inputs) == [type |-> type, value |-> None, inputs |-> inputs]

Graph(nodes) ==
  [type |-> [n \in DOMAIN nodes |-> nodes[n].type],
   value |-> [n \in DOMAIN nodes |-> nodes[n].value],
   inputs |-> [n \in DOMAIN nodes |-> nodes[n].inputs]]

\* a base, the offsets of its other blocks, their addresses and the loads of
\* the four; if the fourth has offset 0, it is not a block of that base
Blocks(second, third, fourth) ==
  <<[type |-> "REGISTER", value |-> "R0", inputs |-> <<>>],     \* 1
    Const(second), Const(third), Const(fourth),                 \* 2, 3, 4
    Op("ADD", <<1, 2>>), Op("ADD", <<1, 3>>),                   \* 5, 6
    IF fourth = 0 THEN Op("ADD", <<2, 3>>) ELSE Op("ADD", <<1, 4>>), \* 7
    Op("LOAD", <<1>>), Op("LOAD", <<5>>), Op("LOAD", <<6>>), Op("LOAD", <<7>>)>> \* 8 - 11

\* each block is combined with what came out of the one before, and the
\* result with a key; the last result is combined with one of the blocks
Chained(op, cipher, iv, last) ==
  <<Op("XOR", <<8, iv>>), Op("MULT", <<12, 3>>),                \* 12, 13
    Op(op, <<9, 13>>), Op(cipher, <<14, 3>>),                   \* 14, 15
    Op("XOR", <<10, 15>>), Op("MULT", <<16, 3>>),               \* 16, 17
    Op("XOR", <<last, 17>>)>>                                   \* 18

\* what else is computed of it
Rests == {<<>>, <<Op("STORE", <<13, 1>>)>>, <<Op("XOR", <<9, 17>>)>>}

\* each block goes through operations of its own, and so does what is no block;
\* some of the results are added
Summed(first, second, third, fourth, sum) ==
  <<Op("MULT", <<8, 2>>), Op("MULT", <<9, 2>>),                 \* 12, 13
    Op("MULT", <<10, 2>>), Op("MULT", <<11, 2>>),               \* 14, 15
    Op(first, <<12, 3>>), Op(second, <<13, 3>>),                \* 16, 17
    Op(third, <<14, 3>>), Op(fourth, <<15, 3>>),                \* 18, 19
    Op("MULT", <<1, 2>>), Op("ROTATE", <<20, 3>>),              \* 20, 21
    Op("ADD", sum)>>                                            \* 22

Shifts == {"ROTATE", "SHIFT"}

MCCodeGraphs ==
  {Graph(Blocks(offsets[1], offsets[2], offsets[3]) \o Chained(op, cipher, iv, last) \o rest) :
     offsets \in {<<16, 32, 64>>, <<16, 32, 0>>, <<20, 40, 100>>},
     op \in {"XOR", "OR"}, cipher \in {"MULT", "ROTATE"}, iv \in {1, 8}, last \in {10, 11},
     rest \in Rests}
  \cup
  {Graph(Blocks(offsets[1], offsets[2], offsets[3]) \o Summed("ROTATE", second, third, fourth, sum)) :
     offsets \in {<<16, 32, 64>>, <<16, 48, 80>>},
     second, third, fourth \in Shifts,
     sum \in {<<16, 17, 18, 19, 21>>, <<19, 16, 17, 18>>, <<8, 9, 10>>, <<17, 18, 19>>}}
=============================================================================
