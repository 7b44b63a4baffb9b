------------------------------ MODULE MCFormat ------------------------------
EXTENDS Format

\* Every set of flags, narrow and wide fields, and numbers at the boundaries
\* of an int of eight bits.
MCFlags == {SetToSeq(S) : S \in SUBSET {"-", "+", " ", "#", "0"}}

MCDirective ==
  [flags : MCFlags, width : {<< >>, <<"3">>, <<"1", "0">>},
   precision : {<< >>, <<"4">>},
   conversion : DOMAIN Base, arg : {0, 9, 127, 128, 255}]
  \cup
  [flags : {<< >>, <<"-">>}, width : {<< >>, <<"4">>},
   precision : {<< >>, <<"0">>, <<"2">>},
   conversion : {"s"}, arg : {<< >>, <<"a">>, <<"a", "b", "c">>}]
  \cup
  [flags : {<< >>, <<"-">>}, width : {<< >>, <<"1">>, <<"3">>},
   precision : {<< >>}, conversion : {"c"}, arg : {"a"}]

\* Formats of up to four characters after a '%', well-formed or not.
MCGarbage ==
  LET Letter == {"%", "0", "1", ".", "*", "l", "d", "n", "q"}
  IN  [fmt : {<<"%">> \o f : f \in SeqOf(Letter, 4)}, args : {<<2, 253, 3, 0, 1>>}]

=============================================================================
