---------------------------- MODULE MCCFLPrepare ----------------------------
(***************************************************************************)
(* Small grammars and graphs for the adapters: an indexed and a plain      *)
(* symbol of each kind, either nonterminal as the start, one to three      *)
(* blocks, edges with indexed labels, with terminals of no rule, and with  *)
(* parallel labels; grammars with each form of rule, a terminal used twice *)
(* in a rule and shared by rules, and labels spelled like helpers, which   *)
(* collide with them in some of the grammars.                              *)
(***************************************************************************)
EXTENDS CFLPrepare, MCInputs

MCStem == {"S", "A", "a", "b"}

S == L("S", Plain)
A == L("A", Indexed)
a == L("a", Plain)
b == L("b", Indexed)

Lines ==
  {<<S>>, <<S, a>>, <<S, A, b>>, <<A, b, S>>, <<A, S>>, <<S, b>>, <<A, a, b>>, <<A>>,
   <<S, S, A>>}

Graphs ==
  {<<>>,
   << <<0, 3, a, 0>> >>,
   << <<0, 1, a, 0>>, <<1, 0, b, 1>> >>,
   << <<0, 0, b, 0>>, <<0, 1, b, 1>>, <<1, 1, a, 0>> >>,
   << <<4, 2, b, 2>>, <<2, 4, b, 0>>, <<2, 5, a, 0>> >>}

WithGraphs ==
  {Parsed(<<l1, l2, l3>>, s, g) : l1 \in {<<S, A, b>>, <<S, a, S>>}, l2, l3 \in Lines,
                                  s \in {S, A}, g \in Graphs}

\* The label "EPS" of a terminal, and "NON_TERMINAL#a" as a terminal and as a
\* nonterminal of the file.
EPS == L(EpsStem, Plain)
Na == Helper("a", Plain)

Forms ==
  {<<S>>, <<S, a>>, <<S, A>>, <<S, A, A>>, <<S, a, A>>, <<A, S, b>>, <<A, a, b>>, <<A, b, b>>,
   <<S, EPS, A>>, <<S, Na>>, <<Na, A, a>>}

ThreeRules == {Parsed(<<l1, l2, l3>>, S, <<>>) : l1, l2, l3 \in Forms}

\* Many rules of one terminal: terms_set is grown twice.
ManySingles ==
  {[Parsed(<< <<S, a, S>> >>, S, <<>>) EXCEPT !.rules = [k \in 1 .. n |-> @[1]]] : n \in {16, 33}}

\* One rule with one terminal, then pairs of terminals: 16 entries do not
\* come out even.
ManyTerminals ==
  {Parsed(<< <<S, a, S>> >> \o [k \in 1 .. 8 |-> <<S, a, b>>], S, <<>>)}

\* The plain label a with an index.
PlainIndex == {Parsed(<< <<S, a>> >>, S, << <<0, 1, a, n>>, <<0, 0, b, 1>> >>) : n \in 0 .. 1}
=============================================================================
