----------------------------- MODULE MCRSMFile ------------------------------
(***************************************************************************)
(* Files of one or two boxes: a prelude, the body of box S, a last box,    *)
(* each alone in its configuration; then configurations of three rows.     *)
(***************************************************************************)
EXTENDS RSMAdapter

L(stem, suf) == [pre |-> 0, stem |-> stem, suf |-> suf]
P(stem) == L(stem, Plain)
Term(stem, suf) == [label |-> L(stem, suf), is_nonterm |-> FALSE]

Stems == {"S", "A", "a", "load", "0", "1", "p"}

Box(name) == [kind |-> "box", name |-> name]
Start(value) == [kind |-> "start", value |-> value]
Final(states) == [kind |-> "final", states |-> states]
Edge(from, label, to) == [kind |-> "transition", from |-> from, label |-> label, to |-> to]
Skipped == [kind |-> "skipped"]
Arc(u, v, t) == [u |-> u, v |-> v, term_index |-> t]
Other == [kind |-> "other"]

Preludes ==
  {<<>>, <<Start(P("A"))>>, <<Start(P("A")), Skipped, Start(P("S"))>>, <<Final(<<P("1")>>)>>}

\* "load" is indexed, load_0 a block of it, A a box defined later, if at all.
BodyLines ==
  {Start(P("0")), Start(P("1")), Start(L("p", Indexed)),
   Final(<<P("1")>>), Final(<<>>), Final(<<L("p", Indexed), P("1"), L("p", 0)>>),
   Edge(P("0"), P("a"), P("1")), Edge(P("0"), P("A"), P("0")),
   Edge(P("0"), L("load", Indexed), L("p", Indexed)), Edge(P("0"), L("load", 0), P("1")),
   Edge(L("p", Indexed), P("S"), P("1")), Edge(P("1"), P("a"), L("p", Indexed)),
   Skipped, Other}

Bodies == {<<x, y, z>> : x \in {Start(P("0")), Final(<<P("1")>>)}, y, z \in BodyLines}

LastBoxes ==
  {<<>>, <<Box(P("S"))>>, <<Box(L("load", 0))>>, <<Box(P("A"))>>,
   <<Box(P("A")), Start(P("0")), Edge(P("0"), P("S"), P("1")), Final(<<P("1")>>)>>}

\* Graphs with and without the indexed label; their blocks.
Graphs ==
  {[terms |-> <<Term("a", Plain)>>, block_count |-> 0, edges |-> <<Arc(0, 1, 1)>>],
   [terms |-> <<Term("load", 0), Term("load", 1)>>, block_count |-> 2,
    edges |-> <<Arc(0, 1, 2), Arc(1, 1, 1), Arc(1, 0, 2)>>]}

File(lines, g) ==
  [exists |-> TRUE, lines |-> lines, terms |-> g.terms, block_count |-> g.block_count,
   edges |-> g.edges]

SingleFiles ==
  {File(prelude \o <<Box(P("S"))>> \o body \o last, g) :
     prelude \in Preludes, body \in Bodies, last \in LastBoxes, g \in Graphs}
  \cup {File(<<>>, [terms |-> <<>>, block_count |-> 1, edges |-> <<>>])}

\* The files of the longer configurations: a machine over a label, one that
\* reads the empty word only, for a graph without labels, no file, and a box
\* without final states.
Good(g) == File(<<Box(P("S")), Start(P("0")), Edge(P("0"), P("a"), P("1")), Final(<<P("1")>>)>>, g)
NoLabels == [terms |-> <<>>, block_count |-> 1, edges |-> <<>>]
Empty == File(<<Box(P("S")), Start(P("0")), Final(<<P("0")>>)>>, NoLabels)
Missing == [File(<<>>, NoLabels) EXCEPT !.exists = FALSE]
NoFinals == File(<<Box(P("S")), Start(P("0"))>>, NoLabels)

RowFiles == {Good(g) : g \in Graphs} \cup {Empty, Missing, NoFinals}

MCRSMFiles == SingleFiles \cup RowFiles

LongRuns ==
  {[adapter |-> a, rows |-> <<f, g, h>>] :
     a \in {"CFL_Kron", "CFL_CFPQ_RSM"}, f, g, h \in RowFiles}

MCAdapterRuns == {[adapter |-> "CFL_CFPQ_RSM", rows |-> <<f>>] : f \in SingleFiles} \cup LongRuns
=============================================================================
