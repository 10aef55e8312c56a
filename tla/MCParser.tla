------------------------------ MODULE MCParser ------------------------------
(***************************************************************************)
(* Small config rows for Parser.  S and A are both left-hand sides, in     *)
(* either order, and both start symbols, so that the swap moves a used     *)
(* symbol; A and a are also met before (or without) being defined.         *)
(***************************************************************************)
EXTENDS Parser

MCLabel == {"S", "A", "a", "b", "Count:"}

RuleLines == {<<"S">>, <<"S", "a">>, <<"A", "a", "S">>, <<"S", "A", "a">>, <<"A", "A", "A">>}

GoodGrammars ==
  {<<r1, r2, <<"Count:">>, <<s>> >> : r1, r2 \in RuleLines, s \in {"S", "A", "a"}}
    \cup {<<r, <<>>, <<"Count:">>, <<"A">>, <<"a", "a">> >> : r \in RuleLines}

BadGrammars ==
  {<<>>,
   << <<"S", "a">> >>,
   << <<"S", "a", "a", "a">>, <<"Count:">>, <<"S">> >>,
   << <<"S", "a">>, <<"Count:">> >>,
   << <<"S", "a">>, <<"Count:">>, <<>> >>,
   << <<"S", "a">>, <<"Count:">>, <<"S", "a">> >>,
   << <<"S", "a">>, <<"Count:", "S">>, <<"S">> >>}

E(nums, label) == [nums |-> nums, label |-> label]

GoodGraphs ==
  {<<>>,
   <<E(<<0, 1>>, "a"), E(<<>>, "a"), E(<<2, 0, 1>>, "b")>>,
   <<E(<<1, 0, 2>>, "A"), E(<<1, 0>>, "b")>>,
   <<E(<<SIZE_MAX, 0>>, "S"), E(<<1, 0, SIZE_MAX>>, "a"), E(<<1, 0, 1>>, "S")>>}

BadGraphs ==
  {<<E(<<0, 1>>, "a"), E(<<1>>, "a")>>,
   <<E(<<-1, 0>>, "a")>>,
   <<E(<<0, 0, SIZE_MAX + 1>>, "a")>>,
   <<E(<<0, 0, 0, 0>>, "a")>>}

Starts == {<<>>, << <<0>>, <<>>, <<2>> >>, << <<1, 1>> >>, << <<0>>, <<-1>> >>}

F(lines) == [exists |-> TRUE, lines |-> lines]
Missing == [exists |-> FALSE, lines |-> <<>>]

Row(g, e, given, use, s) ==
  [grammar |-> g, graph |-> e, start_given |-> given, use_start_nodes |-> use, start |-> s]

MCConfigs ==
  {Row(F(g), F(e), FALSE, FALSE, Missing) :
     g \in GoodGrammars \cup BadGrammars, e \in GoodGraphs \cup BadGraphs}
  \cup {Row(F(g), F(e), TRUE, use, s) :
     g \in {<< <<"A", "S", "a">>, <<"Count:">>, <<"S">> >>}, e \in GoodGraphs \cup BadGraphs,
     use \in BOOLEAN, s \in {Missing} \cup {F(t) : t \in Starts}}
  \cup {Row(Missing, F(<<>>), FALSE, FALSE, Missing),
        Row(F(<< <<"Count:">>, <<"S">> >>), Missing, FALSE, FALSE, Missing)}
=============================================================================
