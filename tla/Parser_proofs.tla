---------------------------- MODULE Parser_proofs ----------------------------
(***************************************************************************)
(* Theorems about the parser, for files of any length over any labels:     *)
(* its data are well typed, a label has one symbol, the rules and the      *)
(* edges spell the lines of their files while the table they point into    *)
(* grows and is swapped, the sizes of the matrices are those the edges     *)
(* need, and the program gives up exactly on malformed files.              *)
(***************************************************************************)
EXTENDS Parser, SymbolList_proofs, FiniteSetTheorems

-----------------------------------------------------------------------------
(* One line of the grammar *)

\* The table has only grown: labels stay and nonterminals stay nonterminals.
Grown(L, list, new) ==
  /\ new \in Seq(Symbol(L)) /\ Len(new) >= Len(list)
  /\ \A i \in 1 .. Len(list) :
       /\ new[i].label = list[i].label
       /\ list[i].is_nonterm = TRUE => new[i].is_nonterm = TRUE

\* One call of symbol_list_add_str makes the table grow.
LEMMA AddedIsGrown ==
  ASSUME NEW L, NEW list \in Seq(Symbol(L)), NEW str \in L, NEW b \in BOOLEAN
  PROVE  Grown(L, list, symbol_list_add_str(list, str, b))
<1> DEFINE new == symbol_list_add_str(list, str, b)
           at == AddedIndex(list, str)
<1>1. IsAdded(L, list, str, b, new, at)
  BY AddStr
<1> HIDE DEF new, at
<1>2. Grown(L, list, new)
  BY <1>1 DEF Grown, IsAdded
<1> QED BY <1>2 DEF new

\* The type of symbol_list_add_str.
LEMMA AddStrType ==
  ASSUME NEW L, NEW list \in Seq(Symbol(L)), NEW str \in L, NEW b \in BOOLEAN
  PROVE  symbol_list_add_str(list, str, b) \in Seq(Symbol(L))
<1>1. Grown(L, list, symbol_list_add_str(list, str, b))
  BY AddedIsGrown
<1> QED BY <1>1 DEF Grown

\* Growing twice is growing.
LEMMA GrownTransitive ==
  ASSUME NEW L, NEW l1 \in Seq(Symbol(L)), NEW l2, NEW l3, Grown(L, l1, l2), Grown(L, l2, l3)
  PROVE  Grown(L, l1, l3)
<1>1. /\ l2 \in Seq(Symbol(L)) /\ l3 \in Seq(Symbol(L))
      /\ Len(l2) >= Len(l1) /\ Len(l3) >= Len(l2)
  BY DEF Grown
<1>2. Len(l3) >= Len(l1)
  BY <1>1
<1>3. \A i \in 1 .. Len(l1) : i \in 1 .. Len(l2)
  BY <1>1
<1> QED BY <1>1, <1>2, <1>3 DEF Grown

\* The indices of a rule are those of symbols in the table.
InTable(list, rule) ==
  /\ rule \in Rule
  /\ rule.first \in 1 .. Len(list)
  /\ rule.second \in 0 .. Len(list)
  /\ rule.third \in 0 .. Len(list)
  /\ rule.second = NoSymbol => rule.third = NoSymbol

\* A rule spells the same in a table that has grown.
LEMMA SpellInGrown ==
  ASSUME NEW L, NEW list \in Seq(Symbol(L)), NEW new, Grown(L, list, new),
         NEW rule, InTable(list, rule)
  PROVE  InTable(new, rule) /\ Spell(new, rule) = Spell(list, rule)
<1>1. new \in Seq(Symbol(L)) /\ Len(new) >= Len(list)
      /\ \A i \in 1 .. Len(list) : new[i].label = list[i].label
  BY DEF Grown
<1>2. InTable(new, rule)
  BY <1>1 DEF InTable
<1>3. /\ new[rule.first].label = list[rule.first].label
      /\ rule.second # NoSymbol => new[rule.second].label = list[rule.second].label
      /\ rule.third # NoSymbol => new[rule.third].label = list[rule.third].label
  BY <1>1 DEF InTable, NoSymbol
<1> QED BY <1>2, <1>3 DEF Spell

(***************************************************************************)
(* The three calls of symbol_list_add_str for one line of the grammar make *)
(* the table grow and keep its labels distinct, and the rule made of the   *)
(* three indices spells the line.                                          *)
(***************************************************************************)
LEMMA RuleAdded ==
  ASSUME NEW L, NEW list \in Seq(Symbol(L)), NEW line \in Seq(L), Len(line) \in 1 .. 3
  PROVE  /\ Grown(L, list, WithThird(list, line))
         /\ InTable(WithThird(list, line), RuleOf(list, line))
         /\ Spell(WithThird(list, line), RuleOf(list, line)) = line
         /\ DistinctLabels(list) => DistinctLabels(WithThird(list, line))
<1>1. /\ line[1] \in L
      /\ Len(line) = 2 \/ Len(line) = 3 => line[2] \in L
      /\ Len(line) = 3 => line[3] \in L
      /\ Len(line) = 1 \/ Len(line) = 2 \/ Len(line) = 3
  OBVIOUS
<1>2. PICK l1, i1 : l1 = WithFirst(list, line) /\ i1 = AddedIndex(list, line[1])
  OBVIOUS
<1>3. PICK l2, i2 : l2 = WithSecond(list, line) /\ i2 = AddedIndex(l1, line[2])
  OBVIOUS
<1>4. PICK l3, i3 : l3 = WithThird(list, line) /\ i3 = AddedIndex(l2, line[3])
  OBVIOUS
<1>5. PICK rule : rule = RuleOf(list, line)
  OBVIOUS
<1>6. SUFFICES /\ Grown(L, list, l3) /\ InTable(l3, rule) /\ Spell(l3, rule) = line
               /\ DistinctLabels(list) => DistinctLabels(l3)
  BY <1>4, <1>5
<1>7. l1 = symbol_list_add_str(list, line[1], TRUE)
  BY <1>2 DEF WithFirst
<1>8. IsAdded(L, list, line[1], TRUE, l1, i1) /\ Grown(L, list, l1)
  BY <1>1, <1>2, <1>7, AddStr, AddedIsGrown
<1>9. l1 \in Seq(Symbol(L)) /\ i1 \in 1 .. Len(l1) /\ l1[i1].label = line[1]
  BY <1>8 DEF IsAdded
<1>10. DistinctLabels(list) => DistinctLabels(l1)
  BY <1>1, <1>7, AddStrKeepsDistinct
<1>11. CASE Len(line) = 1
  <2>1. l3 = l1 /\ rule = [first |-> i1, second |-> NoSymbol, third |-> NoSymbol]
    BY <1>2, <1>4, <1>5, <1>11 DEF WithSecond, WithThird, RuleOf
  <2>2. InTable(l1, rule)
    BY <1>9, <2>1 DEF InTable, Rule, NoSymbol
  <2>3. Spell(l1, rule) = <<line[1]>>
    BY <1>9, <2>1 DEF Spell
  <2>4. <<line[1]>> = line
    BY <1>11
  <2> QED BY <1>8, <1>10, <2>1, <2>2, <2>3, <2>4
<1>12. CASE Len(line) = 2 \/ Len(line) = 3
  <2>1. l2 = symbol_list_add_str(l1, line[2], FALSE) /\ line[2] \in L
    <3>1. ~(Len(line) < 2) /\ line[2] \in L
      BY <1>1, <1>12
    <3>2. WithSecond(list, line) = symbol_list_add_str(WithFirst(list, line), line[2], FALSE)
      BY <3>1 DEF WithSecond
    <3> QED BY <1>2, <1>3, <3>1, <3>2
  <2>2. IsAdded(L, l1, line[2], FALSE, l2, i2) /\ Grown(L, l1, l2)
    BY <1>3, <1>9, <2>1, AddStr, AddedIsGrown
  <2>3. /\ l2 \in Seq(Symbol(L)) /\ Len(l2) >= Len(l1)
        /\ \A i \in 1 .. Len(l1) : l2[i].label = l1[i].label
        /\ i2 \in 1 .. Len(l2) /\ l2[i2].label = line[2]
    BY <2>2 DEF IsAdded
  <2>4. i1 \in 1 .. Len(l2) /\ l2[i1].label = line[1]
    BY <1>9, <2>3
  <2>5. Grown(L, list, l2)
    BY <1>8, <2>2, GrownTransitive
  <2>6. DistinctLabels(list) => DistinctLabels(l2)
    BY <1>9, <1>10, <2>1, AddStrKeepsDistinct
  <2>7. CASE Len(line) = 2
    <3>1. l3 = l2 /\ rule = [first |-> i1, second |-> i2, third |-> NoSymbol]
      BY <1>2, <1>3, <1>4, <1>5, <2>7 DEF WithThird, RuleOf
    <3>2. InTable(l2, rule)
      BY <2>3, <2>4, <3>1 DEF InTable, Rule, NoSymbol
    <3>3. Spell(l2, rule) = <<line[1], line[2]>>
      BY <2>3, <2>4, <3>1 DEF Spell, NoSymbol
    <3>4. <<line[1], line[2]>> = line
      BY <2>7
    <3> QED BY <2>5, <2>6, <3>1, <3>2, <3>3, <3>4
  <2>8. CASE Len(line) = 3
    <3>1. rule = [first |-> i1, second |-> i2, third |-> i3]
      BY <1>2, <1>3, <1>4, <1>5, <2>8 DEF RuleOf
    <3>2. l3 = symbol_list_add_str(l2, line[3], FALSE) /\ line[3] \in L
      BY <1>1, <1>3, <1>4, <2>8 DEF WithThird
    <3>3. IsAdded(L, l2, line[3], FALSE, l3, i3) /\ Grown(L, l2, l3)
      BY <1>4, <2>3, <3>2, AddStr, AddedIsGrown
    <3>4. /\ l3 \in Seq(Symbol(L)) /\ Len(l3) >= Len(l2)
          /\ \A i \in 1 .. Len(l2) : l3[i].label = l2[i].label
          /\ i3 \in 1 .. Len(l3) /\ l3[i3].label = line[3]
      BY <3>3 DEF IsAdded
    <3>5. /\ i1 \in 1 .. Len(l3) /\ l3[i1].label = line[1]
          /\ i2 \in 1 .. Len(l3) /\ l3[i2].label = line[2]
      BY <2>3, <2>4, <3>4
    <3>6. InTable(l3, rule)
      BY <3>1, <3>4, <3>5 DEF InTable, Rule, NoSymbol
    <3>7. Spell(l3, rule) = <<line[1], line[2], line[3]>>
      BY <3>1, <3>4, <3>5 DEF Spell, NoSymbol
    <3>8. <<line[1], line[2], line[3]>> = line
      BY <2>8
    <3>9. Grown(L, list, l3)
      BY <2>5, <3>3, GrownTransitive
    <3>10. DistinctLabels(list) => DistinctLabels(l3)
      BY <2>3, <2>6, <3>2, AddStrKeepsDistinct
    <3> QED BY <3>6, <3>7, <3>8, <3>9, <3>10
  <2> QED BY <1>12, <2>7, <2>8
<1> QED BY <1>1, <1>11, <1>12

(***************************************************************************)
(* Swapping a symbol with the first one, in the table and in a rule, does  *)
(* not change what the rule spells.                                        *)
(***************************************************************************)
LEMMA SwapSpells ==
  ASSUME NEW L, NEW list \in Seq(Symbol(L)),
         NEW sym1 \in 1 .. Len(list), NEW sym2 \in 1 .. Len(list),
         NEW rule, InTable(list, rule),
         NEW new, new = symbol_list_swap(list, sym1, sym2),
         NEW swapped, swapped = [first  |-> Swapped(rule.first, sym1, sym2),
                                 second |-> Swapped(rule.second, sym1, sym2),
                                 third  |-> Swapped(rule.third, sym1, sym2)]
  PROVE  InTable(new, swapped) /\ Spell(new, swapped) = Spell(list, rule)
<1>1. /\ new \in Seq(Symbol(L)) /\ Len(new) = Len(list)
      /\ new[sym1] = list[sym2] /\ new[sym2] = list[sym1]
      /\ \A k \in 1 .. Len(list) : k # sym1 /\ k # sym2 => new[k] = list[k]
  BY SwapExchanges
<1>2. \A k \in 1 .. Len(list) :
        Swapped(k, sym1, sym2) \in 1 .. Len(list) /\ new[Swapped(k, sym1, sym2)] = list[k]
  BY <1>1 DEF Swapped
<1>3. Swapped(NoSymbol, sym1, sym2) = NoSymbol
  BY DEF Swapped, NoSymbol
<1>4. /\ rule.first \in 1 .. Len(list)
      /\ rule.second = NoSymbol \/ rule.second \in 1 .. Len(list)
      /\ rule.third = NoSymbol \/ rule.third \in 1 .. Len(list)
      /\ rule.second = NoSymbol => rule.third = NoSymbol
  BY DEF InTable, NoSymbol
<1>5. /\ swapped.first = Swapped(rule.first, sym1, sym2)
      /\ swapped.second = Swapped(rule.second, sym1, sym2)
      /\ swapped.third = Swapped(rule.third, sym1, sym2)
  OBVIOUS
<1>6. /\ swapped.first \in 1 .. Len(list) /\ new[swapped.first] = list[rule.first]
      /\ rule.second = NoSymbol => swapped.second = NoSymbol
      /\ rule.second # NoSymbol =>
           swapped.second \in 1 .. Len(list) /\ new[swapped.second] = list[rule.second]
      /\ rule.third = NoSymbol => swapped.third = NoSymbol
      /\ rule.third # NoSymbol =>
           swapped.third \in 1 .. Len(list) /\ new[swapped.third] = list[rule.third]
  BY <1>2, <1>3, <1>4, <1>5
<1>7. swapped \in Rule
  <2>1. {swapped.first, swapped.second, swapped.third} \subseteq Nat
    BY <1>1, <1>4, <1>6 DEF NoSymbol
  <2> QED BY <1>5, <2>1 DEF Rule
<1>8. InTable(new, swapped)
  BY <1>1, <1>4, <1>6, <1>7 DEF InTable, NoSymbol
<1>9. /\ swapped.second = NoSymbol <=> rule.second = NoSymbol
      /\ swapped.third = NoSymbol <=> rule.third = NoSymbol
  BY <1>6 DEF NoSymbol
<1> QED BY <1>6, <1>8, <1>9 DEF Spell

-----------------------------------------------------------------------------
(* The nonterminals of the table *)

NontermLabels(list) == {list[i].label : i \in {j \in DOMAIN list : list[j].is_nonterm}}

\* The nonterminals of new are those of list and the label str.
NontermsGain(list, new, str) == NontermLabels(new) = NontermLabels(list) \cup {str}

\* A call with is_nonterm adds the label to the nonterminals.
LEMMA NontermsAfterAdd ==
  ASSUME NEW L, NEW list \in Seq(Symbol(L)), NEW str \in L
  PROVE  NontermsGain(list, symbol_list_add_str(list, str, TRUE), str)
<1>1. PICK new, at : new = symbol_list_add_str(list, str, TRUE) /\ at = AddedIndex(list, str)
  OBVIOUS
<1>2. IsAdded(L, list, str, TRUE, new, at)
  BY <1>1, AddStr
<1>3. /\ DOMAIN new = 1 .. Len(new) /\ DOMAIN list = 1 .. Len(list) /\ Len(new) >= Len(list)
      /\ at \in 1 .. Len(new) /\ new[at].label = str /\ new[at].is_nonterm
      /\ \A i \in 1 .. Len(list) :
           /\ new[i].label = list[i].label
           /\ list[i].is_nonterm = TRUE => new[i].is_nonterm = TRUE
           /\ i # at => new[i] = list[i]
      /\ \A i \in 1 .. Len(new) : i > Len(list) => i = at
  BY <1>2 DEF IsAdded
<1>4. NontermLabels(new) = NontermLabels(list) \cup {str}
  <2>1. ASSUME NEW i \in 1 .. Len(new), new[i].is_nonterm
        PROVE  new[i].label \in NontermLabels(list) \cup {str}
    BY <1>3, <2>1 DEF NontermLabels
  <2>2. ASSUME NEW i \in 1 .. Len(list), list[i].is_nonterm
        PROVE  list[i].label \in NontermLabels(new)
    <3>1. list[i] \in Symbol(L)
      OBVIOUS
    <3>2. list[i].is_nonterm = TRUE
      BY <2>2, <3>1 DEF Symbol
    <3>3. i \in 1 .. Len(new) /\ new[i].label = list[i].label /\ new[i].is_nonterm
      BY <1>3, <3>2
    <3> QED BY <1>3, <3>3 DEF NontermLabels
  <2>3. str \in NontermLabels(new)
    BY <1>3 DEF NontermLabels
  <2> QED BY <1>3, <2>1, <2>2, <2>3 DEF NontermLabels
<1> QED BY <1>1, <1>4 DEF NontermsGain

\* A call without is_nonterm adds nothing to them.
LEMMA NontermsKept ==
  ASSUME NEW L, NEW list \in Seq(Symbol(L)), NEW str \in L
  PROVE  NontermLabels(symbol_list_add_str(list, str, FALSE)) = NontermLabels(list)
<1>1. PICK new, at : new = symbol_list_add_str(list, str, FALSE) /\ at = AddedIndex(list, str)
  OBVIOUS
<1>2. IsAdded(L, list, str, FALSE, new, at)
  BY <1>1, AddStr
<1>3. /\ DOMAIN new = 1 .. Len(new) /\ DOMAIN list = 1 .. Len(list) /\ Len(new) >= Len(list)
      /\ \A i \in 1 .. Len(list) : new[i] = list[i]
      /\ \A i \in 1 .. Len(new) : i > Len(list) => new[i].is_nonterm = FALSE
  BY <1>2 DEF IsAdded
<1>4. NontermLabels(new) = NontermLabels(list)
  BY <1>3 DEF NontermLabels
<1> QED BY <1>1, <1>4

\* Of a line only the left-hand side joins the nonterminals.
LEMMA NontermsAfterLine ==
  ASSUME NEW L, NEW list \in Seq(Symbol(L)), NEW line \in Seq(L), Len(line) \in 1 .. 3
  PROVE  NontermLabels(WithThird(list, line)) = NontermLabels(list) \cup {line[1]}
<1>1. /\ line[1] \in L
      /\ Len(line) >= 2 => line[2] \in L
      /\ Len(line) >= 3 => line[3] \in L
  OBVIOUS
<1>2. PICK l1 : l1 = WithFirst(list, line)
  OBVIOUS
<1>3. NontermLabels(l1) = NontermLabels(list) \cup {line[1]} /\ l1 \in Seq(Symbol(L))
  <2>1. l1 = symbol_list_add_str(list, line[1], TRUE)
    BY <1>2 DEF WithFirst
  <2>2. NontermsGain(list, l1, line[1])
    BY <1>1, <2>1, NontermsAfterAdd
  <2>3. l1 \in Seq(Symbol(L))
    BY <1>1, <2>1, AddStrType
  <2> QED BY <2>2, <2>3 DEF NontermsGain
<1>4. PICK l2 : l2 = WithSecond(list, line)
  OBVIOUS
<1>5. NontermLabels(l2) = NontermLabels(l1) /\ l2 \in Seq(Symbol(L))
  <2>1. CASE Len(line) < 2
    BY <1>2, <1>3, <1>4, <2>1 DEF WithSecond
  <2>2. CASE ~(Len(line) < 2)
    <3>1. l2 = symbol_list_add_str(WithFirst(list, line), line[2], FALSE)
      BY <1>4, <2>2 DEF WithSecond
    <3>2. line[2] \in L
      BY <1>1, <2>2
    <3> QED BY <1>2, <1>3, <3>1, <3>2, NontermsKept, AddStrType
  <2> QED BY <2>1, <2>2
<1>6. CASE Len(line) < 3
  BY <1>3, <1>4, <1>5, <1>6 DEF WithThird
<1>7. CASE ~(Len(line) < 3)
  <2>0. line[3] \in L
    BY <1>1, <1>7
  <2>1. WithThird(list, line) = symbol_list_add_str(WithSecond(list, line), line[3], FALSE)
    BY <1>7 DEF WithThird
  <2>2. NontermLabels(symbol_list_add_str(l2, line[3], FALSE)) = NontermLabels(l2)
    BY <1>5, <2>0, NontermsKept
  <2> QED BY <1>3, <1>4, <1>5, <2>1, <2>2
<1> QED BY <1>6, <1>7

\* Swapping keeps the nonterminals.
LEMMA NontermsAfterSwap ==
  ASSUME NEW L, NEW list \in Seq(Symbol(L)), NEW i1 \in 1 .. Len(list), NEW i2 \in 1 .. Len(list)
  PROVE  NontermLabels(symbol_list_swap(list, i1, i2)) = NontermLabels(list)
<1>1. PICK new : new = symbol_list_swap(list, i1, i2)
  OBVIOUS
<1>2. /\ new \in Seq(Symbol(L)) /\ Len(new) = Len(list)
      /\ new[i1] = list[i2] /\ new[i2] = list[i1]
      /\ \A k \in 1 .. Len(list) : k # i1 /\ k # i2 => new[k] = list[k]
  BY <1>1, SwapExchanges
<1>3. DOMAIN new = 1 .. Len(list) /\ DOMAIN list = 1 .. Len(list)
  BY <1>2
<1>4. ASSUME NEW k \in 1 .. Len(list)
      PROVE  (\E l \in 1 .. Len(list) : new[k] = list[l]) /\ (\E l \in 1 .. Len(list) : list[k] = new[l])
  BY <1>2
<1>5. ASSUME NEW k \in 1 .. Len(list), new[k].is_nonterm PROVE new[k].label \in NontermLabels(list)
  <2>1. PICK l \in 1 .. Len(list) : new[k] = list[l]
    BY <1>4
  <2>2. list[l].is_nonterm /\ list[l].label = new[k].label
    BY <1>5, <2>1
  <2> QED BY <1>3, <2>2 DEF NontermLabels
<1>6. ASSUME NEW k \in 1 .. Len(list), list[k].is_nonterm PROVE list[k].label \in NontermLabels(new)
  <2>1. PICK l \in 1 .. Len(list) : list[k] = new[l]
    BY <1>4
  <2>2. new[l].is_nonterm /\ new[l].label = list[k].label
    BY <1>6, <2>1
  <2> QED BY <1>3, <2>2 DEF NontermLabels
<1>7. NontermLabels(new) = NontermLabels(list)
  BY <1>3, <1>5, <1>6 DEF NontermLabels
<1> QED BY <1>1, <1>7

-----------------------------------------------------------------------------
(* The inductive invariant                                                  *)

\* The types alone; that the positions and indices exist is what the other
\* conjuncts say.
Typed ==
  /\ config \in Config
  /\ pc \in {"grammar", "swap", "graph", "start", "done", "exit"}
  /\ grammar_line \in Nat /\ graph_line \in Nat /\ start_line \in Nat
  /\ symbols \in Seq(Symbol(Label))
  /\ rules \in Seq(Rule) /\ start_nonterm \in Nat
  /\ edges \in Seq(Edge)
  /\ node_count \in 0 .. SIZE_MAX /\ block_count \in 0 .. SIZE_MAX
  /\ start_nodes \in Seq(0 .. SIZE_MAX)

\* Each rule has its symbols in the table and spells a line read so far, and
\* the nonterminals are those the lines read so far define.
TableInv ==
  /\ DistinctLabels(symbols)
  /\ \A k \in 1 .. Len(rules) : InTable(symbols, rules[k])
  /\ {Spell(symbols, rules[k]) : k \in DOMAIN rules} = RuleLinesRead
  /\ NontermLabels(symbols) =
       {line[1] : line \in RuleLinesRead}
         \cup (IF start_nonterm = NoSymbol THEN {} ELSE {GLines[grammar_line][1]})

\* The symbol the file names as the start.
StartSymbol == [label |-> GLines[grammar_line][1], is_nonterm |-> TRUE]

\* Where the start symbol is: nowhere, where it was added, or at the front.
StartInv ==
  /\ grammar_line \in 0 .. Len(GLines)
  /\ pc = "grammar" => start_nonterm = NoSymbol
  /\ start_nonterm \in 0 .. Len(symbols)
  /\ pc = "swap" => start_nonterm \in 1 .. Len(symbols) /\ symbols[start_nonterm] = StartSymbol
  /\ pc \in {"graph", "start", "done"} =>
       start_nonterm = 1 /\ Len(symbols) >= 1 /\ symbols[1] = StartSymbol

IndInv == Typed /\ TableInv /\ StartInv

\* A line of the grammar that is read is a line of the file.
LEMMA GLineType ==
  ASSUME config \in Config, grammar_line \in Nat
  PROVE  /\ Len(GLines) \in Nat
         /\ \A n \in 1 .. Len(GLines) : GLines[n] \in Seq(Label)
         /\ ReadingGrammar => grammar_line + 1 \in 1 .. Len(GLines) /\ GLine \in Seq(Label)
<1>1. GLines \in Seq(Seq(Label))
  BY DEF Config, File, GLines, GrammarLine
<1>2. Len(GLines) \in Nat /\ \A n \in 1 .. Len(GLines) : GLines[n] \in Seq(Label)
  BY <1>1
<1>3. ReadingGrammar => grammar_line + 1 \in 1 .. Len(GLines)
  BY <1>2 DEF ReadingGrammar
<1> QED BY <1>2, <1>3 DEF GLine

\* A line of the graph that is read is a line of the file.
LEMMA ELineType ==
  ASSUME config \in Config, graph_line \in Nat
  PROVE  ReadingGraph => ELine \in GraphLine
<1>1. ELines \in Seq(GraphLine)
  BY DEF Config, File, ELines
<1> QED BY <1>1 DEF ReadingGraph, ELine

\* A line of the start node file that is read is a line of the file.
LEMMA SLineType ==
  ASSUME config \in Config, start_line \in Nat
  PROVE  ReadingStart => SLine \in Seq(Int)
<1>1. SLines \in Seq(StartLine)
  BY DEF Config, File, SLines
<1> QED BY <1>1 DEF ReadingStart, SLine, StartLine

\* Initially nothing is read and the table is empty.
LEMMA InitIndInv == Init => IndInv
<1> SUFFICES ASSUME Init PROVE IndInv
  OBVIOUS
<1>1. config \in Config
  BY ParserAssumption DEF Init
<1>2. Typed
  BY <1>1, ParserAssumption DEF Init, Typed, NoSymbol
<1>3. grammar_line \in 0 .. Len(GLines) /\ start_nonterm = NoSymbol /\ pc = "grammar"
  BY <1>1, GLineType DEF Init
<1>4. RuleLinesRead = {}
  BY <1>3 DEF RuleLinesRead, Init
<1>5. /\ DistinctLabels(symbols) /\ NontermLabels(symbols) = {}
      /\ Len(rules) = 0 /\ {Spell(symbols, rules[k]) : k \in DOMAIN rules} = {}
  BY DEF Init, DistinctLabels, NontermLabels
<1>6. TableInv
  BY <1>3, <1>4, <1>5 DEF TableInv
<1>7. start_nonterm \in 0 .. Len(symbols)
  BY <1>3 DEF Init, NoSymbol
<1> QED BY <1>2, <1>3, <1>6, <1>7 DEF IndInv, StartInv

\* Steps that leave the grammar, the table and the start alone.
LEMMA TableUnchanged ==
  ASSUME IndInv, UNCHANGED <<config, symbols, grammarVars>>, Typed',
         pc' = pc \/ pc' = "exit" \/ {pc, pc'} \subseteq {"graph", "start", "done"}
  PROVE  IndInv'
<1>1. /\ config' = config /\ symbols' = symbols /\ grammar_line' = grammar_line
      /\ rules' = rules /\ start_nonterm' = start_nonterm
  BY DEF grammarVars
<1>2. GLines' = GLines /\ RuleLinesRead' = RuleLinesRead
  BY <1>1 DEF GLines, RuleLinesRead
<1>3. TableInv'
  BY <1>1, <1>2 DEF IndInv, TableInv
<1>4. StartInv'
  BY <1>1, <1>2 DEF IndInv, StartInv, StartSymbol
<1> QED BY <1>3, <1>4 DEF IndInv

\* Reading a line adds it to the lines read, unless it is blank.
LEMMA LineRead ==
  ASSUME grammar_line \in Nat, start_nonterm = NoSymbol,
         config' = config, grammar_line' = grammar_line + 1, start_nonterm' = NoSymbol
  PROVE  RuleLinesRead' = RuleLinesRead \cup (IF GLine = <<>> THEN {} ELSE {GLine})
<1>1. GLines' = GLines
  BY DEF GLines
<1>2. RuleLinesRead = {GLines[n] : n \in {m \in 1 .. grammar_line : GLines[m] # <<>>}}
  BY DEF RuleLinesRead
<1>3. RuleLinesRead' = {GLines[n] : n \in {m \in 1 .. grammar_line + 1 : GLines[m] # <<>>}}
  BY <1>1 DEF RuleLinesRead
<1>4. 1 .. grammar_line + 1 = 1 .. grammar_line \cup {grammar_line + 1}
  OBVIOUS
<1> QED BY <1>2, <1>3, <1>4 DEF GLine

\* A blank line changes nothing but the place in the file.
LEMMA GrammarBlankStep == IndInv /\ GrammarBlank => IndInv'
<1> SUFFICES ASSUME IndInv, GrammarBlank PROVE IndInv'
  OBVIOUS
<1>1. /\ Typed /\ TableInv /\ StartInv /\ pc = "grammar" /\ start_nonterm = NoSymbol
  BY DEF IndInv, GrammarBlank, ReadingGrammar, StartInv
<1>2. /\ grammar_line' = grammar_line + 1 /\ GLine = <<>>
      /\ UNCHANGED <<config, pc, symbols, rules, start_nonterm, graph_line, edges, node_count,
                     block_count, start_line, start_nodes>>
  BY DEF GrammarBlank, graphVars, startVars
<1>3. Typed'
  BY <1>1, <1>2 DEF Typed
<1>4. RuleLinesRead' = RuleLinesRead
  BY <1>1, <1>2, LineRead DEF Typed
<1>5. TableInv'
  BY <1>1, <1>2, <1>4 DEF TableInv
<1>6. GLines' = GLines /\ grammar_line + 1 \in 0 .. Len(GLines)
  BY <1>1, <1>2, GLineType DEF Typed, GLines, GrammarBlank
<1>7. StartInv'
  BY <1>1, <1>2, <1>6 DEF StartInv
<1> QED BY <1>3, <1>5, <1>7 DEF IndInv

\* A rule line adds one rule that spells it, over a table that has grown.
LEMMA GrammarRuleStep == IndInv /\ GrammarRule => IndInv'
<1> SUFFICES ASSUME IndInv, GrammarRule PROVE IndInv'
  OBVIOUS
<1>1. /\ Typed /\ TableInv /\ StartInv /\ pc = "grammar" /\ start_nonterm = NoSymbol
  BY DEF IndInv, GrammarRule, ReadingGrammar, StartInv
<1>2. /\ symbols' = WithThird(symbols, GLine)
      /\ rules' = Append(rules, RuleOf(symbols, GLine))
      /\ grammar_line' = grammar_line + 1
      /\ UNCHANGED <<config, pc, start_nonterm, graph_line, edges, node_count,
                     block_count, start_line, start_nodes>>
  BY DEF GrammarRule, graphVars, startVars
<1>3. /\ GLine \in Seq(Label) /\ Len(GLine) \in 1 .. 3
      /\ grammar_line + 1 \in 0 .. Len(GLines)
  BY <1>1, GLineType DEF GrammarRule, IsRuleLine, Typed
<1>4. symbols \in Seq(Symbol(Label)) /\ rules \in Seq(Rule)
  BY <1>1 DEF Typed
<1>5. PICK new, rule : new = WithThird(symbols, GLine) /\ rule = RuleOf(symbols, GLine)
  OBVIOUS
<1>6. /\ Grown(Label, symbols, new) /\ InTable(new, rule) /\ Spell(new, rule) = GLine
      /\ DistinctLabels(new)
  BY <1>1, <1>3, <1>4, <1>5, RuleAdded DEF TableInv
<1>7. /\ symbols' = new /\ rules' = Append(rules, rule)
      /\ new \in Seq(Symbol(Label)) /\ rule \in Rule
  BY <1>2, <1>5, <1>6 DEF Grown, InTable
<1>8. Typed'
  BY <1>1, <1>2, <1>4, <1>7 DEF Typed
<1>9. /\ Len(rules') = Len(rules) + 1 /\ rules'[Len(rules) + 1] = rule
      /\ \A k \in 1 .. Len(rules) : rules'[k] = rules[k]
      /\ DOMAIN rules = 1 .. Len(rules) /\ DOMAIN rules' = 1 .. Len(rules) + 1
  BY <1>4, <1>7
<1>10. \A k \in 1 .. Len(rules) :
         InTable(new, rules[k]) /\ Spell(new, rules[k]) = Spell(symbols, rules[k])
  <2>1. \A k \in 1 .. Len(rules) : InTable(symbols, rules[k])
    BY <1>1 DEF TableInv
  <2> QED BY <1>4, <1>6, <2>1, SpellInGrown
<1>11. RuleLinesRead' = RuleLinesRead \cup {GLine}
  <2>1. GLine # <<>>
    BY <1>3
  <2> QED BY <1>1, <1>2, <2>1, LineRead DEF Typed
<1>12. TableInv'
  <2>1. \A k \in 1 .. Len(rules') : InTable(symbols', rules'[k])
    BY <1>6, <1>7, <1>9, <1>10
  <2>2. {Spell(symbols', rules'[k]) : k \in DOMAIN rules'} = RuleLinesRead'
    <3>1. {Spell(new, rules'[k]) : k \in 1 .. Len(rules) + 1}
            = {Spell(symbols, rules[k]) : k \in 1 .. Len(rules)} \cup {GLine}
      BY <1>4, <1>6, <1>9, <1>10
    <3>2. {Spell(symbols, rules[k]) : k \in 1 .. Len(rules)} = RuleLinesRead
      BY <1>1, <1>9 DEF TableInv
    <3> QED BY <1>7, <1>9, <1>11, <3>1, <3>2
  <2>3. NontermLabels(symbols') = {line[1] : line \in RuleLinesRead'}
    <3>1. NontermLabels(new) = NontermLabels(symbols) \cup {GLine[1]}
      BY <1>3, <1>4, <1>5, NontermsAfterLine
    <3>2. NontermLabels(symbols) = {line[1] : line \in RuleLinesRead}
      BY <1>1 DEF TableInv
    <3> QED BY <1>7, <1>11, <3>1, <3>2
  <2>4. DistinctLabels(symbols')
    BY <1>6, <1>7
  <2> QED BY <1>1, <1>2, <2>1, <2>2, <2>3, <2>4 DEF TableInv
<1>13. StartInv'
  <2>1. start_nonterm' = NoSymbol /\ 0 \in 0 .. Len(symbols')
    <3>1. symbols' \in Seq(Symbol(Label))
      BY <1>8 DEF Typed
    <3> QED
      BY <1>1, <1>2, <1>3, <3>1 DEF StartInv
  <2> QED
    BY <1>1, <1>2, <1>3, <2>1 DEF StartInv, GLines, NoSymbol
<1> QED BY <1>8, <1>12, <1>13 DEF IndInv

\* The start is added to the table; "Count:" and the line after it give no rule.
LEMMA GrammarStartStep == IndInv /\ GrammarStart => IndInv'
<1> SUFFICES ASSUME IndInv, GrammarStart PROVE IndInv'
  OBVIOUS
<1>1. /\ Typed /\ TableInv /\ StartInv /\ pc = "grammar" /\ start_nonterm = NoSymbol
  BY DEF IndInv, GrammarStart, ReadingGrammar, StartInv
<1>2. PICK str : str = GLines[grammar_line + 2][1]
  OBVIOUS
<1>3. /\ symbols' = symbol_list_add_str(symbols, str, TRUE)
      /\ start_nonterm' = AddedIndex(symbols, str)
      /\ grammar_line' = grammar_line + 2 /\ pc' = "swap"
      /\ UNCHANGED <<config, rules, graph_line, edges, node_count,
                     block_count, start_line, start_nodes>>
  BY <1>2 DEF GrammarStart, graphVars, startVars
<1>4. grammar_line \in Nat /\ grammar_line + 2 \in 1 .. Len(GLines) /\ str \in Label
  <2>1. grammar_line \in Nat /\ config \in Config
    BY <1>1 DEF Typed
  <2>2. grammar_line + 1 + 1 <= Len(GLines) /\ Len(GLines[grammar_line + 1 + 1]) = 1
    BY DEF GrammarStart, IsStartAt
  <2>3. grammar_line + 2 \in 1 .. Len(GLines) /\ Len(GLines[grammar_line + 2]) = 1
    BY <2>1, <2>2, GLineType
  <2> QED BY <1>2, <2>1, <2>3, GLineType
<1>5. symbols \in Seq(Symbol(Label)) /\ rules \in Seq(Rule)
  BY <1>1 DEF Typed
<1>6. PICK new, at : new = symbol_list_add_str(symbols, str, TRUE) /\ at = AddedIndex(symbols, str)
  OBVIOUS
<1>7. IsAdded(Label, symbols, str, TRUE, new, at) /\ Grown(Label, symbols, new)
  BY <1>4, <1>5, <1>6, AddStr, AddedIsGrown
<1>8. /\ symbols' = new /\ start_nonterm' = at /\ new \in Seq(Symbol(Label))
      /\ at \in 1 .. Len(new) /\ new[at].label = str /\ new[at].is_nonterm = TRUE
  BY <1>3, <1>6, <1>7 DEF IsAdded
<1>9. Typed'
  <2>1. Len(new) \in Nat
    BY <1>8
  <2>2. start_nonterm' \in Nat /\ grammar_line' \in Nat
    BY <1>3, <1>4, <1>8, <2>1
  <2>3. symbols' \in Seq(Symbol(Label))
    BY <1>8
  <2> QED BY <1>1, <1>3, <2>2, <2>3 DEF Typed
<1>10. GLines' = GLines
  BY <1>3 DEF GLines
<1>11. RuleLinesRead' = RuleLinesRead
  <2>1. start_nonterm' # NoSymbol
    BY <1>8 DEF NoSymbol
  <2>2. grammar_line' - 2 = grammar_line
    BY <1>3, <1>4
  <2> QED BY <1>1, <1>10, <2>1, <2>2 DEF RuleLinesRead
<1>12. \A k \in 1 .. Len(rules) :
         InTable(new, rules[k]) /\ Spell(new, rules[k]) = Spell(symbols, rules[k])
  <2>1. \A k \in 1 .. Len(rules) : InTable(symbols, rules[k])
    BY <1>1 DEF TableInv
  <2> QED BY <1>5, <1>7, <2>1, SpellInGrown
<1>13. TableInv'
  <2>1. DistinctLabels(symbols')
    BY <1>1, <1>4, <1>5, <1>3, AddStrKeepsDistinct DEF TableInv
  <2>2. {Spell(symbols', rules'[k]) : k \in DOMAIN rules'} = RuleLinesRead'
    <3>1. {Spell(new, rules[k]) : k \in DOMAIN rules} = {Spell(symbols, rules[k]) : k \in DOMAIN rules}
      BY <1>5, <1>12
    <3> QED BY <1>1, <1>3, <1>8, <1>11, <3>1 DEF TableInv
  <2>3. NontermLabels(new) = NontermLabels(symbols) \cup {str}
    <3>1. NontermsGain(symbols, new, str)
      BY <1>4, <1>5, <1>6, NontermsAfterAdd
    <3> QED BY <3>1 DEF NontermsGain
  <2>4. NontermLabels(symbols) = {line[1] : line \in RuleLinesRead}
    BY <1>1 DEF TableInv
  <2>5. start_nonterm' # NoSymbol /\ GLines'[grammar_line'][1] = str
    BY <1>2, <1>3, <1>8, <1>10 DEF NoSymbol
  <2> QED BY <1>3, <1>8, <1>11, <1>12, <2>1, <2>2, <2>3, <2>4, <2>5 DEF TableInv
<1>14. StartInv'
  <2>1. new[at] = [label |-> str, is_nonterm |-> TRUE]
    <3>1. new[at] \in Symbol(Label)
      BY <1>8
    <3> QED BY <1>8, <3>1 DEF Symbol
  <2>2. StartSymbol' = [label |-> str, is_nonterm |-> TRUE]
    BY <1>2, <1>3, <1>10 DEF StartSymbol
  <2>3. grammar_line' \in 0 .. Len(GLines')
    <3>1. grammar_line' = grammar_line + 2
      BY <1>3
    <3>2. Len(GLines) \in Nat
      BY <1>1, GLineType DEF Typed
    <3> QED BY <1>4, <1>10, <3>1, <3>2
  <2>4. start_nonterm' \in 1 .. Len(symbols') /\ symbols'[start_nonterm'] = StartSymbol'
    BY <1>8, <2>1, <2>2
  <2>5. pc' = "swap"
    BY <1>3
  <2> QED BY <2>3, <2>4, <2>5 DEF StartInv
<1> QED BY <1>9, <1>13, <1>14 DEF IndInv

(***************************************************************************)
(* The swap moves the start to the front of the table and renames the two  *)
(* indices in every rule: the rules spell what they did.                   *)
(***************************************************************************)
LEMMA SwapStartStep == IndInv /\ SwapStart => IndInv'
<1> SUFFICES ASSUME IndInv, SwapStart PROVE IndInv'
  OBVIOUS
<1>1. /\ Typed /\ TableInv /\ StartInv /\ pc = "swap"
      /\ start_nonterm \in 1 .. Len(symbols) /\ symbols[start_nonterm] = StartSymbol
  BY DEF IndInv, SwapStart, StartInv
<1>2. symbols \in Seq(Symbol(Label)) /\ rules \in Seq(Rule)
  BY <1>1 DEF Typed
<1>3. PICK sym1, sym2 : sym1 = 1 /\ sym2 = start_nonterm
  OBVIOUS
<1>4. sym1 \in 1 .. Len(symbols) /\ sym2 \in 1 .. Len(symbols)
  BY <1>1, <1>2, <1>3
<1>5. PICK new : new = symbol_list_swap(symbols, sym1, sym2)
  OBVIOUS
<1>6. /\ symbols' = new /\ start_nonterm' = 1 /\ pc' = "graph"
      /\ rules' = [k \in DOMAIN rules |->
                     [first  |-> Swapped(rules[k].first, sym1, sym2),
                      second |-> Swapped(rules[k].second, sym1, sym2),
                      third  |-> Swapped(rules[k].third, sym1, sym2)]]
      /\ UNCHANGED <<config, grammar_line, graph_line, edges, node_count,
                     block_count, start_line, start_nodes>>
  BY <1>3, <1>5 DEF SwapStart, grammar_swap_symbols, graphVars, startVars
<1>7. /\ new \in Seq(Symbol(Label)) /\ Len(new) = Len(symbols) /\ new[1] = StartSymbol
      /\ NontermLabels(new) = NontermLabels(symbols) /\ DistinctLabels(new)
  <2>1. /\ new \in Seq(Symbol(Label)) /\ Len(new) = Len(symbols)
        /\ new[sym1] = symbols[sym2]
    BY <1>2, <1>4, <1>5, SwapExchanges
  <2>2. NontermLabels(symbol_list_swap(symbols, sym1, sym2)) = NontermLabels(symbols)
    BY <1>2, <1>4, NontermsAfterSwap
  <2>3. DistinctLabels(symbols)
    BY <1>1 DEF TableInv
  <2>4. DistinctLabels(symbol_list_swap(symbols, sym1, sym2))
    BY <1>2, <1>4, <2>3, SwapKeepsDistinct
  <2> QED BY <1>1, <1>3, <1>5, <2>1, <2>2, <2>4
<1>8. DOMAIN rules = 1 .. Len(rules) /\ DOMAIN rules' = 1 .. Len(rules)
  BY <1>2, <1>6
<1>9. \A k \in 1 .. Len(rules) :
        InTable(new, rules'[k]) /\ Spell(new, rules'[k]) = Spell(symbols, rules[k])
  <2>1. TAKE k \in 1 .. Len(rules)
  <2>2. PICK swapped : swapped = rules'[k]
    OBVIOUS
  <2>3. swapped = [first  |-> Swapped(rules[k].first, sym1, sym2),
                   second |-> Swapped(rules[k].second, sym1, sym2),
                   third  |-> Swapped(rules[k].third, sym1, sym2)]
    BY <1>6, <1>8, <2>2
  <2>4. InTable(symbols, rules[k])
    BY <1>1 DEF TableInv
  <2> QED BY <1>2, <1>4, <1>5, <2>2, <2>3, <2>4, SwapSpells
<1>10. rules' \in Seq(Rule) /\ Len(rules') = Len(rules)
  <2>1. \A k \in 1 .. Len(rules) : rules'[k] \in Rule
    BY <1>9 DEF InTable
  <2>2. Len(rules) \in Nat
    BY <1>2
  <2> QED BY <1>6, <1>8, <2>1, <2>2
<1>11. Typed'
  BY <1>1, <1>6, <1>7, <1>10 DEF Typed
<1>12. /\ GLines' = GLines /\ RuleLinesRead' = RuleLinesRead
       /\ start_nonterm # NoSymbol /\ start_nonterm' # NoSymbol
  BY <1>1, <1>6 DEF GLines, RuleLinesRead, NoSymbol
<1>13. TableInv'
  <2>1. {Spell(new, rules'[k]) : k \in 1 .. Len(rules)} = {Spell(symbols, rules[k]) : k \in 1 .. Len(rules)}
    BY <1>9
  <2>2. {Spell(symbols', rules'[k]) : k \in DOMAIN rules'} = RuleLinesRead'
    <3>1. {Spell(symbols, rules[k]) : k \in DOMAIN rules} = RuleLinesRead
      BY <1>1 DEF TableInv
    <3>2. {Spell(symbols, rules[k]) : k \in 1 .. Len(rules)} = RuleLinesRead
      BY <1>8, <3>1
    <3>3. {Spell(symbols', rules'[k]) : k \in DOMAIN rules'} = {Spell(new, rules'[k]) : k \in 1 .. Len(rules)}
      BY <1>6, <1>8
    <3> QED BY <1>12, <2>1, <3>2, <3>3
  <2>3. NontermLabels(symbols') =
          {line[1] : line \in RuleLinesRead'} \cup {GLines'[grammar_line'][1]}
    BY <1>1, <1>6, <1>7, <1>12 DEF TableInv
  <2> QED BY <1>6, <1>7, <1>9, <1>10, <1>12, <2>2, <2>3 DEF TableInv
<1>14. StartInv'
  BY <1>1, <1>2, <1>6, <1>7, <1>12 DEF StartInv, StartSymbol
<1> QED BY <1>11, <1>13, <1>14 DEF IndInv

\* An edge line may add a terminal; no symbol of the table changes.
LEMMA GraphEdgeSymbols ==
  ASSUME Typed, GraphEdge
  PROVE  /\ symbols' \in Seq(Symbol(Label)) /\ Len(symbols') >= Len(symbols)
         /\ \A i \in 1 .. Len(symbols) : symbols'[i] = symbols[i]
         /\ Grown(Label, symbols, symbols') /\ AddedIndex(symbols, ELine.label) \in Nat
         /\ NontermLabels(symbols') = NontermLabels(symbols)
         /\ DistinctLabels(symbols) => DistinctLabels(symbols')
<1>1. symbols \in Seq(Symbol(Label)) /\ config \in Config /\ graph_line \in Nat
  BY DEF Typed
<1>2. ELine.label \in Label
  <2>1. ELine \in GraphLine
    BY <1>1, ELineType DEF GraphEdge
  <2> QED BY <2>1 DEF GraphLine
<1>3. PICK str, new, at : /\ str = ELine.label /\ at = AddedIndex(symbols, str)
                          /\ new = symbol_list_add_str(symbols, str, FALSE)
  OBVIOUS
<1>4. symbols' = new
  BY <1>3 DEF GraphEdge
<1>5. IsAdded(Label, symbols, str, FALSE, new, at) /\ Grown(Label, symbols, new)
  BY <1>1, <1>2, <1>3, AddStr, AddedIsGrown
<1>6. NontermLabels(symbol_list_add_str(symbols, str, FALSE)) = NontermLabels(symbols)
  BY <1>1, <1>2, <1>3, NontermsKept
<1>7. DistinctLabels(symbols) => DistinctLabels(symbol_list_add_str(symbols, str, FALSE))
  BY <1>1, <1>2, <1>3, AddStrKeepsDistinct
<1>8. /\ new \in Seq(Symbol(Label)) /\ Len(new) >= Len(symbols) /\ at \in 1 .. Len(new)
      /\ \A i \in 1 .. Len(symbols) : new[i] = symbols[i]
  BY <1>5 DEF IsAdded
<1>9. at \in Nat
  BY <1>8
<1> QED BY <1>3, <1>4, <1>5, <1>6, <1>7, <1>8, <1>9

\* The counts and the edge of an edge line stay within a size_t.
LEMMA GraphEdgeType == Typed /\ GraphEdge => Typed'
<1> SUFFICES ASSUME Typed, GraphEdge PROVE Typed'
  OBVIOUS
<1>1. /\ config \in Config /\ graph_line \in Nat /\ edges \in Seq(Edge)
      /\ node_count \in 0 .. SIZE_MAX /\ block_count \in 0 .. SIZE_MAX /\ SIZE_MAX \in Nat \ {0}
  BY ParserAssumption DEF Typed
<1>2. \A n \in 0 .. SIZE_MAX : Plus1(n) \in 0 .. SIZE_MAX
  BY <1>1 DEF Plus1
<1>3. \A a, b \in 0 .. SIZE_MAX : MaxOf(a, b) \in 0 .. SIZE_MAX
  BY DEF MaxOf
<1>4. PICK nums : nums = ELine.nums
  OBVIOUS
<1>5. nums \in Seq(Int) /\ Len(nums) \in {2, 3} /\ \A k \in 1 .. Len(nums) : nums[k] \in 0 .. SIZE_MAX
  <2>1. ELine \in GraphLine
    BY <1>1, ELineType DEF GraphEdge
  <2>2. nums \in Seq(Int)
    BY <1>4, <2>1 DEF GraphLine
  <2> QED BY <1>4, <2>2 DEF GraphEdge, IsEdgeLine, SizeToken
<1>6. PICK index : index = EdgeIndex(ELine)
  OBVIOUS
<1>7. nums[1] \in 0 .. SIZE_MAX /\ nums[2] \in 0 .. SIZE_MAX /\ index \in 0 .. SIZE_MAX
  BY <1>1, <1>4, <1>5, <1>6 DEF EdgeIndex
<1>8. PICK at : at = AddedIndex(symbols, ELine.label)
  OBVIOUS
<1>9. /\ node_count' = MaxOf(MaxOf(node_count, Plus1(nums[2])), Plus1(nums[1]))
      /\ block_count' = MaxOf(block_count, Plus1(index))
      /\ edges' = Append(edges, [u |-> nums[1], v |-> nums[2], term_index |-> at, index |-> index])
      /\ graph_line' = graph_line + 1
      /\ UNCHANGED <<config, pc, grammar_line, rules, start_nonterm, start_line, start_nodes>>
  BY <1>4, <1>6, <1>8 DEF GraphEdge, EdgeOf, grammarVars, startVars
<1>10. node_count' \in 0 .. SIZE_MAX /\ block_count' \in 0 .. SIZE_MAX
  BY <1>1, <1>2, <1>3, <1>7, <1>9
<1>11. edges' \in Seq(Edge)
  <2>1. at \in Nat
    BY <1>8, GraphEdgeSymbols
  <2>2. [u |-> nums[1], v |-> nums[2], term_index |-> at, index |-> index] \in Edge
    BY <1>7, <2>1 DEF Edge
  <2> QED BY <1>1, <1>9, <2>2
<1>12. symbols' \in Seq(Symbol(Label))
  BY GraphEdgeSymbols
<1> QED BY <1>1, <1>9, <1>10, <1>11, <1>12 DEF Typed

\* An edge line leaves the rules, the nonterminals and the start alone.
LEMMA GraphEdgeStep == IndInv /\ GraphEdge => IndInv'
<1> SUFFICES ASSUME IndInv, GraphEdge PROVE IndInv'
  OBVIOUS
<1>1. /\ Typed /\ TableInv /\ StartInv /\ pc = "graph"
      /\ start_nonterm = 1 /\ Len(symbols) >= 1 /\ symbols[1] = StartSymbol
  BY DEF IndInv, GraphEdge, ReadingGraph, StartInv
<1>2. symbols \in Seq(Symbol(Label)) /\ rules \in Seq(Rule)
  BY <1>1 DEF Typed
<1>3. PICK new : new = symbols'
  OBVIOUS
<1>4. /\ new \in Seq(Symbol(Label)) /\ Len(new) >= Len(symbols)
      /\ \A i \in 1 .. Len(symbols) : new[i] = symbols[i]
      /\ Grown(Label, symbols, new) /\ NontermLabels(new) = NontermLabels(symbols)
      /\ DistinctLabels(new)
  BY <1>1, <1>3, GraphEdgeSymbols DEF TableInv
<1>5. UNCHANGED <<config, pc, grammar_line, rules, start_nonterm, start_line, start_nodes>>
  BY DEF GraphEdge, grammarVars, startVars
<1>6. Typed'
  BY <1>1, GraphEdgeType
<1>7. GLines' = GLines /\ RuleLinesRead' = RuleLinesRead
  BY <1>5 DEF GLines, RuleLinesRead
<1>8. \A k \in 1 .. Len(rules) :
        InTable(new, rules[k]) /\ Spell(new, rules[k]) = Spell(symbols, rules[k])
  <2>1. \A k \in 1 .. Len(rules) : InTable(symbols, rules[k])
    BY <1>1 DEF TableInv
  <2> QED BY <1>2, <1>4, <2>1, SpellInGrown
<1>9. TableInv'
  <2>1. {Spell(new, rules[k]) : k \in DOMAIN rules} = {Spell(symbols, rules[k]) : k \in DOMAIN rules}
    BY <1>2, <1>8
  <2>2. {Spell(symbols', rules'[k]) : k \in DOMAIN rules'} = RuleLinesRead'
    BY <1>1, <1>3, <1>5, <1>7, <2>1 DEF TableInv
  <2> QED BY <1>1, <1>3, <1>4, <1>5, <1>7, <1>8, <2>2 DEF TableInv
<1>10. StartInv'
  <2>1. Len(new) >= 1 /\ new[1] = StartSymbol
    BY <1>1, <1>2, <1>4
  <2> QED BY <1>1, <1>3, <1>5, <1>7, <2>1 DEF StartInv, StartSymbol
<1> QED BY <1>6, <1>9, <1>10 DEF IndInv

\* The other steps of the program keep the types.
LEMMA OtherStepsType ==
  ASSUME Typed,
         \/ GrammarNoStart \/ GrammarError
         \/ GraphBlank \/ GraphMissing \/ GraphError \/ GraphEnd
         \/ StartBlank \/ StartNode \/ StartMissing \/ StartError \/ StartEnd
  PROVE  Typed'
<1>1. CASE GrammarNoStart \/ GrammarError \/ GraphMissing \/ GraphError \/ StartMissing \/ StartError
  BY <1>1 DEF GrammarNoStart, GrammarError, GraphMissing, GraphError, StartMissing, StartError,
              Exit, Typed, grammarVars, graphVars, startVars
<1>2. CASE GraphBlank
  BY <1>2 DEF GraphBlank, Typed, grammarVars, startVars
<1>3. CASE GraphEnd \/ StartEnd
  BY <1>3 DEF GraphEnd, StartEnd, Typed, grammarVars, graphVars, startVars
<1>4. CASE StartBlank
  BY <1>4 DEF StartBlank, Typed, grammarVars, graphVars
<1>5. CASE StartNode
  <2>1. start_nodes \in Seq(0 .. SIZE_MAX) /\ start_line \in Nat
    BY DEF Typed
  <2>2. SLine[1] \in 0 .. SIZE_MAX
    BY <1>5 DEF StartNode, IsStartLine, SizeToken
  <2>3. start_nodes' \in Seq(0 .. SIZE_MAX) /\ start_line' \in Nat
    BY <1>5, <2>1, <2>2 DEF StartNode
  <2> QED BY <1>5, <2>3 DEF StartNode, Typed, grammarVars, graphVars
<1> QED BY <1>1, <1>2, <1>3, <1>4, <1>5

\* Every step keeps the invariant.
LEMMA NextIndInv == IndInv /\ [Next]_vars => IndInv'
<1> SUFFICES ASSUME IndInv, [Next]_vars PROVE IndInv'
  OBVIOUS
<1>1. CASE GrammarBlank
  BY <1>1, GrammarBlankStep
<1>2. CASE GrammarRule
  BY <1>2, GrammarRuleStep
<1>3. CASE GrammarStart
  BY <1>3, GrammarStartStep
<1>4. CASE SwapStart
  BY <1>4, SwapStartStep
<1>5. CASE GraphEdge
  BY <1>5, GraphEdgeStep
<1>6. CASE \/ GrammarNoStart \/ GrammarError
           \/ GraphBlank \/ GraphMissing \/ GraphError \/ GraphEnd
           \/ StartBlank \/ StartNode \/ StartMissing \/ StartError \/ StartEnd
  <2>1. Typed'
    BY <1>6, OtherStepsType DEF IndInv
  <2>2. UNCHANGED <<config, symbols, grammarVars>>
    BY <1>6 DEF GrammarNoStart, GrammarError, GraphBlank, GraphMissing, GraphError, GraphEnd,
                StartBlank, StartNode, StartMissing, StartError, StartEnd, Exit
  <2>3. pc' = pc \/ pc' = "exit" \/ {pc, pc'} \subseteq {"graph", "start", "done"}
    <3>1. CASE GraphEnd \/ StartEnd
      <4>1. (pc = "graph" /\ (pc' = "start" \/ pc' = "done")) \/ (pc = "start" /\ pc' = "done")
        BY <3>1 DEF GraphEnd, StartEnd, ReadingStart
      <4> QED BY <4>1
    <3>2. CASE ~(GraphEnd \/ StartEnd)
      BY <1>6, <3>2 DEF GrammarNoStart, GrammarError, GraphBlank, GraphMissing, GraphError,
                        StartBlank, StartNode, StartMissing, StartError, Exit
    <3> QED BY <3>1, <3>2
  <2> QED BY <2>1, <2>2, <2>3, TableUnchanged
<1>7. CASE Finished \/ UNCHANGED vars
  <2>1. UNCHANGED <<config, pc, symbols, grammarVars, graphVars, startVars>>
    BY <1>7 DEF Finished, vars
  <2>2. Typed'
    BY <2>1 DEF IndInv, Typed, grammarVars, graphVars, startVars
  <2> QED BY <2>1, <2>2, TableUnchanged
<1> QED BY <1>1, <1>2, <1>3, <1>4, <1>5, <1>6, <1>7 DEF Next

-----------------------------------------------------------------------------
(* The theorems *)

\* The invariant of the parser holds for every input.
THEOREM ParserInvariant == Spec => []IndInv
<1> QED BY InitIndInv, NextIndInv, PTL DEF Spec

(***************************************************************************)
(* The rules spell the lines of the grammar file read so far, whatever the *)
(* table the indices of process_grammar point into has gone through.       *)
(***************************************************************************)
THEOREM RulesFaithful == Spec => []RulesSpellTheFile
<1>1. IndInv => RulesSpellTheFile
  <2> SUFFICES ASSUME IndInv PROVE RulesSpellTheFile
    OBVIOUS
  <2>1. /\ symbols \in Seq(Symbol(Label)) /\ rules \in Seq(Rule)
        /\ {Spell(symbols, rules[k]) : k \in DOMAIN rules} = RuleLinesRead
        /\ \A k \in 1 .. Len(rules) : InTable(symbols, rules[k])
    BY DEF IndInv, Typed, TableInv
  <2>2. DOMAIN rules = 1 .. Len(rules) /\ DOMAIN symbols = 1 .. Len(symbols) /\ Len(symbols) \in Nat
    BY <2>1
  <2>3. ASSUME NEW k \in DOMAIN rules
        PROVE  /\ rules[k].first \in DOMAIN symbols
               /\ rules[k].second \in DOMAIN symbols \cup {NoSymbol}
               /\ rules[k].third \in DOMAIN symbols \cup {NoSymbol}
               /\ rules[k].second = NoSymbol => rules[k].third = NoSymbol
    BY <2>1, <2>2, <2>3 DEF InTable, NoSymbol
  <2> QED BY <2>1, <2>3 DEF RulesSpellTheFile
<1> QED BY <1>1, ParserInvariant, PTL

\* A symbol is a nonterminal exactly when the lines read so far make it one.
THEOREM NontermsFaithful == Spec => []NontermsExact
<1>1. IndInv => NontermsExact
  BY DEF IndInv, TableInv, NontermsExact, NontermLabels
<1> QED BY <1>1, ParserInvariant, PTL

\* From the swap on the start of the file is symbol number 0.
THEOREM StartFirst == Spec => []StartIsFirst
<1>1. IndInv => StartIsFirst
  BY DEF IndInv, StartInv, StartIsFirst, StartSymbol
<1> QED BY <1>1, ParserInvariant, PTL

\* No symbol an edge may refer to moves or changes while the graph is read.
THEOREM SymbolsStay == Spec => SymbolsOnlyAppended
<1> DEFINE Kept == (pc \in {"graph", "start"}) =>
                     /\ Len(symbols') >= Len(symbols)
                     /\ \A i \in DOMAIN symbols : symbols'[i] = symbols[i]
<1>1. IndInv /\ [Next]_vars => [Kept]_vars
  <2> SUFFICES ASSUME IndInv, Next, pc \in {"graph", "start"}
               PROVE  /\ Len(symbols') >= Len(symbols)
                      /\ \A i \in DOMAIN symbols : symbols'[i] = symbols[i]
    OBVIOUS
  <2>1. DOMAIN symbols = 1 .. Len(symbols) /\ Len(symbols) \in Nat
    BY DEF IndInv, Typed
  <2>2. CASE GraphEdge
    BY <2>1, <2>2, GraphEdgeSymbols DEF IndInv
  <2>3. CASE ~GraphEdge
    <3>1. symbols' = symbols
      BY <2>3 DEF Next, GrammarBlank, GrammarRule, GrammarStart, GrammarNoStart, GrammarError,
                  ReadingGrammar, SwapStart, GraphBlank, GraphMissing, GraphError, GraphEnd,
                  StartBlank, StartNode, StartMissing, StartError, StartEnd, Finished, Exit, vars
    <3> QED BY <2>1, <3>1
  <2> QED BY <2>2, <2>3
<1> QED BY <1>1, ParserInvariant, PTL DEF Spec, SymbolsOnlyAppended

-----------------------------------------------------------------------------
(***************************************************************************)
(* The graph.  The edges hold indices of a table that still grows, and the *)
(* two counts are kept edge by edge.                                       *)
(***************************************************************************)

\* The edge is the one the line describes.
EdgeReads(list, e, line) ==
  /\ e.u = line.nums[1] /\ e.v = line.nums[2] /\ e.index = EdgeIndex(line)
  /\ e.term_index \in 1 .. Len(list) /\ list[e.term_index].label = line.label

\* The edges are those of the first n lines, one for each that is not blank.
EdgesOf(list, es, lines, n) ==
  /\ Len(es) = EdgesIn(lines, n)
  /\ \A k \in 1 .. Len(es) : es[k].term_index \in 1 .. Len(list)
  /\ \A m \in 1 .. n : lines[m].nums # <<>> => EdgeReads(list, es[EdgesIn(lines, m)], lines[m])

CountsFit(es, nodes, blocks) ==
  /\ \A k \in 1 .. Len(es) :
       /\ es[k].u # SIZE_MAX => es[k].u < nodes
       /\ es[k].v # SIZE_MAX => es[k].v < nodes
       /\ es[k].index # SIZE_MAX => es[k].index < blocks
  /\ nodes > 0 => \E k \in 1 .. Len(es) : nodes - 1 \in {es[k].u, es[k].v}
  /\ blocks # 1 => \E k \in 1 .. Len(es) : blocks - 1 = es[k].index
  /\ blocks >= 1

GraphInv ==
  /\ graph_line \in 0 .. Len(ELines)
  /\ pc \in {"grammar", "swap"} =>
       graph_line = 0 /\ edges = <<>> /\ node_count = 0 /\ block_count = 1
  /\ EdgesOf(symbols, edges, ELines, graph_line)
  /\ CountsFit(edges, node_count, block_count)

\* The number of edge lines goes up by one at each of them, and an edge line
\* has its number among those of the lines up to it.
LEMMA EdgesInCounts ==
  ASSUME NEW lines
  PROVE  /\ EdgesIn(lines, 0) = 0
         /\ \A n \in Nat :
              /\ EdgesIn(lines, n) \in Nat
              /\ EdgesIn(lines, n + 1) = EdgesIn(lines, n) + (IF lines[n + 1].nums = <<>> THEN 0 ELSE 1)
              /\ \A m \in 1 .. n : lines[m].nums # <<>> => EdgesIn(lines, m) \in 1 .. EdgesIn(lines, n)
<1> DEFINE Upto(n) == {m \in 1 .. n : lines[m].nums # <<>>}
<1>1. \A n \in Nat : IsFiniteSet(Upto(n)) /\ EdgesIn(lines, n) = Cardinality(Upto(n))
  <2> TAKE n \in Nat
  <2>1. IsFiniteSet(1 .. n) /\ Upto(n) \in SUBSET (1 .. n)
    BY FS_Interval
  <2>2. IsFiniteSet(Upto(n))
    BY <2>1, FS_Subset
  <2> QED
    BY <2>2 DEF EdgesIn
<1>2. \A n \in Nat : EdgesIn(lines, n) \in Nat
  BY <1>1, FS_CardinalityType
<1>3. EdgesIn(lines, 0) = 0
  <2>1. Upto(0) = {}
    OBVIOUS
  <2> QED
    BY <1>1, <2>1, FS_EmptySet
<1>4. \A n \in Nat : EdgesIn(lines, n + 1) = EdgesIn(lines, n) + (IF lines[n + 1].nums = <<>> THEN 0 ELSE 1)
  <2> TAKE n \in Nat
  <2>1. CASE lines[n + 1].nums = <<>>
    <3>1. Upto(n + 1) = Upto(n)
      BY <2>1
    <3>2. EdgesIn(lines, n + 1) = EdgesIn(lines, n)
      <4> HIDE DEF Upto
      <4>1. n + 1 \in Nat
        OBVIOUS
      <4> QED
        BY <1>1, <3>1, <4>1
    <3> QED
      BY <1>2, <2>1, <3>2
  <2>2. CASE lines[n + 1].nums # <<>>
    <3>1. Upto(n + 1) = Upto(n) \cup {n + 1} /\ n + 1 \notin Upto(n)
      BY <2>2
    <3>2. Cardinality(Upto(n) \cup {n + 1}) = Cardinality(Upto(n)) + 1
      <4> HIDE DEF Upto
      <4> QED
        BY <1>1, <3>1, FS_AddElement
    <3>3. EdgesIn(lines, n + 1) = EdgesIn(lines, n) + 1
      <4> HIDE DEF Upto
      <4>1. n + 1 \in Nat
        OBVIOUS
      <4> QED
        BY <1>1, <3>1, <3>2, <4>1
    <3> QED
      BY <2>2, <3>3
  <2> QED
    BY <2>1, <2>2
<1>5. ASSUME NEW n \in Nat, NEW m \in 1 .. n, lines[m].nums # <<>>
      PROVE  EdgesIn(lines, m) \in 1 .. EdgesIn(lines, n)
  <2>1. m \in Nat /\ m \in Upto(m) /\ Upto(m) \in SUBSET Upto(n)
    BY <1>5
  <2> HIDE DEF Upto
  <2>2. Cardinality(Upto(m)) <= Cardinality(Upto(n))
    BY <1>1, <2>1, FS_Subset
  <2>3. Cardinality(Upto(m)) # 0
    BY <1>1, <2>1, FS_EmptySet
  <2>4. EdgesIn(lines, m) <= EdgesIn(lines, n) /\ EdgesIn(lines, m) # 0
    BY <1>1, <2>1, <2>2, <2>3
  <2> QED
    BY <1>2, <2>1, <2>4
<1> QED
  BY <1>2, <1>3, <1>4, <1>5

\* A table that keeps its symbols keeps the edges that point into it.
LEMMA EdgesKept ==
  ASSUME NEW list \in Seq(Symbol(Label)), NEW new \in Seq(Symbol(Label)), NEW es, NEW lines, NEW n,
         Len(new) >= Len(list), \A s \in 1 .. Len(list) : new[s] = list[s],
         EdgesOf(list, es, lines, n)
  PROVE  EdgesOf(new, es, lines, n)
<1>1. Len(list) \in Nat /\ Len(new) \in Nat
  OBVIOUS
<1>2. ASSUME NEW e, NEW line, EdgeReads(list, e, line) PROVE EdgeReads(new, e, line)
  <2>1. e.term_index \in 1 .. Len(list)
    BY <1>2 DEF EdgeReads
  <2> QED
    BY <1>1, <1>2, <2>1 DEF EdgeReads
<1>3. \A k \in 1 .. Len(es) : es[k].term_index \in 1 .. Len(new)
  BY <1>1 DEF EdgesOf
<1> QED
  BY <1>2, <1>3 DEF EdgesOf

\* Reading an edge line adds its edge.
LEMMA EdgeLineRead ==
  ASSUME NEW list, NEW es \in Seq(Edge), NEW lines, NEW n \in Nat, EdgesOf(list, es, lines, n),
         NEW e \in Edge, EdgeReads(list, e, lines[n + 1]), lines[n + 1].nums # <<>>
  PROVE  EdgesOf(list, Append(es, e), lines, n + 1)
<1> DEFINE new == Append(es, e)
<1>1. /\ Len(es) \in Nat /\ Len(new) = Len(es) + 1 /\ new[Len(es) + 1] = e
      /\ \A k \in 1 .. Len(es) : new[k] = es[k]
  OBVIOUS
<1> HIDE DEF new
<1>2. EdgesIn(lines, n + 1) = Len(es) + 1 /\ EdgesIn(lines, n) = Len(es)
  BY <1>1, EdgesInCounts DEF EdgesOf
<1>3. \A k \in 1 .. Len(new) : new[k].term_index \in 1 .. Len(list)
  <2> TAKE k \in 1 .. Len(new)
  <2>1. CASE k = Len(es) + 1
    BY <1>1, <2>1 DEF EdgeReads
  <2>2. CASE k # Len(es) + 1
    <3>1. k \in 1 .. Len(es)
      BY <1>1, <2>2
    <3> QED
      BY <1>1, <3>1 DEF EdgesOf
  <2> QED
    BY <2>1, <2>2
<1>4. ASSUME NEW m \in 1 .. n + 1, lines[m].nums # <<>>
      PROVE  EdgeReads(list, new[EdgesIn(lines, m)], lines[m])
  <2>1. CASE m = n + 1
    BY <1>1, <1>2, <2>1
  <2>2. CASE m # n + 1
    <3>1. m \in 1 .. n
      BY <2>2
    <3>2. EdgesIn(lines, m) \in 1 .. Len(es)
      BY <1>2, <1>4, <3>1, EdgesInCounts
    <3>3. new[EdgesIn(lines, m)] = es[EdgesIn(lines, m)]
      BY <1>1, <3>2
    <3>4. EdgeReads(list, es[EdgesIn(lines, m)], lines[m])
      BY <1>4, <3>1 DEF EdgesOf
    <3> QED
      BY <3>3, <3>4
  <2> QED
    BY <2>1, <2>2
<1>5. Len(new) = EdgesIn(lines, n + 1)
  BY <1>1, <1>2
<1> QED
  BY <1>3, <1>4, <1>5 DEF EdgesOf, new

\* The counts still fit when an edge is added and they are raised to it.
LEMMA CountsRaised ==
  ASSUME SIZE_MAX \in Nat, NEW es \in Seq(Edge), NEW e \in Edge,
         NEW nodes \in 0 .. SIZE_MAX, NEW blocks \in 0 .. SIZE_MAX, CountsFit(es, nodes, blocks)
  PROVE  CountsFit(Append(es, e), MaxOf(MaxOf(nodes, Plus1(e.v)), Plus1(e.u)), MaxOf(blocks, Plus1(e.index)))
<1> DEFINE new == Append(es, e)
           top == MaxOf(MaxOf(nodes, Plus1(e.v)), Plus1(e.u))
           last == MaxOf(blocks, Plus1(e.index))
<1>1. /\ Len(es) \in Nat /\ Len(new) = Len(es) + 1 /\ new[Len(es) + 1] = e
      /\ \A k \in 1 .. Len(es) : new[k] = es[k] /\ es[k] \in Edge
  OBVIOUS
<1>2. \A k \in 1 .. Len(es) : k \in 1 .. Len(new)
  BY <1>1
<1>3. \A k \in 1 .. Len(new) : k \in 1 .. Len(es) \/ k = Len(es) + 1
  BY <1>1
<1>4. e.u \in 0 .. SIZE_MAX /\ e.v \in 0 .. SIZE_MAX /\ e.index \in 0 .. SIZE_MAX
  BY DEF Edge
<1> HIDE DEF new, top, last
<1>5. /\ \A k \in 1 .. Len(es) :
           /\ es[k].u # SIZE_MAX => es[k].u < nodes
           /\ es[k].v # SIZE_MAX => es[k].v < nodes
           /\ es[k].index # SIZE_MAX => es[k].index < blocks
      /\ nodes > 0 => \E k \in 1 .. Len(es) : nodes - 1 \in {es[k].u, es[k].v}
      /\ blocks # 1 => \E k \in 1 .. Len(es) : blocks - 1 = es[k].index
      /\ blocks >= 1
  BY DEF CountsFit
<1>6. Len(es) + 1 \in 1 .. Len(new)
  BY <1>1
<1>7. \A x \in 0 .. SIZE_MAX : Plus1(x) = IF x = SIZE_MAX THEN 0 ELSE x + 1
  <2> TAKE x \in 0 .. SIZE_MAX
  <2>1. CASE x = SIZE_MAX
    BY <2>1 DEF Plus1
  <2>2. CASE x # SIZE_MAX
    <3>1. x + 1 \in 0 .. SIZE_MAX
      BY <2>2
    <3>2. (x + 1) % (SIZE_MAX + 1) = x + 1
      BY <3>1
    <3> QED
      BY <2>2, <3>2 DEF Plus1
  <2> QED
    BY <2>1, <2>2
<1>8. /\ Plus1(e.u) = IF e.u = SIZE_MAX THEN 0 ELSE e.u + 1
      /\ Plus1(e.v) = IF e.v = SIZE_MAX THEN 0 ELSE e.v + 1
      /\ Plus1(e.index) = IF e.index = SIZE_MAX THEN 0 ELSE e.index + 1
  BY <1>4, <1>7
<1>9. /\ top \in Nat /\ top >= nodes
      /\ e.u # SIZE_MAX => top > e.u
      /\ e.v # SIZE_MAX => top > e.v
      /\ top = nodes \/ top = e.u + 1 \/ top = e.v + 1
  BY <1>4, <1>8 DEF top, MaxOf
<1>10. /\ last \in Nat /\ last >= blocks
       /\ e.index # SIZE_MAX => last > e.index
       /\ last = blocks \/ last = e.index + 1
  BY <1>4, <1>5, <1>8 DEF last, MaxOf
<1>11. ASSUME NEW k \in 1 .. Len(new)
       PROVE  /\ new[k].u # SIZE_MAX => new[k].u < top
              /\ new[k].v # SIZE_MAX => new[k].v < top
              /\ new[k].index # SIZE_MAX => new[k].index < last
  <2>1. CASE k = Len(es) + 1
    BY <1>1, <1>9, <1>10, <2>1
  <2>2. CASE k \in 1 .. Len(es)
    <3>1. es[k].u \in 0 .. SIZE_MAX /\ es[k].v \in 0 .. SIZE_MAX /\ es[k].index \in 0 .. SIZE_MAX
      BY <1>1, <2>2 DEF Edge
    <3>2. new[k] = es[k]
      BY <1>1, <2>2
    <3> QED
      BY <1>5, <1>9, <1>10, <2>2, <3>1, <3>2
  <2> QED
    BY <1>3, <2>1, <2>2
<1>12. ASSUME top > 0 PROVE \E k \in 1 .. Len(new) : top - 1 \in {new[k].u, new[k].v}
  <2>1. CASE top = nodes
    BY <1>1, <1>2, <1>5, <1>12, <2>1
  <2>2. CASE top = e.u + 1 \/ top = e.v + 1
    BY <1>1, <1>4, <1>6, <2>2
  <2> QED
    BY <1>9, <2>1, <2>2
<1>13. ASSUME last # 1 PROVE \E k \in 1 .. Len(new) : last - 1 = new[k].index
  <2>1. CASE last = blocks
    BY <1>1, <1>2, <1>5, <1>13, <2>1
  <2>2. CASE last = e.index + 1
    BY <1>1, <1>4, <1>6, <2>2
  <2> QED
    BY <1>10, <2>1, <2>2
<1>14. last >= 1
  BY <1>5, <1>10
<1>15. CountsFit(new, top, last)
  BY <1>11, <1>12, <1>13, <1>14 DEF CountsFit
<1> QED
  BY <1>15 DEF new, top, last

\* An edge line.
LEMMA GraphEdgeGraph ==
  ASSUME IndInv, GraphInv, GraphEdge
  PROVE  GraphInv'
<1>1. /\ symbols \in Seq(Symbol(Label)) /\ config \in Config /\ graph_line \in Nat
      /\ edges \in Seq(Edge) /\ node_count \in 0 .. SIZE_MAX /\ block_count \in 0 .. SIZE_MAX
      /\ SIZE_MAX \in Nat
  BY ParserAssumption DEF IndInv, Typed
<1>2. PICK new, line, e : new = symbols' /\ line = ELine /\ e = EdgeOf(symbols, line)
  OBVIOUS
<1>3. /\ pc' = "graph" /\ ELines' = ELines /\ graph_line' = graph_line + 1
      /\ edges' = Append(edges, e) /\ line = ELines[graph_line + 1]
      /\ node_count' = MaxOf(MaxOf(node_count, Plus1(line.nums[2])), Plus1(line.nums[1]))
      /\ block_count' = MaxOf(block_count, Plus1(EdgeIndex(line)))
      /\ new = symbol_list_add_str(symbols, line.label, FALSE)
      /\ Len(line.nums) \in {2, 3} /\ graph_line < Len(ELines) /\ line \in GraphLine
  BY <1>1, <1>2, ELineType DEF GraphEdge, ReadingGraph, ELine, ELines, IsEdgeLine
<1>4. IsAdded(Label, symbols, line.label, FALSE, new, AddedIndex(symbols, line.label))
  BY <1>1, <1>3, AddStr DEF GraphLine
<1>5. /\ new \in Seq(Symbol(Label)) /\ Len(new) >= Len(symbols)
      /\ \A s \in 1 .. Len(symbols) : new[s] = symbols[s]
  BY <1>1, <1>2, GraphEdgeSymbols DEF IndInv
<1>6. /\ e.u = line.nums[1] /\ e.v = line.nums[2] /\ e.index = EdgeIndex(line)
      /\ e.term_index = AddedIndex(symbols, line.label)
  BY <1>2 DEF EdgeOf
<1>7. EdgeReads(new, e, line)
  BY <1>4, <1>6 DEF EdgeReads, IsAdded
<1>8. e \in Edge
  <2>1. edges' \in Seq(Edge) /\ Len(edges) + 1 \in 1 .. Len(edges') /\ edges'[Len(edges) + 1] = e
    <3>1. edges' \in Seq(Edge)
      BY GraphEdgeType DEF IndInv, Typed
    <3> QED
      BY <1>1, <1>3, <3>1
  <2> QED
    BY <2>1
<1>9. EdgesOf(new, edges, ELines, graph_line)
  BY <1>1, <1>5, EdgesKept DEF GraphInv
<1>10. line.nums # <<>>
  BY <1>3
<1>11. EdgesOf(new, Append(edges, e), ELines, graph_line + 1)
  BY <1>1, <1>3, <1>7, <1>8, <1>9, <1>10, EdgeLineRead
<1>12. CountsFit(edges, node_count, block_count)
  BY DEF GraphInv
<1>13. CountsFit(Append(edges, e), MaxOf(MaxOf(node_count, Plus1(e.v)), Plus1(e.u)), MaxOf(block_count, Plus1(e.index)))
  BY <1>1, <1>8, <1>12, CountsRaised
<1>14. CountsFit(edges', node_count', block_count')
  BY <1>3, <1>6, <1>13
<1>15. graph_line' \in 0 .. Len(ELines)
  <2>1. ELines \in Seq(GraphLine)
    BY <1>1 DEF Config, File, ELines
  <2> QED
    BY <1>1, <1>3, <2>1
<1> QED
  BY <1>2, <1>3, <1>11, <1>14, <1>15 DEF GraphInv

\* A blank line.
LEMMA GraphBlankGraph ==
  ASSUME IndInv, GraphInv, GraphBlank
  PROVE  GraphInv'
<1>1. /\ graph_line \in Nat /\ ELines \in Seq(GraphLine)
  BY DEF IndInv, Typed, Config, File, ELines
<1>2. /\ pc' = "graph" /\ ELines' = ELines /\ graph_line' = graph_line + 1 /\ symbols' = symbols
      /\ edges' = edges /\ node_count' = node_count /\ block_count' = block_count
      /\ ELines[graph_line + 1].nums = <<>> /\ graph_line < Len(ELines)
  BY DEF GraphBlank, ReadingGraph, ELine, ELines
<1>3. EdgesOf(symbols, edges, ELines, graph_line + 1)
  <2>1. \A m \in 1 .. graph_line + 1 : m \in 1 .. graph_line \/ m = graph_line + 1
    BY <1>1
  <2>2. EdgesIn(ELines, graph_line + 1) = EdgesIn(ELines, graph_line)
    <3>1. EdgesIn(ELines, graph_line) \in Nat
      BY <1>1, EdgesInCounts
    <3>2. EdgesIn(ELines, graph_line + 1)
            = EdgesIn(ELines, graph_line) + (IF ELines[graph_line + 1].nums = <<>> THEN 0 ELSE 1)
      BY <1>1, EdgesInCounts
    <3> QED
      BY <1>2, <3>1, <3>2
  <2>3. EdgesOf(symbols, edges, ELines, graph_line)
    BY DEF GraphInv
  <2> QED
    BY <1>2, <2>1, <2>2, <2>3 DEF EdgesOf
<1>4. graph_line' \in 0 .. Len(ELines)
  BY <1>1, <1>2
<1> QED
  BY <1>2, <1>3, <1>4 DEF GraphInv

\* Before the graph is read there is no edge, after it nothing changes.
LEMMA GraphNext == IndInv /\ GraphInv /\ [Next]_vars => GraphInv'
<1> SUFFICES ASSUME IndInv, GraphInv, [Next]_vars PROVE GraphInv'
  OBVIOUS
<1>1. CASE GraphEdge
  BY <1>1, GraphEdgeGraph
<1>2. CASE GraphBlank
  BY <1>2, GraphBlankGraph
<1>3. CASE GrammarBlank \/ GrammarRule \/ GrammarStart \/ SwapStart
  <2>1. /\ pc \in {"grammar", "swap"} /\ ELines' = ELines
        /\ UNCHANGED <<graph_line, edges, node_count, block_count>>
    BY <1>3 DEF GrammarBlank, GrammarRule, GrammarStart, SwapStart, ReadingGrammar, graphVars, ELines
  <2>2. graph_line = 0 /\ edges = <<>> /\ node_count = 0 /\ block_count = 1
    BY <2>1 DEF GraphInv
  <2>3. EdgesOf(symbols', edges', ELines, 0)
    BY <2>1, <2>2, EdgesInCounts DEF EdgesOf
  <2> QED
    BY <2>1, <2>2, <2>3 DEF GraphInv
<1>4. CASE \/ GrammarNoStart \/ GrammarError \/ GraphMissing \/ GraphError \/ GraphEnd
           \/ StartBlank \/ StartNode \/ StartMissing \/ StartError \/ StartEnd \/ Finished \/ UNCHANGED vars
  <2>1. /\ ELines' = ELines /\ symbols' = symbols
        /\ UNCHANGED <<graph_line, edges, node_count, block_count>>
    BY <1>4 DEF GrammarNoStart, GrammarError, GraphMissing, GraphError, GraphEnd, StartBlank, StartNode,
      StartMissing, StartError, StartEnd, Finished, Exit, vars, graphVars, ELines
  <2>2. pc' \in {"grammar", "swap"} => pc' = pc
    BY <1>4 DEF GrammarNoStart, GrammarError, GraphMissing, GraphError, GraphEnd, StartBlank, StartNode,
      StartMissing, StartError, StartEnd, Finished, Exit, vars
  <2> QED
    BY <2>1, <2>2 DEF GraphInv
<1> QED
  BY <1>1, <1>2, <1>3, <1>4 DEF Next

\* No line is read: no edge.
LEMMA GraphInit == Init => GraphInv
<1> SUFFICES ASSUME Init PROVE GraphInv
  OBVIOUS
<1>1. edges = <<>> /\ graph_line = 0 /\ node_count = 0 /\ block_count = 1 /\ config \in Config
  BY ParserAssumption DEF Init
<1>2. ELines \in Seq(GraphLine)
  BY <1>1 DEF Config, File, ELines
<1>3. CountsFit(edges, node_count, block_count) /\ EdgesOf(symbols, edges, ELines, graph_line)
  BY <1>1, EdgesInCounts DEF CountsFit, EdgesOf
<1> QED
  BY <1>1, <1>2, <1>3 DEF GraphInv

-----------------------------------------------------------------------------
(***************************************************************************)
(* The verdict on the files.  What is read is well formed; a file is right *)
(* when it has been read to its end, and a step to exit has met a line     *)
(* that no well-formed file has at that place.                             *)
(***************************************************************************)

FilesOK == GrammarOK /\ GraphOK /\ (config.start_given => StartOK)

ReadInv ==
  /\ pc = "grammar" => \A m \in 1 .. grammar_line : GLines[m] # <<>> => IsRuleLine(GLines[m])
  /\ pc \in {"swap", "graph", "start", "done"} => GrammarOK
  /\ \A m \in 1 .. graph_line : ELines[m].nums # <<>> => IsEdgeLine(ELines[m])
  /\ pc \in {"start", "done"} => GraphOK
  /\ pc = "start" => config.start_given
  /\ \A m \in 1 .. start_line : SLines[m] # <<>> => IsStartLine(SLines[m])
  /\ pc = "done" /\ config.start_given => StartOK
  /\ pc = "exit" => ~FilesOK

\* The files are the same after the step, and so is the verdict they deserve.
LEMMA FilesStay ==
  ASSUME config' = config
  PROVE  /\ GLines' = GLines /\ ELines' = ELines /\ SLines' = SLines
         /\ GrammarOK' = GrammarOK /\ GraphOK' = GraphOK /\ StartOK' = StartOK /\ FilesOK' = FilesOK
  BY DEF GLines, ELines, SLines, GrammarOK, GraphOK, StartOK, FilesOK

\* The types of the three files.
LEMMA FileTypes ==
  ASSUME config \in Config
  PROVE  GLines \in Seq(Seq(Label)) /\ ELines \in Seq(GraphLine) /\ SLines \in Seq(Seq(Int))
  BY DEF Config, File, GLines, ELines, SLines, GrammarLine, StartLine

\* The line the loop stops at in a well-formed file: a rule, a blank line, or
\* the line before the start.
LEMMA GrammarOKLine ==
  ASSUME config \in Config, GrammarOK, NEW g \in Nat,
         \A m \in 1 .. g : GLines[m] # <<>> => IsRuleLine(GLines[m])
  PROVE  /\ config.grammar.exists /\ g < Len(GLines)
         /\ \/ GLines[g + 1] = <<>>
            \/ IsRuleLine(GLines[g + 1])
            \/ IsStartAt(GLines, g + 1)
<1>1. GLines \in Seq(Seq(Label)) /\ Len(GLines) \in Nat
  BY FileTypes
<1>2. PICK n \in 1 .. Len(GLines) - 1 :
        /\ GLines[n] = <<Count>>
        /\ \E s \in Label : GLines[n + 1] = <<s>>
        /\ \A m \in 1 .. n - 1 : GLines[m] # <<>> => GLines[m][1] # Count /\ Len(GLines[m]) <= 3
  BY DEF GrammarOK
<1>3. n > g
  <2>1. GLines[n] # <<>> /\ ~IsRuleLine(GLines[n])
    BY <1>2 DEF IsRuleLine
  <2> QED
    BY <2>1
<1>4. g < Len(GLines) /\ config.grammar.exists
  BY <1>1, <1>3 DEF GrammarOK
<1>5. CASE n = g + 1
  <2>1. GLines[n] = <<Count>> /\ n + 1 <= Len(GLines)
    BY <1>1, <1>2
  <2>2. Len(GLines[n + 1]) = 1
    BY <1>2
  <2>3. IsStartAt(GLines, n)
    BY <2>1, <2>2 DEF IsStartAt
  <2> QED
    BY <1>4, <1>5, <2>3
<1>6. CASE n # g + 1
  <2>1. g + 1 \in 1 .. n - 1 /\ g + 1 \in 1 .. Len(GLines)
    BY <1>1, <1>3, <1>6
  <2>2. GLines[g + 1] \in Seq(Label)
    BY <1>1, <2>1
  <2>3. ASSUME GLines[g + 1] # <<>> PROVE Len(GLines[g + 1]) \in 1 .. 3
    <3>1. Len(GLines[g + 1]) <= 3
      BY <1>2, <2>1, <2>3
    <3>2. Len(GLines[g + 1]) \in Nat /\ Len(GLines[g + 1]) # 0
      BY <2>2, <2>3
    <3>3. PICK len \in Nat : len = Len(GLines[g + 1])
      BY <3>2
    <3>4. len <= 3 /\ len # 0
      BY <3>1, <3>2, <3>3
    <3>5. len \in 1 .. 3
      BY <3>4
    <3> QED
      BY <3>3, <3>5
  <2> QED
    BY <1>2, <1>4, <2>1, <2>3 DEF IsRuleLine
<1> QED
  BY <1>4, <1>5, <1>6

\* process_grammar.
LEMMA ReadGrammar ==
  ASSUME IndInv, ReadInv, GrammarBlank \/ GrammarRule \/ GrammarStart \/ SwapStart
  PROVE  ReadInv'
<1>1. /\ config \in Config /\ grammar_line \in Nat /\ GLines \in Seq(Seq(Label))
  BY FileTypes DEF IndInv, Typed
<1>2. config' = config /\ graph_line' = graph_line /\ start_line' = start_line
  BY DEF GrammarBlank, GrammarRule, GrammarStart, SwapStart, graphVars, startVars
<1>3. CASE GrammarBlank \/ GrammarRule
  <2>1. /\ pc = "grammar" /\ pc' = "grammar" /\ grammar_line' = grammar_line + 1
        /\ GLines[grammar_line + 1] = <<>> \/ IsRuleLine(GLines[grammar_line + 1])
    BY <1>3 DEF GrammarBlank, GrammarRule, ReadingGrammar, GLine
  <2>2. \A m \in 1 .. grammar_line + 1 : m \in 1 .. grammar_line \/ m = grammar_line + 1
    BY <1>1
  <2> QED
    BY <1>2, <2>1, <2>2, FilesStay DEF ReadInv
<1>4. CASE GrammarStart
  <2>1. /\ pc = "grammar" /\ pc' = "swap" /\ IsStartAt(GLines, grammar_line + 1)
        /\ config.grammar.exists
    BY <1>4 DEF GrammarStart, ReadingGrammar
  <2>2. PICK n \in 1 .. Len(GLines) - 1 : n = grammar_line + 1
    <3>1. Len(GLines) \in Nat
      BY <1>1
    <3> QED
      BY <1>1, <2>1, <3>1 DEF IsStartAt
  <2>3. GLines[n] = <<Count>> /\ Len(GLines[n + 1]) = 1
    BY <2>1, <2>2 DEF IsStartAt
  <2>4. GLines[n + 1] \in Seq(Label)
    BY <1>1, <2>2
  <2>5. GLines[n + 1][1] \in Label /\ GLines[n + 1] = <<GLines[n + 1][1]>>
    BY <2>3, <2>4
  <2>6. \A m \in 1 .. n - 1 : GLines[m] # <<>> => GLines[m][1] # Count /\ Len(GLines[m]) <= 3
    <3>1. \A m \in 1 .. n - 1 : m \in 1 .. grammar_line
      BY <1>1, <2>2
    <3>2. \A m \in 1 .. n - 1 : GLines[m] # <<>> => IsRuleLine(GLines[m])
      BY <2>1, <3>1 DEF ReadInv
    <3>3. TAKE m \in 1 .. n - 1
    <3>4. HAVE GLines[m] # <<>>
    <3>5. Len(GLines[m]) \in 1 .. 3 /\ GLines[m][1] # Count
      BY <3>2, <3>4 DEF IsRuleLine
    <3>6. PICK len \in 1 .. 3 : len = Len(GLines[m])
      BY <3>5
    <3>7. len <= 3
      OBVIOUS
    <3> QED
      BY <3>5, <3>6, <3>7
  <2>7. GrammarOK
    BY <2>1, <2>2, <2>3, <2>5, <2>6 DEF GrammarOK
  <2> QED
    BY <1>2, <2>1, <2>7, FilesStay DEF ReadInv
<1>5. CASE SwapStart
  BY <1>2, <1>5, FilesStay DEF ReadInv, SwapStart
<1> QED
  BY <1>3, <1>4, <1>5

\* process_graph and process_start_nodes.
LEMMA ReadGraphAndStart ==
  ASSUME IndInv, GraphInv, ReadInv,
         GraphBlank \/ GraphEdge \/ GraphEnd \/ StartBlank \/ StartNode \/ StartEnd
  PROVE  ReadInv'
<1>1. /\ config \in Config /\ graph_line \in Nat /\ start_line \in Nat
      /\ ELines \in Seq(GraphLine) /\ SLines \in Seq(Seq(Int))
  BY FileTypes DEF IndInv, Typed
<1>2. config' = config /\ pc \in {"graph", "start"}
  BY DEF GraphBlank, GraphEdge, GraphEnd, StartBlank, StartNode, StartEnd, ReadingGraph, ReadingStart
<1>3. CASE GraphBlank \/ GraphEdge
  <2>1. /\ pc = "graph" /\ pc' = "graph" /\ graph_line' = graph_line + 1 /\ start_line' = start_line
        /\ ELines[graph_line + 1].nums = <<>> \/ IsEdgeLine(ELines[graph_line + 1])
    BY <1>3 DEF GraphBlank, GraphEdge, ReadingGraph, ELine, startVars
  <2>2. \A m \in 1 .. graph_line + 1 : m \in 1 .. graph_line \/ m = graph_line + 1
    BY <1>1
  <2> QED
    BY <1>2, <2>1, <2>2, FilesStay DEF ReadInv
<1>4. CASE GraphEnd
  <2>1. /\ pc = "graph" /\ pc' = (IF config.start_given THEN "start" ELSE "done")
        /\ graph_line' = graph_line /\ start_line' = start_line
        /\ config.graph.exists /\ graph_line = Len(ELines)
    BY <1>4 DEF GraphEnd, graphVars, startVars
  <2>2. GraphOK
    <3>1. ASSUME NEW n \in 1 .. Len(ELines), ELines[n].nums # <<>>
          PROVE  /\ Len(ELines[n].nums) \in 2 .. 3
                 /\ \A k \in DOMAIN ELines[n].nums : ELines[n].nums[k] \in 0 .. SIZE_MAX
      <4>1. IsEdgeLine(ELines[n])
        BY <2>1, <3>1 DEF ReadInv
      <4> QED
        BY <4>1 DEF IsEdgeLine, SizeToken
    <3> QED
      BY <2>1, <3>1 DEF GraphOK
  <2> QED
    BY <1>2, <2>1, <2>2, FilesStay DEF ReadInv
<1>5. CASE StartBlank \/ StartNode
  <2>1. /\ pc = "start" /\ pc' = "start" /\ start_line' = start_line + 1 /\ graph_line' = graph_line
        /\ SLines[start_line + 1] = <<>> \/ IsStartLine(SLines[start_line + 1])
    BY <1>5 DEF StartBlank, StartNode, ReadingStart, SLine, graphVars
  <2>2. \A m \in 1 .. start_line + 1 : m \in 1 .. start_line \/ m = start_line + 1
    BY <1>1
  <2> QED
    BY <1>2, <2>1, <2>2, FilesStay DEF ReadInv
<1>6. CASE StartEnd
  <2>1. /\ pc = "start" /\ pc' = "done" /\ start_line' = start_line /\ graph_line' = graph_line
        /\ config.start.exists /\ start_line = Len(SLines)
    BY <1>6 DEF StartEnd, graphVars, startVars
  <2>2. StartOK
    <3>1. ASSUME NEW n \in 1 .. Len(SLines), SLines[n] # <<>>
          PROVE  \E v \in 0 .. SIZE_MAX : SLines[n] = <<v>>
      <4>1. IsStartLine(SLines[n])
        BY <2>1, <3>1 DEF ReadInv
      <4>2. SLines[n] \in Seq(Int)
        BY <1>1
      <4>3. SLines[n][1] \in 0 .. SIZE_MAX /\ SLines[n] = <<SLines[n][1]>>
        BY <4>1, <4>2 DEF IsStartLine, SizeToken
      <4> QED
        BY <4>3
    <3> QED
      BY <2>1, <3>1 DEF StartOK
  <2> QED
    BY <1>2, <2>1, <2>2, FilesStay DEF ReadInv
<1> QED
  BY <1>3, <1>4, <1>5, <1>6

\* A step to exit has met something no well-formed file has there.
LEMMA ReadExit ==
  ASSUME IndInv, GraphInv, ReadInv,
         GrammarNoStart \/ GrammarError \/ GraphMissing \/ GraphError \/ StartMissing \/ StartError
  PROVE  ReadInv'
<1>1. /\ config \in Config /\ graph_line \in Nat /\ start_line \in Nat /\ grammar_line \in Nat
      /\ GLines \in Seq(Seq(Label)) /\ ELines \in Seq(GraphLine) /\ SLines \in Seq(Seq(Int))
  BY FileTypes DEF IndInv, Typed
<1>2. /\ config' = config /\ pc' = "exit" /\ graph_line' = graph_line /\ start_line' = start_line
  BY DEF GrammarNoStart, GrammarError, GraphMissing, GraphError, StartMissing, StartError, Exit,
    graphVars, startVars
<1>3. ~FilesOK
  <2>1. CASE GrammarNoStart \/ GrammarError
    <3>1. pc = "grammar" /\ \A m \in 1 .. grammar_line : GLines[m] # <<>> => IsRuleLine(GLines[m])
      BY <2>1 DEF GrammarNoStart, GrammarError, ReadingGrammar, ReadInv
    <3>2. SUFFICES ASSUME GrammarOK PROVE FALSE
      BY DEF FilesOK
    <3>3. /\ config.grammar.exists /\ grammar_line < Len(GLines)
          /\ \/ GLines[grammar_line + 1] = <<>>
             \/ IsRuleLine(GLines[grammar_line + 1])
             \/ IsStartAt(GLines, grammar_line + 1)
      BY <1>1, <3>1, <3>2, GrammarOKLine
    <3> QED
      BY <2>1, <3>1, <3>3 DEF GrammarNoStart, GrammarError, ReadingGrammar, GLine
  <2>2. CASE GraphMissing
    BY <2>2 DEF GraphMissing, FilesOK, GraphOK
  <2>3. CASE GraphError
    <3>1. graph_line + 1 \in 1 .. Len(ELines) /\ ELines[graph_line + 1].nums # <<>>
          /\ ~IsEdgeLine(ELines[graph_line + 1])
      <4>1. Len(ELines) \in Nat
        BY <1>1
      <4> QED
        BY <1>1, <2>3, <4>1 DEF GraphError, ReadingGraph, ELine
    <3> QED
      BY <3>1 DEF FilesOK, GraphOK, IsEdgeLine, SizeToken
  <2>4. CASE StartMissing
    BY <2>4 DEF StartMissing, FilesOK, StartOK, ReadInv
  <2>5. CASE StartError
    <3>1. start_line + 1 \in 1 .. Len(SLines) /\ SLines[start_line + 1] # <<>>
          /\ ~IsStartLine(SLines[start_line + 1]) /\ config.start_given
      <4>1. Len(SLines) \in Nat
        BY <1>1
      <4> QED
        BY <1>1, <2>5, <4>1 DEF StartError, ReadingStart, SLine, ReadInv
    <3>2. ASSUME NEW v \in 0 .. SIZE_MAX, SLines[start_line + 1] = <<v>> PROVE FALSE
      BY <3>1, <3>2 DEF IsStartLine, SizeToken
    <3> QED
      BY <3>1, <3>2 DEF FilesOK, StartOK
  <2> QED
    BY <2>1, <2>2, <2>3, <2>4, <2>5
<1> QED
  BY <1>2, <1>3, FilesStay DEF ReadInv

\* Every step keeps the verdict honest.
LEMMA ReadNext == IndInv /\ GraphInv /\ ReadInv /\ [Next]_vars => ReadInv'
<1> SUFFICES ASSUME IndInv, GraphInv, ReadInv, [Next]_vars PROVE ReadInv'
  OBVIOUS
<1>1. CASE GrammarBlank \/ GrammarRule \/ GrammarStart \/ SwapStart
  BY <1>1, ReadGrammar
<1>2. CASE GraphBlank \/ GraphEdge \/ GraphEnd \/ StartBlank \/ StartNode \/ StartEnd
  BY <1>2, ReadGraphAndStart
<1>3. CASE GrammarNoStart \/ GrammarError \/ GraphMissing \/ GraphError \/ StartMissing \/ StartError
  BY <1>3, ReadExit
<1>4. CASE Finished \/ UNCHANGED vars
  BY <1>4, FilesStay DEF Finished, vars, grammarVars, graphVars, startVars, ReadInv
<1> QED
  BY <1>1, <1>2, <1>3, <1>4 DEF Next

\* No line is read, nothing is wrong.
LEMMA ReadInit == Init => ReadInv
<1> SUFFICES ASSUME Init PROVE ReadInv
  OBVIOUS
<1>1. pc = "grammar" /\ grammar_line = 0 /\ graph_line = 0 /\ start_line = 0
  BY DEF Init
<1> QED
  BY <1>1 DEF ReadInv

\* What the invariants say of the edges is what the property says.
LEMMA GraphInvImplies == IndInv /\ GraphInv /\ ReadInv => GraphTrueToFile
<1> SUFFICES ASSUME IndInv, GraphInv, ReadInv PROVE GraphTrueToFile
  OBVIOUS
<1>1. /\ edges \in Seq(Edge) /\ DOMAIN edges = 1 .. Len(edges)
      /\ symbols \in Seq(Symbol(Label)) /\ DOMAIN symbols = 1 .. Len(symbols)
  BY DEF IndInv, Typed
<1>2. EdgesOf(symbols, edges, ELines, graph_line)
  BY DEF GraphInv
<1>3. Len(edges) = EdgesIn(ELines, graph_line)
  BY <1>2 DEF EdgesOf
<1>4. ASSUME NEW n \in 1 .. graph_line, ELines[n].nums # <<>>
      PROVE  LET e == edges[EdgesIn(ELines, n)]
                 nums == ELines[n].nums
             IN <<e.u, e.v, symbols[e.term_index].label, e.index>>
                  = <<nums[1], nums[2], ELines[n].label, IF Len(nums) = 2 THEN 0 ELSE nums[3]>>
  <2>1. EdgeReads(symbols, edges[EdgesIn(ELines, n)], ELines[n])
    BY <1>2, <1>4 DEF EdgesOf
  <2>2. Len(ELines[n].nums) \in {2, 3}
    BY <1>4 DEF ReadInv, IsEdgeLine
  <2> QED
    BY <2>1, <2>2 DEF EdgeReads, EdgeIndex
<1>5. EdgesSpellTheFile
  BY <1>3, <1>4 DEF EdgesSpellTheFile
<1>6. CountsFitEdges
  BY <1>1 DEF GraphInv, CountsFit, CountsFitEdges
<1> QED
  BY <1>5, <1>6 DEF GraphTrueToFile

\* The positions and indices exist.
LEMMA TypesImplied == IndInv /\ GraphInv => TypeOK
<1> SUFFICES ASSUME IndInv, GraphInv PROVE TypeOK
  OBVIOUS
<1>1. /\ Typed /\ TableInv /\ StartInv /\ EdgesOf(symbols, edges, ELines, graph_line)
  BY DEF IndInv, GraphInv
<1>2. /\ DOMAIN symbols = 1 .. Len(symbols) /\ DOMAIN rules = 1 .. Len(rules)
      /\ DOMAIN edges = 1 .. Len(edges)
  BY <1>1 DEF Typed
<1>3. /\ grammar_line \in 0 .. Len(GLines) /\ start_nonterm \in 0 .. Len(symbols)
      /\ graph_line \in 0 .. Len(ELines)
  BY <1>1 DEF StartInv, GraphInv
<1>4. \A k \in DOMAIN rules :
        /\ rules[k].first \in DOMAIN symbols
        /\ {rules[k].second, rules[k].third} \subseteq DOMAIN symbols \cup {NoSymbol}
  <2> TAKE k \in DOMAIN rules
  <2>1. InTable(symbols, rules[k])
    BY <1>1, <1>2 DEF TableInv
  <2>2. Len(symbols) \in Nat
    BY <1>1 DEF Typed
  <2> QED
    BY <1>2, <2>1, <2>2 DEF InTable, NoSymbol
<1>5. \A k \in DOMAIN edges : edges[k].term_index \in DOMAIN symbols
  BY <1>1, <1>2 DEF EdgesOf
<1> QED
  BY <1>1, <1>3, <1>4, <1>5 DEF TypeOK, Typed

-----------------------------------------------------------------------------

\* The graph and the verdict follow from the invariant of the grammar.
THEOREM ReadingInvariant == Spec => [](GraphInv /\ ReadInv)
<1>1. Init => GraphInv /\ ReadInv
  BY GraphInit, ReadInit
<1>2. IndInv /\ (GraphInv /\ ReadInv) /\ [Next]_vars => (GraphInv /\ ReadInv)'
  BY GraphNext, ReadNext
<1> QED
  BY <1>1, <1>2, ParserInvariant, PTL DEF Spec

\* The parser's data have their types in every reachable state: no index it
\* holds lies outside the table it points into.
THEOREM ParserTypeCorrect == Spec => []TypeOK
<1>1. IndInv /\ (GraphInv /\ ReadInv) => TypeOK
  BY TypesImplied
<1> QED
  BY <1>1, ParserInvariant, ReadingInvariant, PTL

(***************************************************************************)
(* For every graph file the edges are those of its lines, in their order,  *)
(* with the labels they have there, and the matrices' sizes are those the  *)
(* edges need, ids of SIZE_MAX aside, for which there is no room.          *)
(***************************************************************************)
THEOREM GraphFaithful == Spec => []GraphTrueToFile
<1>1. IndInv /\ (GraphInv /\ ReadInv) => GraphTrueToFile
  BY GraphInvImplies
<1> QED
  BY <1>1, ParserInvariant, ReadingInvariant, PTL

(***************************************************************************)
(* For every three files the program gives the row up exactly when one of  *)
(* those it was asked to read is malformed, a malformed start node file    *)
(* nobody asked for aside.                                                 *)
(***************************************************************************)
THEOREM ExitVerdictRight == Spec => []ExitIffMalformed
<1>1. GraphInv /\ ReadInv => ExitIffMalformed
  BY DEF ReadInv, FilesOK, ExitIffMalformed
<1> QED
  BY <1>1, ReadingInvariant, PTL
=============================================================================
