----------------------------- MODULE SymbolList -----------------------------
(***************************************************************************)
(* The symbol table of src/symbol_list.c: an append-only array of symbols  *)
(* searched by label.  Indices are those of the C array plus one, so that  *)
(* 0 stands for the -1 the code uses for "no symbol".  A symbol's          *)
(* is_indexed field is a function of its label, fixed by symbol_create; it *)
(* is the operator IsIndexed of the module Labels and not stored here.     *)
(***************************************************************************)
EXTENDS Integers, Sequences

\* The C value -1 of a rule's field: the symbol is absent.
NoSymbol == 0

Symbol(L) == [label : L, is_nonterm : BOOLEAN]

Rule == [first : Nat, second : Nat, third : Nat]

LabelsOf(list) == {list[i].label : i \in DOMAIN list}

DistinctLabels(list) ==
  \A i, j \in DOMAIN list : list[i].label = list[j].label => i = j

\* The first symbol with the label, or NoSymbol.
symbol_list_get_index_str(list, str) ==
  IF str \in LabelsOf(list)
    THEN CHOOSE i \in DOMAIN list :
           /\ list[i].label = str
           /\ \A j \in 1 .. i - 1 : list[j].label # str
    ELSE NoSymbol

\* Mutants: a symbol met before is never promoted to a nonterminal; or the
\* last call decides.
symbol_list_add_str_NoPromotion(list, str, is_nonterm) ==
  IF str \in LabelsOf(list) THEN list
  ELSE Append(list, [label |-> str, is_nonterm |-> is_nonterm])
symbol_list_add_str_LastWins(list, str, is_nonterm) ==
  IF str \in LabelsOf(list)
    THEN [list EXCEPT ![symbol_list_get_index_str(list, str)].is_nonterm = is_nonterm]
    ELSE Append(list, [label |-> str, is_nonterm |-> is_nonterm])

\* The table after the call; the index the call returns is AddedIndex.
symbol_list_add_str(list, str, is_nonterm) ==
  LET index == symbol_list_get_index_str(list, str) IN
  CASE index = NoSymbol -> Append(list, [label |-> str, is_nonterm |-> is_nonterm])
    [] index # NoSymbol /\ is_nonterm -> [list EXCEPT ![index].is_nonterm = TRUE]
    [] OTHER -> list

\* Mutant: the count is returned after it was raised.
AddedIndexPast(list, str) ==
  LET index == symbol_list_get_index_str(list, str) IN
  IF index = NoSymbol THEN Len(list) + 2 ELSE index

AddedIndex(list, str) ==
  LET index == symbol_list_get_index_str(list, str) IN
  IF index = NoSymbol THEN Len(list) + 1 ELSE index

symbol_list_swap_OneWay(list, i1, i2) == [list EXCEPT ![i2] = list[i1]]  \* mutant
symbol_list_swap(list, i1, i2) ==
  [list EXCEPT ![i1] = list[i2], ![i2] = list[i1]]

\* The labels a rule stands for, in the order of the grammar file.
Spell(list, rule) ==
  CASE rule.second = NoSymbol -> <<list[rule.first].label>>
    [] rule.second # NoSymbol /\ rule.third = NoSymbol ->
         <<list[rule.first].label, list[rule.second].label>>
    [] OTHER -> <<list[rule.first].label, list[rule.second].label,
                  list[rule.third].label>>
=============================================================================
