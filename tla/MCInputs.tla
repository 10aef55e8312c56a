------------------------------ MODULE MCInputs ------------------------------
(***************************************************************************)
(* Parser results for the model checker, built the way parser() builds     *)
(* them: the rules added in order, then the start, the swap, the edges.    *)
(***************************************************************************)
EXTENDS SymbolList, Labels, SequencesExt, FiniteSetsExt

L(stem, suf) == [pre |-> 0, stem |-> stem, suf |-> suf]
Helper(stem, suf) == [pre |-> 1, stem |-> stem, suf |-> suf]

Tokens(line) == [k \in 1 .. Len(line) |-> [label |-> line[k], lhs |-> k = 1]]

\* The table after the grammar file, before the swap.
GrammarSymbols(lines, start) ==
  FoldLeft(LAMBDA list, t : symbol_list_add_str(list, t.label, t.lhs), <<>>,
           FlattenSeq([k \in DOMAIN lines |-> Tokens(lines[k])])
             \o <<[label |-> start, lhs |-> TRUE]>>)

At(list, line, k) ==
  IF k > Len(line) THEN NoSymbol ELSE symbol_list_get_index_str(list, line[k])

\* edges: sequence of <<u, v, label, index>>
Parsed(lines, start, edges) ==
  LET list == GrammarSymbols(lines, start)
      swapped == symbol_list_swap(list, 1, symbol_list_get_index_str(list, start))
      all == FoldLeft(LAMBDA s, e : symbol_list_add_str(s, e[3], FALSE), swapped, edges)
  IN [symbols |-> all,
      rules |-> [k \in DOMAIN lines |->
                   [first |-> At(all, lines[k], 1), second |-> At(all, lines[k], 2),
                    third |-> At(all, lines[k], 3)]],
      edges |-> [k \in DOMAIN edges |->
                   [u |-> edges[k][1], v |-> edges[k][2],
                    term_index |-> symbol_list_get_index_str(all, edges[k][3]),
                    index |-> edges[k][4]]],
      node_count |-> Max({0} \cup {edges[k][n] + 1 : k \in DOMAIN edges, n \in {1, 2}}),
      block_count |-> Max({1} \cup {edges[k][4] + 1 : k \in DOMAIN edges})]
=============================================================================
