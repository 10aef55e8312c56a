----------------------------- MODULE GraphView ------------------------------
(***************************************************************************)
(* The library side of src/parser.c: explode_indices and                   *)
(* get_grb_matrices_from_graph, which give every label of a graph one      *)
(* matrix, an indexed one a matrix per block, and minimize_graph, which    *)
(* renumbers the vertices that have an edge.  They are pure functions of a *)
(* graph and a symbol table.  Indices of symbols and of matrices are those *)
(* of the C arrays plus one, vertices and blocks those of the code.        *)
(***************************************************************************)
EXTENDS SymbolList, Labels, SequencesExt, FiniteSetsExt

\* A block count of 0 is taken for 1.
BlockCountOf(block_count) == IF block_count = 0 THEN 1 ELSE block_count

MatricesOf(list, s, block_count) ==
  IF IsIndexed(list[s].label) THEN BlockCountOf(block_count) ELSE 1

\* What each matrix stands for, in order.
explode_indices(list, block_count) ==
  FlattenSeq([s \in DOMAIN list |->
    [n \in 1 .. MatricesOf(list, s, block_count) |-> [symbol_index |-> s, block_index |-> n - 1]]])

\* Mutant: the symbol's own matrices are counted in.
first_matrix_by_symbol_Late(list, block_count) ==
  LET first[s \in DOMAIN list] ==
        MatricesOf(list, s, block_count) + (IF s = 1 THEN 1 ELSE first[s - 1])
  IN first

\* The matrices of the symbols before come first.
first_matrix_by_symbol(list, block_count) ==
  LET first[s \in DOMAIN list] ==
        IF s = 1 THEN 1 ELSE first[s - 1] + MatricesOf(list, s - 1, block_count)
  IN first

\* An edge with no symbol, or with a block its indexed label does not have, ends the program.
EdgeAccepted(list, block_count, edge) ==
  /\ edge.term_index \in DOMAIN list
  /\ IsIndexed(list[edge.term_index].label) => edge.index < BlockCountOf(block_count)

\* The block counts only when the label is indexed.
MatrixOfEdge(list, block_count, edge) ==
  first_matrix_by_symbol(list, block_count)[edge.term_index]
    + (IF IsIndexed(list[edge.term_index].label) THEN edge.index ELSE 0)

get_grb_matrices_from_graph(graph, list) ==
  LET indices == explode_indices(list, graph.block_count)
      EdgesOf(m) == {k \in DOMAIN graph.edges :
                       MatrixOfEdge(list, graph.block_count, graph.edges[k]) = m}
  IN [matrix_symbols |-> indices,
      matrices |-> [m \in DOMAIN indices |->
                      {<<graph.edges[k].u, graph.edges[k].v>> : k \in EdgesOf(m)}]]

-----------------------------------------------------------------------------
(* minimize_graph *)

Unused == -1

UsedNodes(graph) == UNION {{graph.edges[k].u, graph.edges[k].v} : k \in DOMAIN graph.edges}

old_node_count(graph) == Max({graph.node_count} \cup {n + 1 : n \in UsedNodes(graph)})

\* Mutant: every vertex is counted, used or not.
NodeMapIdentity(graph) ==
  [n \in 0 .. old_node_count(graph) - 1 |-> IF n \in UsedNodes(graph) THEN n ELSE Unused]

\* The vertices with an edge get the numbers from 0 on, in their order.
NodeMap(graph) ==
  [n \in 0 .. old_node_count(graph) - 1 |->
     IF n \in UsedNodes(graph) THEN Cardinality({m \in UsedNodes(graph) : m < n}) ELSE Unused]

MinimizedEdge(graph, edge) ==
  [edge EXCEPT !.u = NodeMap(graph)[@], !.v = NodeMap(graph)[@]]

minimize_graph(graph) ==
  [graph EXCEPT
     !.edges = [k \in DOMAIN @ |-> MinimizedEdge(graph, @[k])],
     !.node_count = Cardinality(UsedNodes(graph))]
=============================================================================
