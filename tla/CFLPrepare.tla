----------------------------- MODULE CFLPrepare -----------------------------
(***************************************************************************)
(* adapter_CFL_prepare_common of src/adapters/adapter_CFL_common.c, shared *)
(* by the CFL, CFL_single_path, CFL_all_path and CFL_multsrc adapters:     *)
(* grammar_to_WCNF (module WCNF), then the table is split in terminals and *)
(* nonterminals, indexed symbols are exploded in one symbol per block      *)
(* (explode_indices_CFL), and one adjacency matrix per terminal is built.  *)
(*                                                                         *)
(* The matrix of a terminal is the set of its edges, as pairs.             *)
(***************************************************************************)
EXTENDS WCNF, GraphView

\* The labels grammar_to_WCNF makes up for the terminals of p, and for EPS.
MadeUp(p) ==
  {EpsLabel} \cup {HelperLabel(p.symbols[s].label) :
                     s \in {t \in DOMAIN p.symbols : ~p.symbols[t].is_nonterm}}

(***************************************************************************)
(* README.md:247 "<EDGE_LABEL> is the terminal label on the edge": no edge *)
(* has a label that is, or becomes, a nonterminal.  Such an edge would get *)
(* the index -1 and be looked up outside map_terms.                        *)
(***************************************************************************)
ASSUME EdgesOnTerminals ==
  \A p \in ParserResults : \A k \in DOMAIN p.edges :
    LET sym == p.symbols[p.edges[k].term_index] IN
    ~sym.is_nonterm /\ sym.label \notin MadeUp(p)

VARIABLES
  j,            \* the block the inner loop of explode_indices_CFL is at
  edges,        \* working_copy.graph.edges
  block_count,  \* working_copy.graph.block_count
  terms,        \* the two tables grammar_split_terms_nonterms fills
  nonterms,
  new_terms,    \* the exploded tables
  new_nonterms,
  map_terms,    \* old index -> index of the symbol's first block
  map_nonterms,
  new_rules,    \* the exploded rules, and the size of their buffer
  rules_capacity,
  adj_matrices

splitVars == <<edges, terms, nonterms>>
tableVars == <<j, new_terms, map_terms, new_nonterms, map_nonterms>>
ruleVars == <<block_count, new_rules, rules_capacity, adj_matrices>>
vars == <<wcnfVars, splitVars, tableVars, ruleVars>>

Init ==
  /\ WCNFInit
  /\ j = 0
  /\ edges = parsed.edges /\ block_count = parsed.block_count
  /\ terms = <<>> /\ nonterms = <<>>
  /\ new_terms = <<>> /\ map_terms = <<>>
  /\ new_nonterms = <<>> /\ map_nonterms = <<>>
  /\ new_rules = <<>> /\ rules_capacity = 0
  /\ adj_matrices = <<>>

\* What grammar_to_WCNF leaves for the rest to read.
wcnfRest == <<parsed, symbols, terms_set, terms_capacity, is_eps_non_term_added>>

ConvertGrammar == WCNFNext /\ UNCHANGED <<splitVars, tableVars, ruleVars>>

-----------------------------------------------------------------------------
(* grammar_split_terms_nonterms and the relabelling of the edges *)

\* Mutant: the loop does not advance.
SplitSymbolStuck == pc = "split" /\ i <= Len(symbols) /\ UNCHANGED vars

SplitSymbol ==
  /\ pc = "split" /\ i <= Len(symbols)
  /\ LET sym == symbols[i] IN
     IF sym.is_nonterm
       THEN nonterms' = symbol_list_add_str(nonterms, sym.label, TRUE) /\ UNCHANGED terms
       ELSE terms' = symbol_list_add_str(terms, sym.label, FALSE) /\ UNCHANGED nonterms
  /\ i' = i + 1
  /\ UNCHANGED <<wcnfRest, pc, rules, edges, tableVars, ruleVars>>

InList(list, sym) == symbol_list_get_index_str(list, symbols[sym].label)

\* Mutant: the terminal of N -> t is looked up in nonterms.
SplitRuleNonterms(rule) ==
  [first  |-> InList(nonterms, rule.first),
   second |-> IF rule.second = NoSymbol THEN NoSymbol ELSE InList(nonterms, rule.second),
   third  |-> IF rule.third = NoSymbol THEN NoSymbol ELSE InList(nonterms, rule.third)]

\* N -> A B looks its body up in nonterms, N -> t in terms.
SplitRule(rule) ==
  [first  |-> InList(nonterms, rule.first),
   second |-> CASE rule.second = NoSymbol -> NoSymbol
                [] rule.second # NoSymbol /\ rule.third = NoSymbol ->
                     InList(terms, rule.second)
                [] OTHER -> InList(nonterms, rule.second),
   third  |-> IF rule.third = NoSymbol THEN NoSymbol ELSE InList(nonterms, rule.third)]

SplitReturn ==
  /\ pc = "split" /\ i > Len(symbols)
  /\ rules' = [k \in DOMAIN rules |-> SplitRule(rules[k])]
  /\ edges' = [k \in DOMAIN edges |-> [edges[k] EXCEPT !.term_index = InList(terms, @)]]
  /\ pc' = "explode_terms" /\ i' = 1
  /\ UNCHANGED <<wcnfRest, terms, nonterms, tableVars, ruleVars>>

-----------------------------------------------------------------------------
(* explode_indices_CFL: the tables.  Block j of symbol i is added; the map  *)
(* gets the index of block 0.                                               *)

BlockLabelFrom1(list) == symbol_numerate(list[i].label, j + 1)  \* mutant
BlockLabel(list) == symbol_numerate(list[i].label, j)

Exploded(list, new) == symbol_list_add_str(new, BlockLabel(list), list[i].is_nonterm)

\* Mutant: the count is read after the symbol is added.
MappedLate(list, new, map) ==
  IF j = 0 THEN Append(map, Len(Exploded(list, new)) + 1) ELSE map
Mapped(list, new, map) ==
  IF j = 0 THEN Append(map, AddedIndex(new, BlockLabel(list))) ELSE map

NextBlockShort(list) ==  \* mutant: the last block is left out
  IF IsIndexed(list[i].label) /\ j + 2 < block_count
    THEN j' = j + 1 /\ i' = i
    ELSE j' = 0 /\ i' = i + 1
NextBlock(list) ==
  IF IsIndexed(list[i].label) /\ j + 1 < block_count
    THEN j' = j + 1 /\ i' = i
    ELSE j' = 0 /\ i' = i + 1

ExplodeTerm ==
  /\ pc = "explode_terms" /\ i <= Len(terms)
  /\ new_terms' = Exploded(terms, new_terms)
  /\ map_terms' = Mapped(terms, new_terms, map_terms)
  /\ NextBlock(terms)
  /\ UNCHANGED <<wcnfRest, pc, rules, splitVars, new_nonterms, map_nonterms, ruleVars>>

ExplodeNonterm ==
  /\ pc = "explode_nonterms" /\ i <= Len(nonterms)
  /\ new_nonterms' = Exploded(nonterms, new_nonterms)
  /\ map_nonterms' = Mapped(nonterms, new_nonterms, map_nonterms)
  /\ NextBlock(nonterms)
  /\ UNCHANGED <<wcnfRest, pc, rules, splitVars, new_terms, map_terms, ruleVars>>

ExplodeTableEnd ==
  /\ \/ pc = "explode_terms" /\ i > Len(terms) /\ pc' = "explode_nonterms"
     \/ pc = "explode_nonterms" /\ i > Len(nonterms) /\ pc' = "explode_rules"
  /\ i' = 1
  /\ UNCHANGED <<wcnfRest, rules, splitVars, tableVars, ruleVars>>

-----------------------------------------------------------------------------
(* explode_indices_CFL: the rules and the edges                             *)

\* The table and the map of a rule's second symbol.
BodyList(rule) == IF rule.third = NoSymbol THEN terms ELSE nonterms
BodyMap(rule) == IF rule.third = NoSymbol THEN map_terms ELSE map_nonterms

rule_new_index(map, list, sym, offset) ==
  CASE sym = NoSymbol -> NoSymbol
    [] sym # NoSymbol /\ IsIndexed(list[sym].label) -> map[sym] + offset
    [] OTHER -> map[sym]

is_rule_has_indexed_symb_Body1(rule) ==  \* mutant: the third symbol is not asked
  \/ IsIndexed(nonterms[rule.first].label)
  \/ rule.second # NoSymbol /\ IsIndexed(BodyList(rule)[rule.second].label)
is_rule_has_indexed_symb(rule) ==
  \/ IsIndexed(nonterms[rule.first].label)
  \/ rule.second # NoSymbol /\ IsIndexed(BodyList(rule)[rule.second].label)
  \/ rule.third # NoSymbol /\ IsIndexed(nonterms[rule.third].label)

\* A rule with an indexed symbol is written once per block.
Copies(rule) == IF is_rule_has_indexed_symb(rule) THEN block_count ELSE 1

ExplodedRule(rule, offset) ==
  [first  |-> rule_new_index(map_nonterms, nonterms, rule.first, offset),
   second |-> rule_new_index(BodyMap(rule), BodyList(rule), rule.second, offset),
   third  |-> rule_new_index(map_nonterms, nonterms, rule.third, offset)]

\* The buffer is grown before the copies of a rule are written.
GrownBufferByDoubling ==  \* mutant: too little when there are many blocks
  IF Len(new_rules) + 2 >= rules_capacity THEN rules_capacity * 2 + 2 ELSE rules_capacity
GrownBuffer ==
  IF Len(new_rules) + block_count + 2 >= rules_capacity
    THEN rules_capacity * 2 + block_count + 2
    ELSE rules_capacity

ExplodeRule ==
  /\ pc = "explode_rules" /\ i <= Len(rules)
  /\ rules_capacity' = GrownBuffer
  /\ new_rules' = new_rules \o [n \in 1 .. Copies(rules[i]) |-> ExplodedRule(rules[i], n - 1)]
  /\ i' = i + 1
  /\ UNCHANGED <<wcnfRest, pc, rules, splitVars, tableVars, block_count, adj_matrices>>

ExplodedEdgeBlock0(edge) == [edge EXCEPT !.term_index = map_terms[@], !.index = 0]  \* mutant
\* The edge's block is added whether or not its label is indexed.
ExplodedEdge(edge) ==
  [edge EXCEPT !.term_index = map_terms[@] + edge.index, !.index = 0]

ExplodeRulesEnd ==
  /\ pc = "explode_rules" /\ i > Len(rules)
  /\ rules' = new_rules
  /\ edges' = [k \in DOMAIN edges |-> ExplodedEdge(edges[k])]
  /\ block_count' = 1
  /\ pc' = "matrices"
  /\ UNCHANGED <<wcnfRest, i, terms, nonterms, tableVars, new_rules, rules_capacity, adj_matrices>>

-----------------------------------------------------------------------------
(* the adjacency matrices: one per exploded terminal                        *)

BuildMatrices ==
  /\ pc = "matrices"
  /\ adj_matrices' = [t \in DOMAIN new_terms |->
       {<<edges[k].u, edges[k].v>> : k \in {n \in DOMAIN edges : edges[n].term_index = t}}]
  /\ pc' = "prepared"
  /\ UNCHANGED <<wcnfRest, i, rules, splitVars, tableVars, block_count, new_rules, rules_capacity>>

Prepared == pc = "prepared" /\ UNCHANGED vars

Step ==
  \/ ConvertGrammar
  \/ SplitSymbol \/ SplitReturn
  \/ ExplodeTerm \/ ExplodeNonterm \/ ExplodeTableEnd
  \/ ExplodeRule \/ ExplodeRulesEnd
  \/ BuildMatrices

Next == Step \/ Prepared

Spec == Init /\ [][Next]_vars

-----------------------------------------------------------------------------
(* Properties *)

Pcs == {"wcnf", "helpers", "split", "explode_terms", "explode_nonterms", "explode_rules",
        "matrices", "prepared"}

\* The types of the adapter's working data; the maps of explode_indices_CFL
\* point into the tables they are maps of.
TypeOK ==
  /\ parsed \in ParserResult /\ pc \in Pcs
  /\ symbols \in Seq(Symbol(LabelRecord)) /\ rules \in Seq(Rule)
  /\ terms_set \in Seq(Nat) /\ terms_capacity \in Nat /\ is_eps_non_term_added \in BOOLEAN
  /\ edges \in Seq(Edge) /\ block_count \in Nat \ {0}
  /\ {terms, nonterms, new_terms, new_nonterms} \subseteq Seq(Symbol(LabelRecord))
  /\ map_terms \in Seq(DOMAIN new_terms) /\ map_nonterms \in Seq(DOMAIN new_nonterms)
  /\ new_rules \in Seq(Rule) /\ rules_capacity \in Nat
  /\ adj_matrices \in Seq(SUBSET (Nat \X Nat))

\* No label of the input, or made up from one, reads like a block of an indexed
\* one ("a_1" and "a_i", "NON_TERMINAL#a_1" and the helper of "a_i").
NoNumberedLabel ==
  LET labels == LabelsOf(parsed.symbols) \cup MadeUp(parsed)
  IN \A a, b \in labels : \A n \in 0 .. parsed.block_count - 1 :
       IsIndexed(a) => b # symbol_numerate(a, n)

Clean == NoClash /\ NoNumberedLabel

\* The labels of a rule of the split grammar.
SplitSpell(rule) ==
  <<nonterms[rule.first].label>>
    \o (IF rule.second = NoSymbol THEN <<>> ELSE <<BodyList(rule)[rule.second].label>>)
    \o (IF rule.third = NoSymbol THEN <<>> ELSE <<nonterms[rule.third].label>>)

(***************************************************************************)
(* Renumbering the symbols in two tables changes no rule and no edge:      *)
(* each is spelled after the split as before it.                           *)
(***************************************************************************)
SplitKeepsSpelling ==
  [][(NoClash /\ pc = "split" /\ pc' = "explode_terms") =>
       /\ \A k \in DOMAIN rules : SplitSpell(rules[k])' = Spell(symbols, rules[k])
       /\ \A k \in DOMAIN edges :
            terms[edges'[k].term_index].label = symbols[edges[k].term_index].label]_vars

(***************************************************************************)
(* The arithmetic `map[symbol] + block' finds the block: blocks of an      *)
(* indexed symbol are consecutive in the new table although every one was  *)
(* added by label, and none is shared with another symbol.                 *)
(***************************************************************************)
BlocksContiguous ==
  LET Blocks(list, new, map) ==
        \A s \in DOMAIN list :
          \A n \in 0 .. (IF IsIndexed(list[s].label) THEN block_count - 1 ELSE 0) :
            /\ map[s] + n \in DOMAIN new
            /\ new[map[s] + n] = [label |-> symbol_numerate(list[s].label, n),
                                  is_nonterm |-> list[s].is_nonterm]
  IN Clean /\ pc = "explode_rules" =>
       Blocks(terms, new_terms, map_terms) /\ Blocks(nonterms, new_nonterms, map_nonterms)

\* The labels of a rule after the explosion, and what they must be.
ExplodedSpell(rule) ==
  <<new_nonterms[rule.first].label>>
    \o (IF rule.second = NoSymbol THEN <<>>
        ELSE IF rule.third = NoSymbol THEN <<new_terms[rule.second].label>>
        ELSE <<new_nonterms[rule.second].label, new_nonterms[rule.third].label>>)

NumeratedSpell(rule, n) ==
  [k \in DOMAIN SplitSpell(rule) |-> symbol_numerate(SplitSpell(rule)[k], n)]

(***************************************************************************)
(* The exploded grammar is the grammar with every block number put in for  *)
(* the index, the same one in all symbols of a rule, and nothing else.     *)
(***************************************************************************)
RulesExploded ==
  Clean /\ pc = "explode_rules" =>
    {ExplodedSpell(new_rules[k]) : k \in DOMAIN new_rules}
      = {NumeratedSpell(rules[k], n) : k \in 1 .. i - 1, n \in 0 .. block_count - 1}

\* explode_indices_CFL: symbols and rules are one per block, none is lost or shared.
IndicesExploded == BlocksContiguous /\ RulesExploded

\* explode_indices_CFL never writes a rule past the buffer it has grown.
RuleBufferInBounds == Len(new_rules) <= rules_capacity

\* The graph as the library side of the parser sees it.
ParsedGraph ==
  [edges |-> parsed.edges, node_count |-> parsed.node_count, block_count |-> parsed.block_count]

(***************************************************************************)
(* parser.h:110 "for example with 1000x1000 graph and only edge 0 -> 600   *)
(* it makes 2x2 graph": minimising renames vertices and nothing else.  The *)
(* matrices of the small graph are those of the graph, seen through a      *)
(* one-to-one map of the vertices that have an edge, and cover it.         *)
(***************************************************************************)
MinimizedIsomorphic ==
  pc = "wcnf" /\ i = 1 =>
    LET small == minimize_graph(ParsedGraph)
        view == get_grb_matrices_from_graph(ParsedGraph, parsed.symbols)
        smallView == get_grb_matrices_from_graph(small, parsed.symbols)
        map == NodeMap(ParsedGraph)
        used == UsedNodes(ParsedGraph)
    IN /\ {map[n] : n \in used} = 0 .. small.node_count - 1
       /\ \A m, n \in used : m < n => map[m] < map[n]
       /\ smallView.matrix_symbols = view.matrix_symbols
       /\ \A k \in DOMAIN view.matrices :
            smallView.matrices[k] = {<<map[e[1]], map[e[2]]>> : e \in view.matrices[k]}

\* An index is given only to labels ending with "_i".
IndexOnlyOnIndexed ==
  \A k \in DOMAIN parsed.edges :
    parsed.edges[k].index > 0 => IsIndexed(parsed.symbols[parsed.edges[k].term_index].label)

(***************************************************************************)
(* The matrix of an exploded terminal holds the edges of the graph file    *)
(* that have its label and its block, and no other.                        *)
(***************************************************************************)
EdgesInTheirMatrix ==
  pc = "prepared" =>
    \A t \in DOMAIN new_terms :
      adj_matrices[t] =
        {<<parsed.edges[k].u, parsed.edges[k].v>> :
           k \in {n \in DOMAIN parsed.edges :
                   symbol_numerate(parsed.symbols[parsed.edges[n].term_index].label,
                                   parsed.edges[n].index) = new_terms[t].label}}

MatricesMatchGraph == Clean /\ IndexOnlyOnIndexed => EdgesInTheirMatrix

\* README.md:248 "[LABEL_INDEX] is optional and specifies the concrete index for
\* labels ending with `_i`": the index of another label selects no matrix
\* (tests/test_explode_indices.c:57 and :72, edge a with index 1 in matrix a).
IndexIgnoredOnPlain == Clean => EdgesInTheirMatrix
=============================================================================
