--------------------------- MODULE CFLAdvPrepare ----------------------------
(***************************************************************************)
(* adapter_CFL_adv_prepare of src/adapters/adapter_CFL_adv.c (the same     *)
(* code is in the CFL_multsrc_adv and CFL_all_path_adv adapters).  The     *)
(* grammar is not converted: every symbol, terminal or not, gets a slot in *)
(* one array of matrices, an indexed symbol one slot per block, and a rule *)
(* keeps the first slot of each symbol and says which symbols are indexed. *)
(***************************************************************************)
EXTENDS SymbolList, Labels

CONSTANT AdvParserResults  \* the parser results to start from

VARIABLES
  parsed,          \* the parser's result; never changes
  pc,
  i,               \* loop counter, from 1
  offset,
  map,             \* symbol -> its first slot
  symbols_amount,
  adj_matrices,    \* slot -> its edges, as a set of pairs
  rules_EWCNF

vars == <<parsed, pc, i, offset, map, symbols_amount, adj_matrices, rules_EWCNF>>

\* The static state before prepare, and after cleanup.
Zeroed ==
  /\ pc = "map" /\ i = 1 /\ offset = 0 /\ map = <<>>
  /\ symbols_amount = 0 /\ adj_matrices = <<>> /\ rules_EWCNF = <<>>

Init == parsed \in AdvParserResults /\ Zeroed

Idx(sym) == sym # NoSymbol /\ IsIndexed(parsed.symbols[sym].label)

\* Mutant: an indexed symbol takes one slot too many.
MapSymbolWide ==
  /\ pc = "map" /\ i <= Len(parsed.symbols)
  /\ map' = Append(map, i + offset)
  /\ offset' = IF Idx(i) THEN offset + parsed.block_count ELSE offset
  /\ i' = i + 1
  /\ UNCHANGED <<parsed, pc, symbols_amount, adj_matrices, rules_EWCNF>>

MapSymbol ==
  /\ pc = "map" /\ i <= Len(parsed.symbols)
  /\ map' = Append(map, i + offset)
  /\ offset' = IF Idx(i) THEN offset + parsed.block_count - 1 ELSE offset
  /\ i' = i + 1
  /\ UNCHANGED <<parsed, pc, symbols_amount, adj_matrices, rules_EWCNF>>

MapEnd ==
  /\ pc = "map" /\ i > Len(parsed.symbols)
  /\ symbols_amount' = Len(parsed.symbols) + offset
  /\ pc' = "matrices"
  /\ UNCHANGED <<parsed, i, offset, map, adj_matrices, rules_EWCNF>>

EdgeSlotBlock0(edge) == map[edge.term_index]  \* mutant
\* The slot an edge goes to: its block is added to any label.
EdgeSlot(edge) == map[edge.term_index] + edge.index

get_matrices_from_graph ==
  /\ pc = "matrices"
  /\ adj_matrices' =
       [slot \in 1 .. symbols_amount |->
          {<<parsed.edges[k].u, parsed.edges[k].v>> :
             k \in {n \in DOMAIN parsed.edges : EdgeSlot(parsed.edges[n]) = slot}}]
  /\ pc' = "rules"
  /\ UNCHANGED <<parsed, i, offset, map, symbols_amount, rules_EWCNF>>

Slot(sym) == IF sym = NoSymbol THEN NoSymbol ELSE map[sym]

EWCNFRule(rule) ==
  LET flags == {f \in {"first", "second", "third"} : Idx(rule[f])} IN
  [nonterm |-> Slot(rule.first), prod_A |-> Slot(rule.second), prod_B |-> Slot(rule.third),
   indexed |-> flags,
   indexed_count |-> IF flags = {} THEN 0 ELSE parsed.block_count]

BuildRules ==
  /\ pc = "rules"
  /\ rules_EWCNF' = [k \in DOMAIN parsed.rules |-> EWCNFRule(parsed.rules[k])]
  /\ pc' = "prepared"
  /\ UNCHANGED <<parsed, i, offset, map, symbols_amount, adj_matrices>>

Step == MapSymbol \/ MapEnd \/ get_matrices_from_graph \/ BuildRules
Prepared == pc = "prepared" /\ UNCHANGED vars
Next == Step \/ Prepared
Spec == Init /\ [][Next]_vars

-----------------------------------------------------------------------------
(* Properties *)

\* The blocks of a symbol: one slot each.
BlocksOf(sym) == 0 .. (IF Idx(sym) THEN parsed.block_count - 1 ELSE 0)

(***************************************************************************)
(* The slots the map hands out tile the array: two blocks never share one, *)
(* none lies outside the array, and none is left over.                     *)
(***************************************************************************)
SlotsTile ==
  LET Mapped == UNION {{<<s, n>> : n \in BlocksOf(s)} : s \in DOMAIN map}
  IN /\ \A p, q \in Mapped : map[p[1]] + p[2] = map[q[1]] + q[2] => p = q
     /\ {map[p[1]] + p[2] : p \in Mapped} = 1 .. Len(map) + offset
     /\ pc # "map" => symbols_amount = Len(map) + offset
=============================================================================
