------------------------------ MODULE Adapters ------------------------------
(***************************************************************************)
(* test.c with --compute-results: compute_expected_result prepares, runs   *)
(* and cleans up CFL_adv on the parser's result, then the tested adapter,  *)
(* CFL or one of the two others that keep the grammar as it is, is         *)
(* prepared on the same data and run, and the two results are compared.    *)
(*                                                                         *)
(* The algorithms themselves are LAGraph's.  They are modelled by what the *)
(* code relies on: the least relations closed under the rules, reached by  *)
(* applying all rules until no pair is added.                              *)
(***************************************************************************)
EXTENDS CFLPrepare

VARIABLES
  phase,    \* CFL_adv: "adv_prepare", "adv_run", "adv_done"; tested: "prepare", "run", "compare"
  tested,   \* the adapter the benchmark is for, once CFL_adv is done
  adv_pc, adv_i, adv_offset, adv_map, adv_symbols_amount, adv_matrices, adv_rules,
  outputs,  \* nonterminal -> pairs, of the adapter that is running
  expected  \* outputs[0] of CFL_adv

Adv == INSTANCE CFLAdvPrepare WITH
         AdvParserResults <- ParserResults,
         pc <- adv_pc, i <- adv_i, offset <- adv_offset, map <- adv_map,
         symbols_amount <- adv_symbols_amount, adj_matrices <- adv_matrices,
         rules_EWCNF <- adv_rules

advVars == <<adv_pc, adv_i, adv_offset, adv_map, adv_symbols_amount, adv_matrices, adv_rules>>
allVars == <<vars, advVars, phase, tested, outputs, expected>>

NotYet == "CFL_adv"
TestedAdapters == {"CFL", "CFL_multsrc_adv", "CFL_all_path_adv"}

AllInit ==
  /\ Init /\ Adv!Zeroed
  /\ phase = "adv_prepare" /\ tested = NotYet
  /\ outputs = <<>> /\ expected = {}

Identity == {<<n, n>> : n \in 0 .. parsed.node_count - 1}

Compose(R, Q) ==
  {<<x[1][1], x[2][2]>> : x \in {y \in R \X Q : y[1][2] = y[2][1]}}

\* The pairs the body of a rule contributes, given the relation of a symbol.
Body(Rel(_), A, B) ==
  CASE A = NoSymbol -> Identity
    [] A # NoSymbol /\ B = NoSymbol -> Rel(A)
    [] OTHER -> Compose(Rel(A), Rel(B))

-----------------------------------------------------------------------------
(* CFL_adv: prepare, then LAGraph_CFL_reachability_adv on the slots.  A     *)
(* rule with indexed symbols stands for one rule per block.                 *)

AdvPrepare ==
  /\ phase = "adv_prepare" /\ Adv!Step
  /\ phase' = IF adv_pc' = "prepared" THEN "adv_run" ELSE phase
  /\ outputs' = IF adv_pc' = "prepared" THEN adv_matrices' ELSE outputs
  /\ UNCHANGED <<vars, tested, expected>>

\* The slot of a symbol in the copy of a rule for block n.
CopySlot(rule, field, slot, n) == IF field \in rule.indexed THEN slot + n ELSE slot

AdvCopies(rule) ==
  {<<CopySlot(rule, "first", rule.nonterm, n), CopySlot(rule, "second", rule.prod_A, n),
     CopySlot(rule, "third", rule.prod_B, n)>> :
       n \in 0 .. (IF rule.indexed = {} THEN 0 ELSE rule.indexed_count - 1)}

LAGraph_CFL_reachability_adv ==
  LET copies == UNION {AdvCopies(adv_rules[k]) : k \in DOMAIN adv_rules}
      Rel(slot) == outputs[slot]
  IN [s \in DOMAIN outputs |->
        outputs[s] \cup UNION {Body(Rel, c[2], c[3]) : c \in {d \in copies : d[1] = s}}]

AdvRun ==
  /\ phase = "adv_run"
  /\ outputs' = LAGraph_CFL_reachability_adv
  /\ phase' = IF outputs' = outputs THEN "adv_done" ELSE phase
  /\ UNCHANGED <<vars, advVars, tested, expected>>

\* CFL_adv's part ends: its result is taken and its state freed.  The state of
\* the two adapters like it is a static of their own, but of the same shape.
AdvCleanup ==
  /\ phase = "adv_done"
  /\ expected' = outputs[1]
  /\ outputs' = <<>>
  /\ adv_pc' = "map" /\ adv_i' = 1 /\ adv_offset' = 0 /\ adv_map' = <<>>
  /\ adv_symbols_amount' = 0 /\ adv_matrices' = <<>> /\ adv_rules' = <<>>
  /\ tested' \in TestedAdapters
  /\ phase' = "prepare"
  /\ UNCHANGED vars

-----------------------------------------------------------------------------
(* CFL: prepare, then LAGraph_CFL_reachability on the exploded grammar      *)

Prepare ==
  /\ phase = "prepare" /\ tested = "CFL" /\ Step
  /\ phase' = IF pc' = "prepared" THEN "run" ELSE phase
  /\ outputs' = IF pc' = "prepared" THEN [n \in DOMAIN new_nonterms |-> {}] ELSE outputs
  /\ UNCHANGED <<advVars, tested, expected>>

LAGraph_CFL_reachability ==
  LET Nonterm(n) == outputs[n]
      Term(t) == adj_matrices[t]
      Pairs(rule) == IF rule.third = NoSymbol THEN Body(Term, rule.second, NoSymbol)
                     ELSE Body(Nonterm, rule.second, rule.third)
  IN [n \in DOMAIN outputs |->
        outputs[n] \cup
          UNION {Pairs(rules[k]) : k \in {l \in DOMAIN rules : rules[l].first = n}}]

Run ==
  /\ phase = "run" /\ tested = "CFL"
  /\ outputs' = LAGraph_CFL_reachability
  /\ phase' = IF outputs' = outputs THEN "compare" ELSE phase
  /\ UNCHANGED <<vars, advVars, tested, expected>>

-----------------------------------------------------------------------------
(* CFL_all_path_adv and CFL_multsrc_adv: their prepare is a copy of         *)
(* CFL_adv's, in the same steps on a state of their own                     *)

\* The slots, the matrices, the rules; the algorithm may start after the last.
TestedAdvPrepare(step) ==
  /\ phase = "prepare" /\ step
  /\ phase' = IF adv_pc' = "prepared" THEN "run" ELSE phase
  /\ outputs' = IF adv_pc' = "prepared" THEN adv_matrices' ELSE outputs
  /\ UNCHANGED <<vars, tested, expected>>

AllPathAdvGetMatrices == tested = "CFL_all_path_adv" /\ Adv!get_matrices_from_graph
AllPathAdvPrepare ==
  TestedAdvPrepare(
    \/ tested = "CFL_all_path_adv" /\ (Adv!MapSymbol \/ Adv!MapEnd \/ Adv!BuildRules)
    \/ AllPathAdvGetMatrices)

MultsrcAdvGetMatrices == tested = "CFL_multsrc_adv" /\ Adv!get_matrices_from_graph
MultsrcAdvPrepare ==
  TestedAdvPrepare(
    \/ tested = "CFL_multsrc_adv" /\ (Adv!MapSymbol \/ Adv!MapEnd \/ Adv!BuildRules)
    \/ MultsrcAdvGetMatrices)

LAGraph_CFL_AllPaths_adv == LAGraph_CFL_reachability_adv

AllPathAdvRun ==
  /\ phase = "run" /\ tested = "CFL_all_path_adv"
  /\ outputs' = LAGraph_CFL_AllPaths_adv
  /\ phase' = IF outputs' = outputs THEN "compare" ELSE phase
  /\ UNCHANGED <<vars, advVars, tested, expected>>

\* With every vertex a source the output, rows of sources, is the relation.
LAGraph_CFL_reachability_multsrc_adv == LAGraph_CFL_reachability_adv

MultsrcAdvRun ==
  /\ phase = "run" /\ tested = "CFL_multsrc_adv"
  /\ outputs' = LAGraph_CFL_reachability_multsrc_adv
  /\ phase' = IF outputs' = outputs THEN "compare" ELSE phase
  /\ UNCHANGED <<vars, advVars, tested, expected>>

Compared == phase = "compare" /\ UNCHANGED allVars

AllStep ==
  \/ AdvPrepare \/ AdvRun \/ AdvCleanup
  \/ Prepare \/ Run
  \/ AllPathAdvPrepare \/ AllPathAdvRun
  \/ MultsrcAdvPrepare \/ MultsrcAdvRun
AllNext == AllStep \/ Compared
AllSpec == AllInit /\ [][AllNext]_allVars /\ WF_allVars(AllStep)

-----------------------------------------------------------------------------
(* Properties *)

(***************************************************************************)
(* The check of --compute-results can be trusted: CFL, with the grammar in *)
(* normal form and exploded, on labels that do not collide, and the two    *)
(* adapters with the grammar as it is, on any, find the pairs CFL_adv has  *)
(* found, so a "[Wrong]" is never the fault of the preparation, nor of     *)
(* what CFL_adv has left behind.                                           *)
(***************************************************************************)
ResultsAgree ==
  phase = "compare" /\ (tested = "CFL" => Clean /\ IndexOnlyOnIndexed) =>
    outputs[1] = expected

\* CFL_adv, and then a tested adapter like it, gives each symbol and block a slot of its own, and each edge its slot.
AdvSlotsTile == Adv!SlotsTile

(***************************************************************************)
(* parser.h:67-77, the view a library user gets, is the one CFL_adv builds *)
(* for itself: the same matrices in the same order, each holding the edges *)
(* of the label and the block its entry names, and no edge is refused.     *)
(***************************************************************************)
ViewIsTheSlots ==
  LET view == get_grb_matrices_from_graph(ParsedGraph, parsed.symbols)
      Says(info, edge) ==
        /\ edge.term_index = info.symbol_index
        /\ IsIndexed(parsed.symbols[edge.term_index].label) => edge.index = info.block_index
  IN phase = "adv_run" =>
       /\ \A k \in DOMAIN parsed.edges :
            EdgeAccepted(parsed.symbols, parsed.block_count, parsed.edges[k])
       /\ first_matrix_by_symbol(parsed.symbols, parsed.block_count) = adv_map
       /\ IndexOnlyOnIndexed => view.matrices = adv_matrices
       /\ \A m \in DOMAIN view.matrix_symbols :
            view.matrices[m] =
              {<<parsed.edges[k].u, parsed.edges[k].v>> :
                 k \in {n \in DOMAIN parsed.edges :
                          Says(view.matrix_symbols[m], parsed.edges[n])}}

\* The two adapters come to an end and their results are compared.
ComparisonReached == <>(phase = "compare")
=============================================================================
