-------------------------------- MODULE WCNF --------------------------------
(***************************************************************************)
(* grammar_to_WCNF of src/grammar.c, which the CFL adapters run on a copy  *)
(* of the parser's result.  It rewrites the rules in place: a unit rule    *)
(* N -> M gets the nonterminal of the empty word as its third symbol, and  *)
(* a terminal t in a rule of two symbols is replaced by a helper           *)
(* nonterminal, remembered in terms_set.  The rules of the helpers are     *)
(* appended at the end.  One step is one iteration of a loop.              *)
(***************************************************************************)
EXTENDS SymbolList, Labels, FiniteSets

CONSTANTS
  ParserResults,   \* the results of parser() to start from
  TERMS_CAPACITY   \* the initial capacity of terms_set (16 in the code)

Edge == [u : Nat, v : Nat, term_index : Nat, index : Nat]

ParserResult ==
  [symbols : Seq(Symbol(LabelRecord)), rules : Seq(Rule), edges : Seq(Edge),
   node_count : Nat, block_count : Nat]

(***************************************************************************)
(* What the parser promises of its result (module Parser): labels are      *)
(* distinct, symbol number 0 is the start nonterminal, every index is in   *)
(* the table, left-hand sides are nonterminals and nothing else but the    *)
(* start is, and the counts cover the edges.                               *)
(***************************************************************************)
ParserPromise(p) ==
  /\ DistinctLabels(p.symbols)
  /\ Len(p.symbols) > 0 /\ p.symbols[1].is_nonterm
  /\ \A i \in DOMAIN p.symbols :
       p.symbols[i].is_nonterm <=> i = 1 \/ \E k \in DOMAIN p.rules : p.rules[k].first = i
  /\ \A k \in DOMAIN p.rules :
       /\ p.rules[k].first \in DOMAIN p.symbols
       /\ {p.rules[k].second, p.rules[k].third} \subseteq DOMAIN p.symbols \cup {NoSymbol}
       /\ p.rules[k].second = NoSymbol => p.rules[k].third = NoSymbol
  /\ p.block_count > 0
  /\ \A k \in DOMAIN p.edges :
       /\ p.edges[k].term_index \in DOMAIN p.symbols
       /\ p.edges[k].u < p.node_count /\ p.edges[k].v < p.node_count
       /\ p.edges[k].index < p.block_count

ASSUME WCNFAssumption ==
  /\ TERMS_CAPACITY \in Nat \ {0}
  /\ \A p \in ParserResults : p \in ParserResult /\ ParserPromise(p)

VARIABLES
  parsed,         \* the parser's result; never changes
  pc,
  i,              \* the loop counter, from 1
  symbols,        \* working_copy.symbols
  rules,          \* working_copy.grammar.rules
  terms_set,
  terms_capacity,
  is_eps_non_term_added

wcnfVars == <<parsed, pc, i, symbols, rules, terms_set, terms_capacity, is_eps_non_term_added>>

WCNFInit ==
  /\ parsed \in ParserResults
  /\ pc = "wcnf" /\ i = 1
  /\ symbols = parsed.symbols /\ rules = parsed.rules
  /\ terms_set = <<>> /\ terms_capacity = TERMS_CAPACITY
  /\ is_eps_non_term_added = FALSE

IsTerm(sym) == sym # NoSymbol /\ ~symbols[sym].is_nonterm
IsNonterm(sym) == sym # NoSymbol /\ symbols[sym].is_nonterm

AtRule == pc = "wcnf" /\ i <= Len(rules)

\* Mutants: a rule whose first body symbol is a nonterminal is kept whatever
\* its second one is; the loop does not advance.
KeepRuleAnyTail ==
  /\ AtRule
  /\ \/ rules[i].second = NoSymbol
     \/ rules[i].third = NoSymbol /\ IsTerm(rules[i].second)
     \/ IsNonterm(rules[i].second) /\ rules[i].third # NoSymbol
  /\ i' = i + 1
  /\ UNCHANGED <<parsed, pc, symbols, rules, terms_set, terms_capacity, is_eps_non_term_added>>

\* N -> eps, N -> t and N -> A B are in normal form already.
KeepRule ==
  /\ AtRule
  /\ \/ rules[i].second = NoSymbol
     \/ rules[i].third = NoSymbol /\ IsTerm(rules[i].second)
     \/ IsNonterm(rules[i].second) /\ IsNonterm(rules[i].third)
  /\ i' = i + 1
  /\ UNCHANGED <<parsed, pc, symbols, rules, terms_set, terms_capacity, is_eps_non_term_added>>

\* N -> M becomes N -> M EPS.
UnitRule ==
  /\ AtRule
  /\ rules[i].third = NoSymbol /\ IsNonterm(rules[i].second)
  /\ symbols' = symbol_list_add_str(symbols, EpsLabel, TRUE)
  /\ rules' = [rules EXCEPT ![i].third = AddedIndex(symbols, EpsLabel)]
  /\ is_eps_non_term_added' = TRUE
  /\ i' = i + 1
  /\ UNCHANGED <<parsed, pc, terms_set, terms_capacity>>

\* The check before a write to terms_set; it makes room for one entry at least.
GrownCapacityLate ==  \* mutant
  IF Len(terms_set) > terms_capacity THEN 2 * terms_capacity ELSE terms_capacity
GrownCapacity ==
  IF Len(terms_set) = terms_capacity THEN 2 * terms_capacity ELSE terms_capacity

\* N -> s t: both terminals get helpers, two entries go to terms_set.
TwoTermsRule ==
  /\ AtRule
  /\ IsTerm(rules[i].second) /\ IsTerm(rules[i].third)
  /\ LET helper1 == HelperLabel(symbols[rules[i].second].label)
         helper2 == HelperLabel(symbols[rules[i].third].label)
         list1 == symbol_list_add_str(symbols, helper1, TRUE)
     IN /\ symbols' = symbol_list_add_str(list1, helper2, TRUE)
        /\ rules' = [rules EXCEPT ![i].second = AddedIndex(symbols, helper1),
                                  ![i].third = AddedIndex(list1, helper2)]
  /\ terms_set' = terms_set \o <<rules[i].second, rules[i].third>>
  /\ terms_capacity' = GrownCapacity
  /\ i' = i + 1
  /\ UNCHANGED <<parsed, pc, is_eps_non_term_added>>

\* N -> t M and N -> M t: the terminal gets a helper.
OneTermRule ==
  /\ AtRule
  /\ \E at \in {"second", "third"} :
       LET other == IF at = "second" THEN "third" ELSE "second"
           term == rules[i][at]
           helper == HelperLabel(symbols[term].label)
       IN /\ IsTerm(term) /\ IsNonterm(rules[i][other])
          /\ symbols' = symbol_list_add_str(symbols, helper, TRUE)
          /\ rules' = [rules EXCEPT ![i][at] = AddedIndex(symbols, helper)]
          /\ terms_set' = Append(terms_set, term)
  /\ terms_capacity' = GrownCapacity
  /\ i' = i + 1
  /\ UNCHANGED <<parsed, pc, is_eps_non_term_added>>

NewRule(first, second) == [first |-> first, second |-> second, third |-> NoSymbol]

\* Mutant: EPS is a nonterminal without a rule.
AddEpsRuleNever ==
  /\ pc = "wcnf" /\ i > Len(rules)
  /\ i' = 1 /\ pc' = "helpers"
  /\ UNCHANGED <<parsed, symbols, rules, terms_set, terms_capacity, is_eps_non_term_added>>

\* After the last rule: EPS -> eps, if any unit rule asked for it.
AddEpsRule ==
  /\ pc = "wcnf" /\ i > Len(rules)
  /\ IF is_eps_non_term_added
       THEN /\ symbols' = symbol_list_add_str(symbols, EpsLabel, TRUE)
            /\ rules' = Append(rules, NewRule(AddedIndex(symbols, EpsLabel), NoSymbol))
       ELSE UNCHANGED <<symbols, rules>>
  /\ i' = 1
  /\ pc' = "helpers"
  /\ UNCHANGED <<parsed, terms_set, terms_capacity, is_eps_non_term_added>>

\* Mutant: the terminal itself is made the left-hand side.
AddHelperRuleInPlace ==
  /\ pc = "helpers" /\ i <= Len(terms_set)
  /\ symbols' = symbol_list_add_str(symbols, symbols[terms_set[i]].label, TRUE)
  /\ rules' = Append(rules, NewRule(terms_set[i], terms_set[i]))
  /\ i' = i + 1
  /\ UNCHANGED <<parsed, pc, terms_set, terms_capacity, is_eps_non_term_added>>

\* One rule helper -> t for every entry of terms_set.
AddHelperRule ==
  /\ pc = "helpers" /\ i <= Len(terms_set)
  /\ LET helper == HelperLabel(symbols[terms_set[i]].label) IN
     /\ symbols' = symbol_list_add_str(symbols, helper, TRUE)
     /\ rules' = Append(rules, NewRule(AddedIndex(symbols, helper), terms_set[i]))
  /\ i' = i + 1
  /\ UNCHANGED <<parsed, pc, terms_set, terms_capacity, is_eps_non_term_added>>

WCNFReturn ==
  /\ pc = "helpers" /\ i > Len(terms_set)
  /\ pc' = "split" /\ i' = 1
  /\ UNCHANGED <<parsed, symbols, rules, terms_set, terms_capacity, is_eps_non_term_added>>

WCNFNext ==
  \/ KeepRule \/ UnitRule \/ TwoTermsRule \/ OneTermRule
  \/ AddEpsRule \/ AddHelperRule \/ WCNFReturn

-----------------------------------------------------------------------------
(* Properties *)

(***************************************************************************)
(* The labels of the input do not collide with the names the conversion    *)
(* makes up: no input label is the helper of an input terminal or the EPS  *)
(* nonterminal, and no terminal's helper is the EPS nonterminal.           *)
(***************************************************************************)
NoClash ==
  LET terms == {parsed.symbols[s].label :
                  s \in {t \in DOMAIN parsed.symbols : ~parsed.symbols[t].is_nonterm}}
  IN /\ EpsLabel \notin LabelsOf(parsed.symbols)
     /\ \A t \in terms : HelperLabel(t) \notin LabelsOf(parsed.symbols) \cup {EpsLabel}

\* When it returns every rule has the form N -> eps, N -> t or N -> A B, the
\* forms grammar_split_terms_nonterms expects: no rule kept early in the loop
\* is spoilt by a symbol that becomes a nonterminal later.
InNormalForm ==
  NoClash /\ pc = "split" =>
    \A k \in DOMAIN rules :
      /\ IsNonterm(rules[k].first)
      /\ \/ rules[k].second = NoSymbol /\ rules[k].third = NoSymbol
         \/ IsTerm(rules[k].second) /\ rules[k].third = NoSymbol
         \/ IsNonterm(rules[k].second) /\ IsNonterm(rules[k].third)

\* The symbols the conversion added, and the bodies of a symbol's rules.
Added == DOMAIN symbols \ DOMAIN parsed.symbols
Bodies(n) == {<<rules[k].second, rules[k].third>> :
                k \in {l \in DOMAIN rules : rules[l].first = n}}

(***************************************************************************)
(* The conversion keeps the language: when it returns, an added symbol has *)
(* just one body, its terminal or the empty word, and replacing the added  *)
(* symbols of a rule by that body gives back the rule of the grammar file. *)
(***************************************************************************)
Unfold(n) ==
  CASE n = NoSymbol -> <<>>
    [] n \in DOMAIN parsed.symbols -> <<n>>
    [] OTHER -> IF Bodies(n) = {<<NoSymbol, NoSymbol>>} THEN <<>>
                ELSE <<(CHOOSE b \in Bodies(n) : TRUE)[1]>>

\* src/grammar.c:159 "convert rules M -> N t | M -> t N | M -> N to WCNF format"
LanguageKept ==
  pc = "split" =>
    /\ \A n \in Added :
         /\ Cardinality(Bodies(n)) = 1
         /\ \A b \in Bodies(n) :
              b[2] = NoSymbol /\ (b[1] # NoSymbol => IsTerm(b[1]) /\ b[1] \notin Added)
    /\ \A k \in DOMAIN parsed.rules :
         /\ rules[k].first = parsed.rules[k].first
         /\ Unfold(rules[k].second) \o Unfold(rules[k].third)
              = Unfold(parsed.rules[k].second) \o Unfold(parsed.rules[k].third)
    /\ \A k \in DOMAIN rules \ DOMAIN parsed.rules : rules[k].first \in Added

\* The same for labels that do not collide with the made-up names.
LanguageKeptUnlessClash == NoClash => LanguageKept

(***************************************************************************)
(* While rules are rewritten under the table, the symbols of the input     *)
(* stay where they are and a terminal stays a terminal: the classification *)
(* the loop has already acted on never goes stale.                         *)
(***************************************************************************)
InputSymbolsFixed ==
  [][NoClash => \A s \in DOMAIN parsed.symbols : symbols'[s] = symbols[s]]_wcnfVars

\* terms_set never holds more entries than were allocated, for grammars where
\* no rule has two terminals.
TermsSetInBoundsSingle ==
  (\A k \in DOMAIN parsed.rules :
     \/ parsed.rules[k].third = NoSymbol
     \/ parsed.symbols[parsed.rules[k].second].is_nonterm
     \/ parsed.symbols[parsed.rules[k].third].is_nonterm)
  => Len(terms_set) <= terms_capacity

\* .github/workflows/build.yml:118 "Run tests with AddressSanitizer and
\* UndefinedBehaviorSanitizer": no write goes past an allocated array.
TermsSetInBounds == Len(terms_set) <= terms_capacity
=============================================================================
