----------------------------- MODULE Adapters_proofs -----------------------------
(***************************************************************************)
(* Proofs about what the CFL adapters prepare, for grammars and graphs of  *)
(* any size over any labels.                                               *)
(*                                                                         *)
(* adapter_CFL_prepare_common: grammar_to_WCNF puts the rules in normal    *)
(* form without touching a symbol of the input, terms_set stays in its     *)
(* allocation when no rule has two terminals, explode_indices_CFL never    *)
(* writes past the buffer of the exploded rules, the split into terminals  *)
(* and nonterminals keeps what every rule and edge is spelled, the         *)
(* explosion makes every rule and every edge of every block once and no    *)
(* other, and the matrices are those of the labelled graph.  Without a     *)
(* clash of labels the converted grammar has the language of the file's.   *)
(* minimize_graph, of the library side, renames vertices and nothing else. *)
(*                                                                         *)
(* adapter_CFL_adv_prepare: the slots of the map tile the array, and the   *)
(* matrices a library user gets of a graph are, in their order, the slots. *)
(*                                                                         *)
(* CFL and CFL_adv: without a clash of labels the two of them come to the  *)
(* same relations, since each ends with the least family of relations on   *)
(* the slots that holds the edges and is closed under the file's rules.    *)
(***************************************************************************)
EXTENDS Adapters, SymbolList_proofs, FiniteSetTheorems, SequenceTheorems, TLAPS

(***************************************************************************)
(* The inductive invariant of the conversion                               *)
(***************************************************************************)

\* The table new is list with symbols appended, all of them nonterminals, and
\* perhaps some terminals made nonterminals.
Grown(list, new) ==
  /\ new \in Seq(Symbol(LabelRecord)) /\ Len(new) >= Len(list)
  /\ \A s \in 1 .. Len(list) :
       /\ new[s].label = list[s].label
       /\ list[s].is_nonterm = TRUE => new[s].is_nonterm = TRUE
  /\ \A s \in 1 .. Len(new) : s > Len(list) => new[s].is_nonterm = TRUE

SameUpTo(n, list, new) == \A s \in 1 .. n : new[s] = list[s]

InputTerm(p, s) == s \in 1 .. Len(p.symbols) /\ p.symbols[s].is_nonterm = FALSE

\* N -> eps, N -> t or N -> A B, with symbols of the table.
NormalRule(list, rule) ==
  /\ rule.first \in 1 .. Len(list) /\ list[rule.first].is_nonterm = TRUE
  /\ \/ rule.second = NoSymbol /\ rule.third = NoSymbol
     \/ /\ rule.second \in 1 .. Len(list) /\ list[rule.second].is_nonterm = FALSE
        /\ rule.third = NoSymbol
     \/ /\ rule.second \in 1 .. Len(list) /\ list[rule.second].is_nonterm = TRUE
        /\ rule.third \in 1 .. Len(list) /\ list[rule.third].is_nonterm = TRUE

\* The same if labels may clash: the one symbol of a body may be of either kind.
Shaped(list, rule) ==
  /\ rule.first \in 1 .. Len(list) /\ list[rule.first].is_nonterm = TRUE
  /\ \/ rule.second = NoSymbol /\ rule.third = NoSymbol
     \/ rule.second \in 1 .. Len(list) /\ rule.third = NoSymbol
     \/ /\ rule.second \in 1 .. Len(list) /\ list[rule.second].is_nonterm = TRUE
        /\ rule.third \in 1 .. Len(list) /\ list[rule.third].is_nonterm = TRUE

\* A table the conversion may have made of the parser's.
TableOf(p, list, clean) ==
  /\ Grown(p.symbols, list)
  /\ clean => SameUpTo(Len(p.symbols), p.symbols, list)

TableInv == parsed \in ParserResults /\ TableOf(parsed, symbols, NoClash)

TermsInv ==
  /\ terms_set \in Seq(Nat)
  /\ terms_capacity \in Nat /\ terms_capacity >= 1
  /\ \A k \in 1 .. Len(terms_set) : InputTerm(parsed, terms_set[k])
  /\ TermsSetInBoundsSingle

RulesInv ==
  /\ pc \in {"wcnf", "helpers"} => i \in Nat /\ i >= 1
  /\ pc \in {"wcnf", "helpers", "split"} => rules \in Seq(Rule)
  /\ pc = "wcnf" =>
       /\ Len(rules) = Len(parsed.rules)
       /\ \A k \in 1 .. Len(rules) : k >= i => rules[k] = parsed.rules[k]
       /\ \A k \in 1 .. Len(rules) : k < i => Shaped(symbols, rules[k])
       /\ NoClash => \A k \in 1 .. Len(rules) : k < i => NormalRule(symbols, rules[k])
  /\ pc \in {"helpers", "split"} =>
       \A k \in 1 .. Len(rules) :
         Shaped(symbols, rules[k]) /\ (NoClash => NormalRule(symbols, rules[k]))

ConversionInv == TableInv /\ TermsInv /\ RulesInv

-----------------------------------------------------------------------------
(* What a call of symbol_list_add_str with a made-up label does             *)

\* A table has grown from itself.
LEMMA GrownRefl ==
  ASSUME NEW list \in Seq(Symbol(LabelRecord))
  PROVE  Grown(list, list)
BY DEF Grown

\* Growing twice is growing.
LEMMA GrownTrans ==
  ASSUME NEW list, NEW mid, NEW new, Len(list) \in Nat,
         Grown(list, mid), Grown(mid, new)
  PROVE  Grown(list, new)
<1>1. Len(mid) \in Nat /\ Len(new) \in Nat
  BY DEF Grown
<1>2. /\ new \in Seq(Symbol(LabelRecord)) /\ Len(new) >= Len(list)
  BY <1>1 DEF Grown
<1>3. ASSUME NEW s \in 1 .. Len(list)
      PROVE  /\ new[s].label = list[s].label
             /\ list[s].is_nonterm = TRUE => new[s].is_nonterm = TRUE
  <2>1. s \in 1 .. Len(mid)
    BY <1>1 DEF Grown
  <2> QED BY <1>3, <2>1 DEF Grown
<1>4. ASSUME NEW s \in 1 .. Len(new), s > Len(list)
      PROVE  new[s].is_nonterm = TRUE
  <2>1. CASE s > Len(mid)
    BY <2>1 DEF Grown
  <2>2. CASE ~(s > Len(mid))
    <3>1. s \in 1 .. Len(mid)
      BY <1>1, <2>2
    <3>2. mid[s].is_nonterm = TRUE
      BY <1>4, <3>1 DEF Grown
    <3> QED BY <3>1, <3>2 DEF Grown
  <2> QED BY <2>1, <2>2
<1> QED BY <1>2, <1>3, <1>4 DEF Grown

\* A nonterminal is added: the index returned is that of a nonterminal, the
\* table has grown, and its first n symbols are untouched if none has the label.
LEMMA AddNonterm ==
  ASSUME NEW list \in Seq(Symbol(LabelRecord)), NEW str \in LabelRecord,
         NEW n \in Nat, n <= Len(list)
  PROVE  LET new == symbol_list_add_str(list, str, TRUE)
             at == AddedIndex(list, str)
         IN /\ Grown(list, new)
            /\ at \in 1 .. Len(new) /\ new[at].is_nonterm = TRUE
            /\ (\A s \in 1 .. n : list[s].label # str) => SameUpTo(n, list, new)
<1> DEFINE new == symbol_list_add_str(list, str, TRUE)
           at == AddedIndex(list, str)
<1>1. IsAdded(LabelRecord, list, str, TRUE, new, at)
  BY AddStr
<1> HIDE DEF new, at
<1>2. /\ new \in Seq(Symbol(LabelRecord)) /\ Len(new) >= Len(list)
      /\ at \in 1 .. Len(new) /\ new[at].label = str /\ new[at].is_nonterm = TRUE
  BY <1>1 DEF IsAdded
<1>3. \A s \in 1 .. Len(list) :
        /\ new[s].label = list[s].label
        /\ list[s].is_nonterm = TRUE => new[s].is_nonterm = TRUE
        /\ s # at => new[s] = list[s]
  BY <1>1 DEF IsAdded
<1>4. \A s \in 1 .. Len(new) : s > Len(list) => new[s].is_nonterm = TRUE
  BY <1>1 DEF IsAdded
<1>5. ASSUME \A s \in 1 .. n : list[s].label # str PROVE SameUpTo(n, list, new)
  <2>1. ASSUME NEW s \in 1 .. n PROVE new[s] = list[s]
    <3>1. s \in 1 .. Len(list) /\ list[s].label # str
      BY <1>5
    <3>2. s # at
      BY <1>2, <1>3, <3>1
    <3> QED BY <1>3, <3>1, <3>2
  <2> QED BY <2>1 DEF SameUpTo
<1>6. Grown(list, new)
  BY <1>2, <1>3, <1>4 DEF Grown
<1> QED BY <1>2, <1>5, <1>6 DEF new, at

\* A rule in normal form stays so while the table grows behind the symbols
\* that may be terminals.
LEMMA NormalRuleKept ==
  ASSUME NEW list \in Seq(Symbol(LabelRecord)), NEW new, NEW rule, NEW n \in Nat,
         n <= Len(list), Grown(list, new), SameUpTo(n, list, new),
         \A s \in 1 .. Len(list) : s > n => list[s].is_nonterm = TRUE,
         NormalRule(list, rule)
  PROVE  NormalRule(new, rule)
<1>1. Len(list) \in Nat /\ Len(new) \in Nat /\ Len(new) >= Len(list)
  BY DEF Grown
<1>2. \A s \in 1 .. Len(list) : s \in 1 .. Len(new)
  BY <1>1
<1>3. ASSUME NEW s \in 1 .. Len(list), list[s].is_nonterm = FALSE
      PROVE  new[s].is_nonterm = FALSE
  <2>1. s \in 1 .. n
    BY <1>3
  <2> QED BY <1>3, <2>1 DEF SameUpTo
<1>4. ASSUME NEW s \in 1 .. Len(list), list[s].is_nonterm = TRUE
      PROVE  new[s].is_nonterm = TRUE
  BY <1>4 DEF Grown
<1> QED BY <1>2, <1>3, <1>4 DEF NormalRule

\* A nonterminal stays one while the table grows.
LEMMA NontermStays ==
  ASSUME NEW list \in Seq(Symbol(LabelRecord)), NEW new, Grown(list, new),
         NEW s \in 1 .. Len(list), list[s].is_nonterm = TRUE
  PROVE  s \in 1 .. Len(new) /\ new[s].is_nonterm = TRUE
<1>1. Len(list) \in Nat /\ Len(new) \in Nat /\ Len(new) >= Len(list)
  BY DEF Grown
<1> QED BY <1>1 DEF Grown

\* The shape of a rule is kept while the table grows, whatever is promoted.
LEMMA ShapedKept ==
  ASSUME NEW list \in Seq(Symbol(LabelRecord)), NEW new, Grown(list, new), NEW rule,
         Shaped(list, rule)
  PROVE  Shaped(new, rule)
<1>1. Len(list) \in Nat /\ Len(new) \in Nat /\ Len(new) >= Len(list)
  BY DEF Grown
<1>2. \A s \in 1 .. Len(list) :
        s \in 1 .. Len(new) /\ (list[s].is_nonterm = TRUE => new[s].is_nonterm = TRUE)
  BY <1>1 DEF Grown
<1> QED BY <1>2 DEF Shaped

\* A rule in normal form has the shape.
LEMMA NormalShaped == ASSUME NEW list, NEW rule, NormalRule(list, rule) PROVE Shaped(list, rule)
BY DEF NormalRule, Shaped

-----------------------------------------------------------------------------
(* What the parser promises and how made-up labels relate to the input's    *)

\* The parser's rules refer to symbols of its table, and their head is a nonterminal.
LEMMA ParsedFacts ==
  ASSUME NEW p \in ParserResults
  PROVE  /\ p.symbols \in Seq(Symbol(LabelRecord)) /\ p.rules \in Seq(Rule)
         /\ Len(p.symbols) \in Nat /\ Len(p.rules) \in Nat
         /\ p.block_count \in Nat /\ p.block_count >= 1
         /\ \A k \in 1 .. Len(p.rules) :
              /\ p.rules[k].first \in 1 .. Len(p.symbols)
              /\ p.symbols[p.rules[k].first].is_nonterm = TRUE
              /\ p.rules[k].second = NoSymbol \/ p.rules[k].second \in 1 .. Len(p.symbols)
              /\ p.rules[k].third = NoSymbol \/ p.rules[k].third \in 1 .. Len(p.symbols)
              /\ p.rules[k].second = NoSymbol => p.rules[k].third = NoSymbol
<1>1. p \in ParserResult /\ ParserPromise(p)
  BY WCNFAssumption
<1>2. /\ p.symbols \in Seq(Symbol(LabelRecord)) /\ p.rules \in Seq(Rule)
      /\ p.block_count \in Nat
  BY <1>1 DEF ParserResult
<1>3. DOMAIN p.symbols = 1 .. Len(p.symbols) /\ DOMAIN p.rules = 1 .. Len(p.rules)
      /\ Len(p.symbols) \in Nat /\ Len(p.rules) \in Nat
  BY <1>2
<1>4. p.block_count >= 1
  BY <1>1, <1>2 DEF ParserPromise
<1>5. ASSUME NEW k \in 1 .. Len(p.rules)
      PROVE  /\ p.rules[k].first \in 1 .. Len(p.symbols)
             /\ p.rules[k].second = NoSymbol \/ p.rules[k].second \in 1 .. Len(p.symbols)
             /\ p.rules[k].third = NoSymbol \/ p.rules[k].third \in 1 .. Len(p.symbols)
             /\ p.rules[k].second = NoSymbol => p.rules[k].third = NoSymbol
  BY <1>1, <1>3 DEF ParserPromise
<1>6. ASSUME NEW k \in 1 .. Len(p.rules)
      PROVE  p.symbols[p.rules[k].first].is_nonterm = TRUE
  <2>1. p.rules[k].first \in DOMAIN p.symbols /\ k \in DOMAIN p.rules
    BY <1>3, <1>5
  <2>2. p.symbols[p.rules[k].first].is_nonterm
    BY <1>1, <2>1 DEF ParserPromise
  <2>3. p.symbols[p.rules[k].first] \in Symbol(LabelRecord)
    BY <1>2, <2>1
  <2> QED BY <2>2, <2>3 DEF Symbol
<1> QED BY <1>2, <1>3, <1>4, <1>5, <1>6

\* EPS and the helpers' names are labels.
LEMMA MadeUpLabels ==
  /\ EpsLabel \in LabelRecord
  /\ \A label \in LabelRecord : HelperLabel(label) \in LabelRecord
BY DEF EpsLabel, HelperLabel, LabelRecord, Plain, Indexed, EpsStem

\* Without a clash no symbol of the input has a made-up label.
LEMMA CleanLabels ==
  ASSUME parsed \in ParserResults, NoClash, NEW s \in 1 .. Len(parsed.symbols)
  PROVE  /\ parsed.symbols[s].label # EpsLabel
         /\ \A t \in 1 .. Len(parsed.symbols) : InputTerm(parsed, t) =>
              parsed.symbols[s].label # HelperLabel(parsed.symbols[t].label)
<1>1. DOMAIN parsed.symbols = 1 .. Len(parsed.symbols)
  BY ParsedFacts
<1>2. parsed.symbols[s].label \in LabelsOf(parsed.symbols)
  BY <1>1 DEF LabelsOf
<1>3. ASSUME NEW t \in 1 .. Len(parsed.symbols), InputTerm(parsed, t)
      PROVE  parsed.symbols[s].label # HelperLabel(parsed.symbols[t].label)
  <2>1. t \in DOMAIN parsed.symbols /\ ~parsed.symbols[t].is_nonterm
    BY <1>1, <1>3 DEF InputTerm
  <2>2. HelperLabel(parsed.symbols[t].label) \notin LabelsOf(parsed.symbols)
    BY <2>1 DEF NoClash
  <2> QED BY <1>2, <2>2
<1> QED BY <1>2, <1>3 DEF NoClash

\* One call of symbol_list_add_str with a label that is made up.
LEMMA TableStep ==
  ASSUME NEW p \in ParserResults, NEW list, NEW clean \in BOOLEAN, TableOf(p, list, clean),
         NEW str \in LabelRecord,
         clean => \A s \in 1 .. Len(p.symbols) : p.symbols[s].label # str
  PROVE  LET new == symbol_list_add_str(list, str, TRUE)
             at == AddedIndex(list, str)
         IN /\ TableOf(p, new, clean) /\ Grown(list, new)
            /\ at \in 1 .. Len(new) /\ new[at].is_nonterm = TRUE
            /\ clean => \A rule : NormalRule(list, rule) => NormalRule(new, rule)
<1> DEFINE new == symbol_list_add_str(list, str, TRUE)
           at == AddedIndex(list, str)
           n == Len(p.symbols)
<1>1. list \in Seq(Symbol(LabelRecord)) /\ n \in Nat /\ n <= Len(list)
  BY ParsedFacts DEF TableOf, Grown
<1>2. /\ Grown(list, new) /\ at \in 1 .. Len(new) /\ new[at].is_nonterm = TRUE
      /\ (\A s \in 1 .. n : list[s].label # str) => SameUpTo(n, list, new)
  BY <1>1, AddNonterm
<1> HIDE DEF new, at
<1>3. Grown(p.symbols, new)
  BY <1>1, <1>2, GrownTrans DEF TableOf
<1>4. ASSUME clean PROVE SameUpTo(n, list, new)
  <2>1. \A s \in 1 .. n : list[s].label # str
    BY <1>4 DEF TableOf, SameUpTo
  <2> QED BY <1>2, <2>1
<1>5. ASSUME clean PROVE SameUpTo(n, p.symbols, new)
  BY <1>4, <1>5 DEF TableOf, SameUpTo
<1>6. ASSUME clean, NEW rule, NormalRule(list, rule) PROVE NormalRule(new, rule)
  <2>1. \A s \in 1 .. Len(list) : s > n => list[s].is_nonterm = TRUE
    BY DEF TableOf, Grown
  <2> HIDE DEF n
  <2> QED BY <1>1, <1>2, <1>4, <1>6, <2>1, NormalRuleKept
<1> QED BY <1>2, <1>3, <1>5, <1>6 DEF TableOf, new, at

-----------------------------------------------------------------------------
(* The steps of the loops                                                   *)

\* parsed never changes, so what is said of it stays true.
LEMMA NoClashFixed ==
  ASSUME parsed' = parsed
  PROVE  NoClash' = NoClash
BY DEF NoClash

\* Needed to hand NoClash to TableStep as a truth value.
LEMMA NoClashBoolean == NoClash \in BOOLEAN
BY DEF NoClash

\* What leaves the variables of a part alone preserves it.
LEMMA TableFrame ==
  ASSUME TableInv, parsed' = parsed, symbols' = symbols
  PROVE  TableInv'
BY NoClashFixed DEF TableInv

\* Likewise for terms_set.
LEMMA TermsFrame ==
  ASSUME TermsInv, parsed' = parsed, terms_set' = terms_set, terms_capacity' = terms_capacity
  PROVE  TermsInv'
BY DEF TermsInv, TermsSetInBoundsSingle

\* The rule the loop is at is still the parser's, and what the loop takes for
\* a terminal is one of the input.
LEMMA RuleAt ==
  ASSUME TableInv, RulesInv, AtRule
  PROVE  /\ i \in 1 .. Len(rules) /\ i \in Nat /\ Len(rules) = Len(parsed.rules)
         /\ rules[i] = parsed.rules[i] /\ rules[i] \in Rule
         /\ rules[i].first \in 1 .. Len(symbols) /\ symbols[rules[i].first].is_nonterm = TRUE
         /\ rules[i].second = NoSymbol => rules[i].third = NoSymbol
         /\ \A sym \in {rules[i].second, rules[i].third} :
              /\ IsTerm(sym) => /\ InputTerm(parsed, sym)
                                /\ sym \in 1 .. Len(symbols) /\ symbols[sym].is_nonterm = FALSE
                                /\ symbols[sym].label = parsed.symbols[sym].label
                                /\ symbols[sym].label \in LabelRecord
              /\ IsNonterm(sym) => sym \in 1 .. Len(symbols) /\ symbols[sym].is_nonterm = TRUE
<1>1. /\ i \in 1 .. Len(rules) /\ i \in Nat /\ Len(rules) = Len(parsed.rules)
      /\ rules \in Seq(Rule)
  BY DEF RulesInv, AtRule
<1>2. rules[i] = parsed.rules[i] /\ rules[i] \in Rule
  BY <1>1 DEF RulesInv, AtRule
<1>3. /\ parsed \in ParserResults /\ Grown(parsed.symbols, symbols)
      /\ symbols \in Seq(Symbol(LabelRecord)) /\ Len(symbols) >= Len(parsed.symbols)
      /\ Len(symbols) \in Nat
  BY DEF TableInv, TableOf, Grown
<1>4. /\ Len(parsed.symbols) \in Nat
      /\ parsed.symbols \in Seq(Symbol(LabelRecord))
      /\ rules[i].first \in 1 .. Len(parsed.symbols)
      /\ parsed.symbols[rules[i].first].is_nonterm = TRUE
      /\ rules[i].second = NoSymbol \/ rules[i].second \in 1 .. Len(parsed.symbols)
      /\ rules[i].third = NoSymbol \/ rules[i].third \in 1 .. Len(parsed.symbols)
      /\ rules[i].second = NoSymbol => rules[i].third = NoSymbol
  BY <1>1, <1>2, <1>3, ParsedFacts
<1>5. /\ rules[i].first \in 1 .. Len(symbols) /\ symbols[rules[i].first].is_nonterm = TRUE
  BY <1>3, <1>4 DEF Grown
<1>6. ASSUME NEW sym \in 1 .. Len(parsed.symbols)
      PROVE  /\ sym \in 1 .. Len(symbols)
             /\ symbols[sym] \in Symbol(LabelRecord)
             /\ parsed.symbols[sym] \in Symbol(LabelRecord)
             /\ symbols[sym].label = parsed.symbols[sym].label
             /\ parsed.symbols[sym].is_nonterm = TRUE => symbols[sym].is_nonterm = TRUE
  BY <1>3, <1>4 DEF Grown
<1>7. ASSUME NEW sym \in {rules[i].second, rules[i].third}, IsTerm(sym)
      PROVE  /\ InputTerm(parsed, sym)
             /\ sym \in 1 .. Len(symbols) /\ symbols[sym].is_nonterm = FALSE
             /\ symbols[sym].label = parsed.symbols[sym].label
             /\ symbols[sym].label \in LabelRecord
  <2>1. sym \in 1 .. Len(parsed.symbols) /\ ~symbols[sym].is_nonterm
    BY <1>4, <1>7 DEF IsTerm
  <2>2. symbols[sym].is_nonterm = FALSE /\ symbols[sym].label \in LabelRecord
    BY <1>6, <2>1 DEF Symbol
  <2>3. parsed.symbols[sym].is_nonterm = FALSE
    BY <1>6, <2>1, <2>2 DEF Symbol
  <2> QED BY <1>6, <2>1, <2>2, <2>3 DEF InputTerm
<1>8. ASSUME NEW sym \in {rules[i].second, rules[i].third}, IsNonterm(sym)
      PROVE  sym \in 1 .. Len(symbols) /\ symbols[sym].is_nonterm = TRUE
  <2>1. sym \in 1 .. Len(parsed.symbols) /\ symbols[sym].is_nonterm
    BY <1>4, <1>8 DEF IsNonterm
  <2> QED BY <1>6, <2>1 DEF Symbol
<1> QED BY <1>1, <1>2, <1>4, <1>5, <1>7, <1>8

\* One iteration of the first loop writes rule i in normal form and keeps the
\* ones before it so.
LEMMA LoopStep ==
  ASSUME TableInv, RulesInv, AtRule, parsed' = parsed, pc' = pc, i' = i + 1,
         NEW r \in Rule, rules' = [rules EXCEPT ![i] = r],
         Grown(symbols, symbols'), NormalRule(symbols', r),
         NoClash => \A rule : NormalRule(symbols, rule) => NormalRule(symbols', rule)
  PROVE  RulesInv'
<1>1. /\ i \in 1 .. Len(rules) /\ i \in Nat /\ Len(rules) = Len(parsed.rules)
      /\ rules \in Seq(Rule) /\ Len(rules) \in Nat /\ pc = "wcnf" /\ i >= 1
  BY RuleAt DEF RulesInv, AtRule
<1>2. /\ rules' \in Seq(Rule) /\ Len(rules') = Len(rules)
      /\ \A k \in 1 .. Len(rules) : rules'[k] = IF k = i THEN r ELSE rules[k]
  BY <1>1
<1>3. ASSUME NEW k \in 1 .. Len(rules'), k >= i' PROVE rules'[k] = parsed'.rules[k]
  <2>1. k \in 1 .. Len(rules) /\ k >= i /\ k # i
    BY <1>1, <1>2, <1>3
  <2> QED BY <1>1, <1>2, <2>1 DEF RulesInv
<1>4. ASSUME NoClash', NEW k \in 1 .. Len(rules'), k < i' PROVE NormalRule(symbols', rules'[k])
  <2>1. NoClash
    BY <1>4, NoClashFixed
  <2>2. CASE k = i
    BY <1>1, <1>2, <2>1, <2>2
  <2>3. CASE k # i
    <3>1. k \in 1 .. Len(rules) /\ k < i /\ rules'[k] = rules[k]
      BY <1>1, <1>2, <1>4, <2>3
    <3>2. NormalRule(symbols, rules[k])
      BY <1>1, <2>1, <3>1 DEF RulesInv
    <3> QED BY <2>1, <3>1, <3>2
  <2> QED BY <2>2, <2>3
<1>5. pc' = "wcnf" /\ i' \in Nat /\ i' >= 1 /\ Len(rules') = Len(parsed'.rules)
  BY <1>1, <1>2
<1>6. ASSUME NEW k \in 1 .. Len(rules'), k < i' PROVE Shaped(symbols', rules'[k])
  <2>1. CASE k = i
    BY <1>1, <1>2, <2>1, NormalShaped
  <2>2. CASE k # i
    <3>1. k \in 1 .. Len(rules) /\ k < i /\ rules'[k] = rules[k]
      BY <1>1, <1>2, <1>6, <2>2
    <3>2. Shaped(symbols, rules[k])
      BY <1>1, <3>1 DEF RulesInv
    <3>3. symbols \in Seq(Symbol(LabelRecord))
      BY DEF TableInv, TableOf, Grown
    <3> QED BY <3>1, <3>2, <3>3, ShapedKept
  <2> QED BY <2>1, <2>2
<1> QED BY <1>2, <1>3, <1>4, <1>5, <1>6 DEF RulesInv

\* A rule in normal form is passed over.
LEMMA KeepRuleStep ==
  ASSUME ConversionInv, KeepRule
  PROVE  ConversionInv'
<1>1. /\ TableInv /\ TermsInv /\ RulesInv /\ AtRule
      /\ parsed' = parsed /\ pc' = pc /\ i' = i + 1 /\ symbols' = symbols /\ rules' = rules
      /\ terms_set' = terms_set /\ terms_capacity' = terms_capacity
  BY DEF ConversionInv, KeepRule
<1>2. rules[i] \in Rule /\ rules' = [rules EXCEPT ![i] = rules[i]]
  BY <1>1, RuleAt DEF RulesInv, AtRule
<1>3. NormalRule(symbols, rules[i])
  <2>1. \/ rules[i].second = NoSymbol
        \/ rules[i].third = NoSymbol /\ IsTerm(rules[i].second)
        \/ IsNonterm(rules[i].second) /\ IsNonterm(rules[i].third)
    BY DEF KeepRule
  <2> QED BY <1>1, <2>1, RuleAt DEF NormalRule
<1>4. RulesInv'
  <2>1. Grown(symbols, symbols')
    BY <1>1, GrownRefl DEF TableInv, TableOf, Grown
  <2>2. NormalRule(symbols', rules[i])
    BY <1>1, <1>3
  <2> QED BY <1>1, <1>2, <2>1, <2>2, LoopStep
<1> QED BY <1>1, <1>4, TableFrame, TermsFrame DEF ConversionInv

\* N -> M becomes N -> M EPS.
LEMMA UnitRuleStep ==
  ASSUME ConversionInv, UnitRule
  PROVE  ConversionInv'
<1> DEFINE at == AddedIndex(symbols, EpsLabel)
           r == [rules[i] EXCEPT !.third = at]
<1>1. /\ TableInv /\ TermsInv /\ RulesInv /\ AtRule /\ IsNonterm(rules[i].second)
      /\ parsed' = parsed /\ pc' = pc /\ i' = i + 1
      /\ symbols' = symbol_list_add_str(symbols, EpsLabel, TRUE)
      /\ rules' = [rules EXCEPT ![i].third = at]
      /\ terms_set' = terms_set /\ terms_capacity' = terms_capacity
  BY DEF ConversionInv, UnitRule
<1>2. parsed \in ParserResults /\ TableOf(parsed, symbols, NoClash)
  BY <1>1 DEF TableInv
<1>3. NoClash => \A s \in 1 .. Len(parsed.symbols) : parsed.symbols[s].label # EpsLabel
  BY <1>2, CleanLabels
<1>4. /\ TableOf(parsed, symbols', NoClash) /\ Grown(symbols, symbols')
      /\ at \in 1 .. Len(symbols') /\ symbols'[at].is_nonterm = TRUE
      /\ NoClash => \A rule : NormalRule(symbols, rule) => NormalRule(symbols', rule)
  BY <1>1, <1>2, <1>3, MadeUpLabels, NoClashBoolean, TableStep
<1> HIDE DEF at
<1>5. TableInv'
  BY <1>1, <1>2, <1>4, NoClashFixed DEF TableInv
<1>6. r \in Rule /\ rules' = [rules EXCEPT ![i] = r]
  <2>1. at \in Nat
    BY <1>4
  <2> QED BY <1>1, <2>1, RuleAt DEF Rule
<1>7. NormalRule(symbols', r)
  <2>1. /\ rules[i].first \in 1 .. Len(symbols') /\ symbols'[rules[i].first].is_nonterm = TRUE
        /\ rules[i].second \in 1 .. Len(symbols') /\ symbols'[rules[i].second].is_nonterm = TRUE
    <3>1. symbols \in Seq(Symbol(LabelRecord))
      BY <1>2 DEF TableOf, Grown
    <3>2. /\ rules[i].first \in 1 .. Len(symbols) /\ symbols[rules[i].first].is_nonterm = TRUE
          /\ rules[i].second \in 1 .. Len(symbols) /\ symbols[rules[i].second].is_nonterm = TRUE
      BY <1>1, RuleAt
    <3> QED BY <1>4, <3>1, <3>2, NontermStays
  <2>2. r.first = rules[i].first /\ r.second = rules[i].second /\ r.third = at
    BY <1>1, RuleAt DEF Rule
  <2> QED BY <1>4, <2>1, <2>2 DEF NormalRule
<1>8. RulesInv'
  <2> HIDE DEF r
  <2> QED BY <1>1, <1>4, <1>6, <1>7, LoopStep
<1> QED BY <1>1, <1>5, <1>8, TermsFrame DEF ConversionInv

\* N -> s t gets two helpers.
LEMMA TwoTermsRuleStep ==
  ASSUME ConversionInv, TwoTermsRule
  PROVE  ConversionInv'
<1> DEFINE helper1 == HelperLabel(symbols[rules[i].second].label)
           helper2 == HelperLabel(symbols[rules[i].third].label)
           list1 == symbol_list_add_str(symbols, helper1, TRUE)
           at1 == AddedIndex(symbols, helper1)
           at2 == AddedIndex(list1, helper2)
           r == [rules[i] EXCEPT !.second = at1, !.third = at2]
<1>1. /\ TableInv /\ TermsInv /\ RulesInv /\ AtRule
      /\ IsTerm(rules[i].second) /\ IsTerm(rules[i].third)
      /\ parsed' = parsed /\ pc' = pc /\ i' = i + 1
      /\ symbols' = symbol_list_add_str(list1, helper2, TRUE)
      /\ rules' = [rules EXCEPT ![i].second = at1, ![i].third = at2]
      /\ terms_set' = terms_set \o <<rules[i].second, rules[i].third>>
      /\ terms_capacity' = GrownCapacity
  BY DEF ConversionInv, TwoTermsRule
<1>2. parsed \in ParserResults /\ TableOf(parsed, symbols, NoClash)
  BY <1>1 DEF TableInv
<1>3. /\ InputTerm(parsed, rules[i].second) /\ InputTerm(parsed, rules[i].third)
      /\ symbols[rules[i].second].label = parsed.symbols[rules[i].second].label
      /\ symbols[rules[i].third].label = parsed.symbols[rules[i].third].label
      /\ symbols[rules[i].second].label \in LabelRecord
      /\ symbols[rules[i].third].label \in LabelRecord
  BY <1>1, RuleAt
<1>4. /\ helper1 \in LabelRecord /\ helper2 \in LabelRecord
  BY <1>3, MadeUpLabels
<1>5. NoClash => \A s \in 1 .. Len(parsed.symbols) :
        parsed.symbols[s].label # helper1 /\ parsed.symbols[s].label # helper2
  BY <1>2, <1>3, CleanLabels DEF InputTerm
<1> HIDE DEF helper1, helper2
<1>6. /\ TableOf(parsed, list1, NoClash) /\ Grown(symbols, list1)
      /\ at1 \in 1 .. Len(list1) /\ list1[at1].is_nonterm = TRUE
      /\ NoClash => \A rule : NormalRule(symbols, rule) => NormalRule(list1, rule)
  BY <1>2, <1>4, <1>5, NoClashBoolean, TableStep
<1> HIDE DEF list1, at1
<1>7. /\ TableOf(parsed, symbols', NoClash) /\ Grown(list1, symbols')
      /\ at2 \in 1 .. Len(symbols') /\ symbols'[at2].is_nonterm = TRUE
      /\ NoClash => \A rule : NormalRule(list1, rule) => NormalRule(symbols', rule)
  BY <1>1, <1>2, <1>4, <1>5, <1>6, NoClashBoolean, TableStep
<1> HIDE DEF at2
<1>8. TableInv'
  BY <1>1, <1>2, <1>7, NoClashFixed DEF TableInv
<1>9. symbols \in Seq(Symbol(LabelRecord)) /\ list1 \in Seq(Symbol(LabelRecord))
  BY <1>2, <1>6 DEF TableOf, Grown
<1>10. r \in Rule /\ rules' = [rules EXCEPT ![i] = r]
  <2>1. at1 \in Nat /\ at2 \in Nat
    BY <1>6, <1>7
  <2> QED BY <1>1, <2>1, RuleAt DEF Rule
<1>11. NormalRule(symbols', r)
  <2>1. rules[i].first \in 1 .. Len(symbols') /\ symbols'[rules[i].first].is_nonterm = TRUE
    <3>1. rules[i].first \in 1 .. Len(symbols) /\ symbols[rules[i].first].is_nonterm = TRUE
      BY <1>1, RuleAt
    <3>2. rules[i].first \in 1 .. Len(list1) /\ list1[rules[i].first].is_nonterm = TRUE
      BY <1>6, <1>9, <3>1, NontermStays
    <3> QED BY <1>7, <1>9, <3>2, NontermStays
  <2>2. at1 \in 1 .. Len(symbols') /\ symbols'[at1].is_nonterm = TRUE
    BY <1>6, <1>7, <1>9, NontermStays
  <2>3. r.first = rules[i].first /\ r.second = at1 /\ r.third = at2
    BY <1>1, RuleAt DEF Rule
  <2> QED BY <1>7, <2>1, <2>2, <2>3 DEF NormalRule
<1>12. RulesInv'
  <2> HIDE DEF r
  <2>1. NoClash => \A rule : NormalRule(symbols, rule) => NormalRule(symbols', rule)
    BY <1>6, <1>7
  <2>2. Grown(symbols, symbols')
    BY <1>6, <1>7, <1>9, GrownTrans
  <2> QED BY <1>1, <1>10, <1>11, <2>1, <2>2, LoopStep
<1>13. TermsInv'
  <2>1. /\ terms_set \in Seq(Nat) /\ terms_capacity \in Nat /\ terms_capacity >= 1
        /\ \A k \in 1 .. Len(terms_set) : InputTerm(parsed, terms_set[k])
    BY <1>1 DEF TermsInv
  <2>2. rules[i].second \in Nat /\ rules[i].third \in Nat
    BY <1>1, RuleAt DEF Rule
  <2>3. /\ terms_set' \in Seq(Nat) /\ Len(terms_set') = Len(terms_set) + 2
        /\ \A k \in 1 .. Len(terms_set) : terms_set'[k] = terms_set[k]
        /\ terms_set'[Len(terms_set) + 1] = rules[i].second
        /\ terms_set'[Len(terms_set) + 2] = rules[i].third
    BY <1>1, <2>1, <2>2
  <2>4. ASSUME NEW k \in 1 .. Len(terms_set') PROVE InputTerm(parsed', terms_set'[k])
    <3>1. k \in 1 .. Len(terms_set) \/ k = Len(terms_set) + 1 \/ k = Len(terms_set) + 2
      BY <2>1, <2>3, SMTT(30)
    <3> QED BY <1>1, <1>3, <2>1, <2>3, <3>1
  <2>5. terms_capacity' \in Nat /\ terms_capacity' >= 1
    BY <1>1, <2>1 DEF GrownCapacity
  <2>6. TermsSetInBoundsSingle'
    <3>1. /\ i \in DOMAIN parsed.rules /\ parsed.rules[i] = rules[i]
      BY <1>1, <1>2, RuleAt, ParsedFacts
    <3>2. rules[i].third # NoSymbol
      BY <1>1 DEF IsTerm
    <3>3. /\ ~parsed.symbols[rules[i].second].is_nonterm
          /\ ~parsed.symbols[rules[i].third].is_nonterm
      BY <1>3 DEF InputTerm
    <3> QED BY <1>1, <3>1, <3>2, <3>3 DEF TermsSetInBoundsSingle
  <2> QED BY <2>3, <2>4, <2>5, <2>6 DEF TermsInv
<1> QED BY <1>8, <1>12, <1>13 DEF ConversionInv

\* N -> t M and N -> M t get one helper.
LEMMA OneTermRuleStep ==
  ASSUME ConversionInv, OneTermRule
  PROVE  ConversionInv'
<1>1. /\ TableInv /\ TermsInv /\ RulesInv /\ AtRule
      /\ parsed' = parsed /\ pc' = pc /\ i' = i + 1
      /\ terms_capacity' = GrownCapacity
  BY DEF ConversionInv, OneTermRule
<1>2. PICK at \in {"second", "third"} :
        LET other == IF at = "second" THEN "third" ELSE "second"
            term == rules[i][at]
            helper == HelperLabel(symbols[term].label)
        IN /\ IsTerm(term) /\ IsNonterm(rules[i][other])
           /\ symbols' = symbol_list_add_str(symbols, helper, TRUE)
           /\ rules' = [rules EXCEPT ![i][at] = AddedIndex(symbols, helper)]
           /\ terms_set' = Append(terms_set, term)
  BY DEF OneTermRule
<1> DEFINE other == IF at = "second" THEN "third" ELSE "second"
           term == rules[i][at]
           helper == HelperLabel(symbols[term].label)
           index == AddedIndex(symbols, helper)
           r == [rules[i] EXCEPT ![at] = index]
<1>3. /\ IsTerm(term) /\ IsNonterm(rules[i][other])
      /\ symbols' = symbol_list_add_str(symbols, helper, TRUE)
      /\ rules' = [rules EXCEPT ![i][at] = index]
      /\ terms_set' = Append(terms_set, term)
  BY <1>2
<1>4. /\ term \in {rules[i].second, rules[i].third}
      /\ rules[i][other] \in {rules[i].second, rules[i].third}
  OBVIOUS
<1>5. parsed \in ParserResults /\ TableOf(parsed, symbols, NoClash)
  BY <1>1 DEF TableInv
<1>6. /\ InputTerm(parsed, term) /\ symbols[term].label = parsed.symbols[term].label
      /\ symbols[term].label \in LabelRecord
      /\ rules[i][other] \in 1 .. Len(symbols) /\ symbols[rules[i][other]].is_nonterm = TRUE
  BY <1>1, <1>3, <1>4, RuleAt
<1>7. helper \in LabelRecord
  BY <1>6, MadeUpLabels
<1>8. NoClash => \A s \in 1 .. Len(parsed.symbols) : parsed.symbols[s].label # helper
  BY <1>5, <1>6, CleanLabels DEF InputTerm
<1> HIDE DEF helper, other, term
<1>9. /\ TableOf(parsed, symbols', NoClash) /\ Grown(symbols, symbols')
      /\ index \in 1 .. Len(symbols') /\ symbols'[index].is_nonterm = TRUE
      /\ NoClash => \A rule : NormalRule(symbols, rule) => NormalRule(symbols', rule)
  BY <1>3, <1>5, <1>7, <1>8, NoClashBoolean, TableStep
<1> HIDE DEF index
<1>10. TableInv'
  BY <1>1, <1>5, <1>9, NoClashFixed DEF TableInv
<1>11. symbols \in Seq(Symbol(LabelRecord))
  BY <1>5 DEF TableOf, Grown
<1>12. /\ rules[i] \in Rule /\ rules \in Seq(Rule) /\ i \in 1 .. Len(rules)
  BY <1>1, RuleAt DEF RulesInv, AtRule
<1>13. index \in Nat
  BY <1>9
<1>14. r \in Rule /\ rules' = [rules EXCEPT ![i] = r]
  <2>1. CASE at = "second"
    BY <1>3, <1>12, <1>13, <2>1 DEF Rule
  <2>2. CASE at = "third"
    BY <1>3, <1>12, <1>13, <2>2 DEF Rule
  <2> QED BY <2>1, <2>2
<1>15. NormalRule(symbols', r)
  <2>1. rules[i].first \in 1 .. Len(symbols') /\ symbols'[rules[i].first].is_nonterm = TRUE
    <3>1. rules[i].first \in 1 .. Len(symbols) /\ symbols[rules[i].first].is_nonterm = TRUE
      BY <1>1, RuleAt
    <3> QED BY <1>9, <1>11, <3>1, NontermStays
  <2>2. rules[i][other] \in 1 .. Len(symbols') /\ symbols'[rules[i][other]].is_nonterm = TRUE
    BY <1>6, <1>9, <1>11, NontermStays
  <2>3. CASE at = "second"
    <3>1. r.first = rules[i].first /\ r.second = index /\ r.third = rules[i][other]
      BY <1>12, <2>3 DEF Rule, other
    <3> QED BY <1>9, <2>1, <2>2, <3>1 DEF NormalRule
  <2>4. CASE at = "third"
    <3>1. r.first = rules[i].first /\ r.second = rules[i][other] /\ r.third = index
      BY <1>12, <2>4 DEF Rule, other
    <3> QED BY <1>9, <2>1, <2>2, <3>1 DEF NormalRule
  <2> QED BY <2>3, <2>4
<1>16. RulesInv'
  <2> HIDE DEF r
  <2> QED BY <1>1, <1>9, <1>14, <1>15, LoopStep
<1>17. TermsInv'
  <2>1. /\ terms_set \in Seq(Nat) /\ terms_capacity \in Nat /\ terms_capacity >= 1
        /\ \A k \in 1 .. Len(terms_set) : InputTerm(parsed, terms_set[k])
    BY <1>1 DEF TermsInv
  <2>2. term \in Nat
    BY <1>5, <1>6, ParsedFacts DEF InputTerm
  <2>3. /\ terms_set' \in Seq(Nat) /\ Len(terms_set') = Len(terms_set) + 1
        /\ \A k \in 1 .. Len(terms_set) : terms_set'[k] = terms_set[k]
        /\ terms_set'[Len(terms_set) + 1] = term
    BY <1>3, <2>1, <2>2
  <2>4. ASSUME NEW k \in 1 .. Len(terms_set') PROVE InputTerm(parsed', terms_set'[k])
    <3>1. k \in 1 .. Len(terms_set) \/ k = Len(terms_set) + 1
      BY <2>1, <2>3
    <3> QED BY <1>1, <1>6, <2>1, <2>3, <3>1
  <2>5. terms_capacity' \in Nat /\ terms_capacity' >= 1
    BY <1>1, <2>1 DEF GrownCapacity
  <2>6. Len(terms_set) <= terms_capacity => Len(terms_set') <= terms_capacity'
    BY <1>1, <2>1, <2>3 DEF GrownCapacity
  <2>7. TermsSetInBoundsSingle'
    BY <1>1, <2>6 DEF TermsInv, TermsSetInBoundsSingle
  <2> QED BY <2>3, <2>4, <2>5, <2>7 DEF TermsInv
<1> QED BY <1>10, <1>16, <1>17 DEF ConversionInv

\* After the first loop every rule is in normal form, the rules of the helpers
\* are appended.
LEMMA AppendStep ==
  ASSUME rules \in Seq(Rule), pc' = "helpers", i' \in Nat, i' >= 1, parsed' = parsed,
         NEW r \in Rule, rules' = Append(rules, r),
         Shaped(symbols', r), \A k \in 1 .. Len(rules) : Shaped(symbols', rules[k]),
         NoClash => /\ NormalRule(symbols', r)
                    /\ \A k \in 1 .. Len(rules) : NormalRule(symbols', rules[k])
  PROVE  RulesInv'
<1>1. /\ rules' \in Seq(Rule) /\ Len(rules') = Len(rules) + 1 /\ Len(rules) \in Nat
      /\ \A k \in 1 .. Len(rules) : rules'[k] = rules[k]
      /\ rules'[Len(rules) + 1] = r
  OBVIOUS
<1>2. ASSUME NoClash', NEW k \in 1 .. Len(rules') PROVE NormalRule(symbols', rules'[k])
  <2>1. NoClash
    BY <1>2, NoClashFixed
  <2>2. k \in 1 .. Len(rules) \/ k = Len(rules) + 1
    BY <1>1
  <2> QED BY <1>1, <2>1, <2>2
<1>3. ASSUME NEW k \in 1 .. Len(rules') PROVE Shaped(symbols', rules'[k])
  <2>1. k \in 1 .. Len(rules) \/ k = Len(rules) + 1
    BY <1>1
  <2> QED BY <1>1, <2>1
<1> QED BY <1>1, <1>2, <1>3 DEF RulesInv

\* After the loop: EPS -> eps if a unit rule asked for it.
LEMMA AddEpsRuleStep ==
  ASSUME ConversionInv, AddEpsRule
  PROVE  ConversionInv'
<1>1. /\ TableInv /\ TermsInv /\ RulesInv /\ pc = "wcnf" /\ i > Len(rules)
      /\ parsed' = parsed /\ pc' = "helpers" /\ i' = 1
      /\ terms_set' = terms_set /\ terms_capacity' = terms_capacity
  BY DEF ConversionInv, AddEpsRule
<1>2. parsed \in ParserResults /\ TableOf(parsed, symbols, NoClash)
  BY <1>1 DEF TableInv
<1>3. rules \in Seq(Rule) /\ i \in Nat
  BY <1>1 DEF RulesInv
<1>4. \A k \in 1 .. Len(rules) :
        Shaped(symbols, rules[k]) /\ (NoClash => NormalRule(symbols, rules[k]))
  BY <1>1, <1>3 DEF RulesInv
<1>5. CASE is_eps_non_term_added
  <2> DEFINE at == AddedIndex(symbols, EpsLabel)
             r == NewRule(at, NoSymbol)
  <2>1. /\ symbols' = symbol_list_add_str(symbols, EpsLabel, TRUE)
        /\ rules' = Append(rules, r)
    BY <1>5 DEF AddEpsRule
  <2>2. NoClash => \A s \in 1 .. Len(parsed.symbols) : parsed.symbols[s].label # EpsLabel
    BY <1>2, CleanLabels
  <2>3. /\ TableOf(parsed, symbols', NoClash) /\ Grown(symbols, symbols')
        /\ at \in 1 .. Len(symbols') /\ symbols'[at].is_nonterm = TRUE
        /\ NoClash => \A rule : NormalRule(symbols, rule) => NormalRule(symbols', rule)
    BY <1>2, <2>1, <2>2, MadeUpLabels, NoClashBoolean, TableStep
  <2> HIDE DEF at
  <2>4. r \in Rule /\ r.first = at /\ r.second = NoSymbol /\ r.third = NoSymbol
    BY <2>3 DEF Rule, NewRule, NoSymbol
  <2> HIDE DEF r
  <2>5. NormalRule(symbols', r)
    BY <2>3, <2>4 DEF NormalRule
  <2>6. /\ \A k \in 1 .. Len(rules) : Shaped(symbols', rules[k])
        /\ NoClash => \A k \in 1 .. Len(rules) : NormalRule(symbols', rules[k])
    <3>1. symbols \in Seq(Symbol(LabelRecord))
      BY <1>2 DEF TableOf, Grown
    <3> QED BY <1>4, <2>3, <3>1, ShapedKept
  <2> i' \in Nat /\ i' >= 1
    BY <1>1
  <2> pc' = "helpers" /\ parsed' = parsed /\ rules' = Append(rules, r)
    BY <1>1, <2>1
  <2>7. RulesInv'
    BY <1>3, <2>4, <2>5, <2>6, NormalShaped, AppendStep
  <2>8. TableInv'
    BY <1>1, <1>2, <2>3, NoClashFixed DEF TableInv
  <2> QED BY <1>1, <2>7, <2>8, TermsFrame DEF ConversionInv
<1>6. CASE ~is_eps_non_term_added
  <2>1. symbols' = symbols /\ rules' = rules
    BY <1>6 DEF AddEpsRule
  <2>2. RulesInv'
    BY <1>1, <1>3, <1>4, <2>1, NoClashFixed DEF RulesInv
  <2> QED BY <1>1, <2>1, <2>2, TableFrame, TermsFrame DEF ConversionInv
<1> QED BY <1>5, <1>6

\* After the loop: T -> t for an entry t of terms_set and its helper T.
LEMMA AddHelperRuleStep ==
  ASSUME ConversionInv, AddHelperRule
  PROVE  ConversionInv'
<1> DEFINE term == terms_set[i]
           helper == HelperLabel(symbols[term].label)
           at == AddedIndex(symbols, helper)
           r == NewRule(at, term)
<1>1. /\ TableInv /\ TermsInv /\ RulesInv /\ pc = "helpers" /\ i <= Len(terms_set)
      /\ parsed' = parsed /\ pc' = "helpers" /\ i' = i + 1
      /\ terms_set' = terms_set /\ terms_capacity' = terms_capacity
      /\ symbols' = symbol_list_add_str(symbols, helper, TRUE)
      /\ rules' = Append(rules, r)
  BY DEF ConversionInv, AddHelperRule
<1>2. parsed \in ParserResults /\ TableOf(parsed, symbols, NoClash)
  BY <1>1 DEF TableInv
<1>3. rules \in Seq(Rule) /\ i \in Nat /\ i >= 1 /\ i' \in Nat /\ i' >= 1
  BY <1>1 DEF RulesInv
<1>4. InputTerm(parsed, term)
  BY <1>1, <1>3 DEF TermsInv
<1> HIDE DEF term
<1>5. /\ parsed.symbols \in Seq(Symbol(LabelRecord))
      /\ term \in 1 .. Len(parsed.symbols) /\ term \in Nat
  <2>1. parsed.symbols \in Seq(Symbol(LabelRecord)) /\ Len(parsed.symbols) \in Nat
    BY <1>2, ParsedFacts
  <2>2. term \in 1 .. Len(parsed.symbols)
    BY <1>4 DEF InputTerm
  <2> QED BY <2>1, <2>2
<1>6. symbols[term].label = parsed.symbols[term].label /\ symbols[term].label \in LabelRecord
  <2>1. symbols[term].label = parsed.symbols[term].label
    BY <1>2, <1>5 DEF TableOf, Grown
  <2>2. parsed.symbols[term] \in Symbol(LabelRecord)
    BY <1>5
  <2>3. parsed.symbols[term].label \in LabelRecord
    BY <2>2 DEF Symbol
  <2> QED BY <2>1, <2>3
<1>7. helper \in LabelRecord
  BY <1>6, MadeUpLabels
<1>8. NoClash => \A s \in 1 .. Len(parsed.symbols) : parsed.symbols[s].label # helper
  BY <1>2, <1>4, <1>5, <1>6, CleanLabels
<1> HIDE DEF helper
<1>9. /\ TableOf(parsed, symbols', NoClash) /\ Grown(symbols, symbols')
      /\ at \in 1 .. Len(symbols') /\ symbols'[at].is_nonterm = TRUE
      /\ NoClash => \A rule : NormalRule(symbols, rule) => NormalRule(symbols', rule)
  BY <1>1, <1>2, <1>7, <1>8, NoClashBoolean, TableStep
<1> HIDE DEF at
<1>10. r \in Rule /\ r.first = at /\ r.second = term /\ r.third = NoSymbol
  BY <1>5, <1>9 DEF Rule, NewRule, NoSymbol
<1> HIDE DEF r
<1>11. ASSUME NoClash PROVE NormalRule(symbols', r)
  <2>1. term \in 1 .. Len(symbols') /\ symbols'[term] = parsed.symbols[term]
    BY <1>5, <1>9, <1>11 DEF TableOf, Grown, SameUpTo
  <2>2. symbols'[term].is_nonterm = FALSE
    BY <1>4, <2>1 DEF InputTerm
  <2> QED BY <1>9, <1>10, <2>1, <2>2 DEF NormalRule
<1>12. /\ \A k \in 1 .. Len(rules) : Shaped(symbols', rules[k])
       /\ NoClash => \A k \in 1 .. Len(rules) : NormalRule(symbols', rules[k])
  <2>1. symbols \in Seq(Symbol(LabelRecord))
    BY <1>2 DEF TableOf, Grown
  <2>2. \A k \in 1 .. Len(rules) :
          Shaped(symbols, rules[k]) /\ (NoClash => NormalRule(symbols, rules[k]))
    BY <1>1 DEF RulesInv
  <2> QED BY <1>9, <2>1, <2>2, ShapedKept
<1>13. Shaped(symbols', r)
  <2>1. term \in 1 .. Len(symbols')
    BY <1>2, <1>5, <1>9, ParsedFacts DEF TableOf, Grown
  <2> QED BY <1>9, <1>10, <2>1 DEF Shaped
<1>14. RulesInv'
  BY <1>1, <1>3, <1>10, <1>11, <1>12, <1>13, AppendStep
<1>15. TableInv'
  BY <1>1, <1>2, <1>9, NoClashFixed DEF TableInv
<1> QED BY <1>1, <1>14, <1>15, TermsFrame DEF ConversionInv

\* The steps after the conversion leave its table and terms_set alone, and the
\* rules until they are split.
LEMMA LaterStep ==
  ASSUME ConversionInv, parsed' = parsed, symbols' = symbols, terms_set' = terms_set,
         terms_capacity' = terms_capacity,
         \/ pc' \notin {"wcnf", "helpers", "split"}
         \/ pc' = "split" /\ pc \in {"helpers", "split"} /\ rules' = rules
  PROVE  ConversionInv'
<1>1. TableInv /\ TermsInv /\ RulesInv
  BY DEF ConversionInv
<1>2. CASE pc' \notin {"wcnf", "helpers", "split"}
  <2>1. RulesInv'
    BY <1>2 DEF RulesInv
  <2> QED BY <1>1, <2>1, TableFrame, TermsFrame DEF ConversionInv
<1>3. CASE pc' = "split" /\ pc \in {"helpers", "split"} /\ rules' = rules
  <2>1. RulesInv'
    BY <1>1, <1>3, NoClashFixed DEF RulesInv
  <2> QED BY <1>1, <2>1, TableFrame, TermsFrame DEF ConversionInv
<1> QED BY <1>2, <1>3

-----------------------------------------------------------------------------
(* The conversion's theorems                                                *)

\* The parser's table and rules satisfy the invariant.
LEMMA ConversionInit ==
  ASSUME Init
  PROVE  ConversionInv
<1>1. /\ parsed \in ParserResults /\ pc = "wcnf" /\ i = 1
      /\ symbols = parsed.symbols /\ rules = parsed.rules
      /\ terms_set = <<>> /\ terms_capacity = TERMS_CAPACITY
  BY DEF Init, WCNFInit
<1>2. TableInv
  BY <1>1, ParsedFacts, GrownRefl DEF TableInv, TableOf, SameUpTo
<1>3. TermsInv
  BY <1>1, WCNFAssumption DEF TermsInv, TermsSetInBoundsSingle
<1>4. RulesInv
  <2>1. rules \in Seq(Rule) /\ Len(rules) = Len(parsed.rules) /\ Len(rules) \in Nat
    BY <1>1, ParsedFacts
  <2>2. \A k \in 1 .. Len(rules) : rules[k] = parsed.rules[k] /\ ~(k < i)
    BY <1>1, <2>1
  <2>3. i \in Nat /\ i >= 1
    BY <1>1
  <2> QED BY <1>1, <2>1, <2>2, <2>3 DEF RulesInv
<1> QED BY <1>2, <1>3, <1>4 DEF ConversionInv

\* Every step of the preparation preserves it.
LEMMA ConversionNext ==
  ASSUME ConversionInv, [Next]_vars
  PROVE  ConversionInv'
<1>1. CASE ConvertGrammar
  <2>1. CASE KeepRule
    BY <2>1, KeepRuleStep
  <2>2. CASE UnitRule
    BY <2>2, UnitRuleStep
  <2>3. CASE TwoTermsRule
    BY <2>3, TwoTermsRuleStep
  <2>4. CASE OneTermRule
    BY <2>4, OneTermRuleStep
  <2>5. CASE AddEpsRule
    BY <2>5, AddEpsRuleStep
  <2>6. CASE AddHelperRule
    BY <2>6, AddHelperRuleStep
  <2>7. CASE WCNFReturn
    BY <2>7, LaterStep DEF WCNFReturn
  <2> QED BY <1>1, <2>1, <2>2, <2>3, <2>4, <2>5, <2>6, <2>7 DEF ConvertGrammar, WCNFNext
<1>2. CASE SplitSymbol
  BY <1>2, LaterStep DEF SplitSymbol, wcnfRest
<1>3. CASE SplitReturn
  BY <1>3, LaterStep DEF SplitReturn, wcnfRest
<1>4. CASE ExplodeTerm
  BY <1>4, LaterStep DEF ExplodeTerm, wcnfRest
<1>5. CASE ExplodeNonterm
  BY <1>5, LaterStep DEF ExplodeNonterm, wcnfRest
<1>6. CASE ExplodeTableEnd
  BY <1>6, LaterStep DEF ExplodeTableEnd, wcnfRest
<1>7. CASE ExplodeRule
  BY <1>7, LaterStep DEF ExplodeRule, wcnfRest
<1>8. CASE ExplodeRulesEnd
  BY <1>8, LaterStep DEF ExplodeRulesEnd, wcnfRest
<1>9. CASE BuildMatrices
  BY <1>9, LaterStep DEF BuildMatrices, wcnfRest
<1>10. CASE UNCHANGED vars
  BY <1>10, NoClashFixed, TableFrame, TermsFrame
     DEF ConversionInv, RulesInv, vars, wcnfVars
<1> QED BY <1>1, <1>2, <1>3, <1>4, <1>5, <1>6, <1>7, <1>8, <1>9, <1>10 DEF Next, Step, Prepared

(***************************************************************************)
(* The inductive invariant of grammar_to_WCNF holds from the first         *)
(* iteration to the end of the preparation.                                *)
(***************************************************************************)
THEOREM ConversionInvariant == Spec => []ConversionInv
BY ConversionInit, ConversionNext, PTL DEF Spec

(***************************************************************************)
(* Every rule has the form grammar_split_terms_nonterms expects when the   *)
(* conversion returns, for any grammar whose labels do not clash.          *)
(***************************************************************************)
THEOREM ConversionNormalForm == Spec => []InNormalForm
<1>1. ASSUME ConversionInv PROVE InNormalForm
  <2>1. SUFFICES ASSUME NoClash, pc = "split", NEW k \in DOMAIN rules
                 PROVE  /\ IsNonterm(rules[k].first)
                        /\ \/ rules[k].second = NoSymbol /\ rules[k].third = NoSymbol
                           \/ IsTerm(rules[k].second) /\ rules[k].third = NoSymbol
                           \/ IsNonterm(rules[k].second) /\ IsNonterm(rules[k].third)
    BY DEF InNormalForm
  <2>2. /\ rules \in Seq(Rule) /\ k \in 1 .. Len(rules) /\ NormalRule(symbols, rules[k])
    BY <1>1, <2>1 DEF ConversionInv, RulesInv
  <2>3. \A s \in 1 .. Len(symbols) : s # NoSymbol
    BY DEF NoSymbol
  <2> QED BY <2>2, <2>3 DEF NormalRule, IsTerm, IsNonterm
<1> QED BY <1>1, ConversionInvariant, PTL

(***************************************************************************)
(* terms_set stays within its allocation, whatever its first capacity, for *)
(* any grammar without a rule of two terminals.                            *)
(***************************************************************************)
THEOREM TermsSetStaysInBounds == Spec => []TermsSetInBoundsSingle
<1>1. ConversionInv => TermsSetInBoundsSingle
  BY DEF ConversionInv, TermsInv
<1> QED BY <1>1, ConversionInvariant, PTL

(***************************************************************************)
(* No step of the preparation moves, relabels or reclassifies a symbol of  *)
(* the input.                                                              *)
(***************************************************************************)
THEOREM InputSymbolsStay == Spec => InputSymbolsFixed
<1>1. ASSUME ConversionInv, ConversionInv', [Next]_vars
      PROVE  [NoClash => \A s \in DOMAIN parsed.symbols : symbols'[s] = symbols[s]]_wcnfVars
  <2>1. parsed' = parsed
    BY <1>1 DEF Next, Step, Prepared, ConvertGrammar, WCNFNext, KeepRule, UnitRule, TwoTermsRule,
          OneTermRule, AddEpsRule, AddHelperRule, WCNFReturn, SplitSymbol, SplitReturn,
          ExplodeTerm, ExplodeNonterm, ExplodeTableEnd, ExplodeRule, ExplodeRulesEnd,
          BuildMatrices, wcnfRest, vars, wcnfVars
  <2>2. SUFFICES ASSUME NoClash, NEW s \in DOMAIN parsed.symbols
                 PROVE  symbols'[s] = symbols[s]
    OBVIOUS
  <2>3. TableOf(parsed, symbols, NoClash) /\ TableOf(parsed, symbols', NoClash)
    BY <1>1, <2>1, NoClashFixed DEF ConversionInv, TableInv
  <2>4. s \in 1 .. Len(parsed.symbols)
    <3>1. parsed \in ParserResults
      BY <1>1 DEF ConversionInv, TableInv
    <3>2. parsed.symbols \in Seq(Symbol(LabelRecord))
      BY <3>1, ParsedFacts
    <3> QED BY <3>2
  <2> QED BY <2>2, <2>3, <2>4 DEF TableOf, SameUpTo
<1> QED BY <1>1, ConversionInvariant, PTL DEF Spec, InputSymbolsFixed
-----------------------------------------------------------------------------
(* The buffer of the exploded rules                                         *)

\* What keeps explode_indices_CFL inside its buffer: one copy of a rule per
\* block, and a capacity that never falls behind what is written.
BufferInv ==
  /\ parsed \in ParserResults
  /\ block_count \in Nat /\ block_count >= 1
  /\ rules_capacity \in Nat
  /\ \E S : new_rules \in Seq(S)
  /\ Len(new_rules) <= rules_capacity

\* One rule of the grammar is exploded.
LEMMA ExplodeRuleFits ==
  ASSUME BufferInv, ExplodeRule
  PROVE  BufferInv'
<1> DEFINE n == Copies(rules[i])
           tail == [k \in 1 .. n |-> ExplodedRule(rules[i], k - 1)]
<1>1. /\ parsed \in ParserResults /\ block_count \in Nat /\ block_count >= 1
      /\ rules_capacity \in Nat /\ Len(new_rules) <= rules_capacity
  BY DEF BufferInv
<1>2. PICK S : new_rules \in Seq(S)
  BY DEF BufferInv
<1>3. /\ parsed' = parsed /\ block_count' = block_count
      /\ rules_capacity' = GrownBuffer /\ new_rules' = new_rules \o tail
  BY DEF ExplodeRule, wcnfRest
<1>4. n \in Nat /\ n <= block_count
  BY <1>1 DEF Copies
<1> HIDE DEF n
<1> DEFINE T == S \cup {ExplodedRule(rules[i], k - 1) : k \in 1 .. n}
<1>5. tail \in Seq(T) /\ Len(tail) = n
  <2>1. tail \in [1 .. n -> T]
    OBVIOUS
  <2> HIDE DEF tail, T
  <2> QED BY <1>4, <2>1
<1>6. new_rules \in Seq(T)
  BY <1>2
<1> HIDE DEF tail, T
<1>7. /\ new_rules \o tail \in Seq(T)
      /\ Len(new_rules \o tail) = Len(new_rules) + n
  BY <1>5, <1>6
<1>8. Len(new_rules) \in Nat
  BY <1>6
<1>9. rules_capacity' \in Nat /\ Len(new_rules) + n <= rules_capacity'
  BY <1>1, <1>3, <1>4, <1>8 DEF GrownBuffer
<1> QED BY <1>1, <1>3, <1>7, <1>9 DEF BufferInv

\* The other steps leave the buffer alone.
LEMMA BufferFrame ==
  ASSUME BufferInv, parsed' = parsed, rules_capacity' = rules_capacity,
         new_rules' = new_rules, block_count' = block_count \/ block_count' = 1
  PROVE  BufferInv'
BY DEF BufferInv

\* The buffer is empty, the blocks are the parser's.
LEMMA BufferInit ==
  ASSUME Init
  PROVE  BufferInv
<1>1. /\ parsed \in ParserResults /\ block_count = parsed.block_count
      /\ new_rules = <<>> /\ rules_capacity = 0
  BY DEF Init, WCNFInit
<1>2. new_rules \in Seq({}) /\ Len(new_rules) = 0
  BY <1>1
<1>3. block_count \in Nat /\ block_count >= 1
  BY <1>1, ParsedFacts
<1> QED BY <1>1, <1>2, <1>3 DEF BufferInv

\* Every step of the preparation stays inside the buffer.
LEMMA BufferNext ==
  ASSUME BufferInv, [Next]_vars
  PROVE  BufferInv'
<1>1. CASE ConvertGrammar
  <2>1. parsed' = parsed
    BY <1>1 DEF ConvertGrammar, WCNFNext, KeepRule, UnitRule, TwoTermsRule, OneTermRule,
                AddEpsRule, AddHelperRule, WCNFReturn
  <2> QED BY <1>1, <2>1, BufferFrame DEF ConvertGrammar, ruleVars
<1>2. CASE SplitSymbol
  BY <1>2, BufferFrame DEF SplitSymbol, wcnfRest, ruleVars
<1>3. CASE SplitReturn
  BY <1>3, BufferFrame DEF SplitReturn, wcnfRest, ruleVars
<1>4. CASE ExplodeTerm
  BY <1>4, BufferFrame DEF ExplodeTerm, wcnfRest, ruleVars
<1>5. CASE ExplodeNonterm
  BY <1>5, BufferFrame DEF ExplodeNonterm, wcnfRest, ruleVars
<1>6. CASE ExplodeTableEnd
  BY <1>6, BufferFrame DEF ExplodeTableEnd, wcnfRest, ruleVars
<1>7. CASE ExplodeRule
  BY <1>7, ExplodeRuleFits
<1>8. CASE ExplodeRulesEnd
  BY <1>8, BufferFrame DEF ExplodeRulesEnd, wcnfRest
<1>9. CASE BuildMatrices
  BY <1>9, BufferFrame DEF BuildMatrices, wcnfRest
<1>10. CASE UNCHANGED vars
  BY <1>10, BufferFrame DEF vars, wcnfVars, ruleVars
<1> QED BY <1>1, <1>2, <1>3, <1>4, <1>5, <1>6, <1>7, <1>8, <1>9, <1>10 DEF Next, Step, Prepared

(***************************************************************************)
(* explode_indices_CFL writes no rule past its buffer, for any grammar and *)
(* any number of blocks.                                                   *)
(***************************************************************************)
THEOREM RuleBufferStaysInBounds == Spec => []RuleBufferInBounds
<1>1. BufferInv => RuleBufferInBounds
  BY DEF BufferInv, RuleBufferInBounds
<1> QED BY <1>1, BufferInit, BufferNext, PTL DEF Spec

-----------------------------------------------------------------------------
(* The names in the converted table                                         *)

\* What the table is made of, whether or not labels clash: the parser's symbols,
\* changed only where a made-up label is met, then symbols with made-up labels.
NamesOf(p, list) ==
  /\ DistinctLabels(list)
  /\ \A s \in 1 .. Len(p.symbols) :
       p.symbols[s].label \notin MadeUp(p) => list[s] = p.symbols[s]
  /\ \A s \in 1 .. Len(list) : s > Len(p.symbols) => list[s].label \in MadeUp(p)

NamesInv == NamesOf(parsed, symbols)

\* Made-up labels are labels.
LEMMA MadeUpType ==
  ASSUME NEW p \in ParserResults, NEW str \in MadeUp(p)
  PROVE  str \in LabelRecord
<1>1. p.symbols \in Seq(Symbol(LabelRecord))
  BY ParsedFacts
<1>2. ASSUME NEW s \in DOMAIN p.symbols PROVE p.symbols[s].label \in LabelRecord
  <2>1. p.symbols[s] \in Symbol(LabelRecord)
    BY <1>1
  <2> QED BY <2>1 DEF Symbol
<1>3. str = EpsLabel \/ \E s \in DOMAIN p.symbols : str = HelperLabel(p.symbols[s].label)
  BY DEF MadeUp
<1> QED BY <1>2, <1>3, MadeUpLabels

\* Adding a made-up label keeps the names.
LEMMA NamesAdd ==
  ASSUME NEW p \in ParserResults, NEW list, Grown(p.symbols, list), NamesOf(p, list),
         NEW str \in MadeUp(p)
  PROVE  LET new == symbol_list_add_str(list, str, TRUE)
         IN Grown(p.symbols, new) /\ NamesOf(p, new)
<1> DEFINE new == symbol_list_add_str(list, str, TRUE)
           at == AddedIndex(list, str)
<1>1. /\ list \in Seq(Symbol(LabelRecord)) /\ str \in LabelRecord
      /\ Len(p.symbols) \in Nat /\ Len(list) \in Nat /\ Len(p.symbols) <= Len(list)
  BY MadeUpType, ParsedFacts DEF Grown
<1>2. IsAdded(LabelRecord, list, str, TRUE, new, at)
  BY <1>1, AddStr
<1>3. DistinctLabels(new)
  BY <1>1, AddStrKeepsDistinct DEF NamesOf
<1>4. Grown(list, new)
  BY <1>1, AddNonterm
<1> HIDE DEF new, at
<1>5. Grown(p.symbols, new)
  BY <1>1, <1>4, GrownTrans
<1>6. ASSUME NEW s \in 1 .. Len(p.symbols), p.symbols[s].label \notin MadeUp(p)
      PROVE  new[s] = p.symbols[s]
  <2>1. s \in 1 .. Len(list) /\ list[s] = p.symbols[s]
    BY <1>1, <1>6 DEF NamesOf
  <2>2. s # at
    BY <1>2, <1>6, <2>1 DEF IsAdded
  <2> QED BY <1>2, <2>1, <2>2 DEF IsAdded
<1>7. ASSUME NEW s \in 1 .. Len(new), s > Len(p.symbols) PROVE new[s].label \in MadeUp(p)
  <2>1. CASE s <= Len(list)
    <3>1. s \in 1 .. Len(list)
      BY <2>1
    <3> QED BY <1>2, <1>7, <3>1 DEF IsAdded, NamesOf
  <2>2. CASE s > Len(list)
    BY <1>2, <2>2 DEF IsAdded
  <2> QED BY <1>1, <2>1, <2>2
<1> QED BY <1>3, <1>5, <1>6, <1>7 DEF NamesOf, new

\* What a step of the conversion does to the table: up to two calls of
\* symbol_list_add_str with made-up labels.
TableCalls ==
  \/ symbols' = symbols
  \/ \E str \in MadeUp(parsed) : symbols' = symbol_list_add_str(symbols, str, TRUE)
  \/ \E str1, str2 \in MadeUp(parsed) :
       symbols' = symbol_list_add_str(symbol_list_add_str(symbols, str1, TRUE), str2, TRUE)

LEMMA HelperMadeUp ==
  ASSUME parsed \in ParserResults, NEW s, InputTerm(parsed, s)
  PROVE  HelperLabel(parsed.symbols[s].label) \in MadeUp(parsed)
<1>1. s \in DOMAIN parsed.symbols /\ ~parsed.symbols[s].is_nonterm
  BY ParsedFacts DEF InputTerm
<1> QED BY <1>1 DEF MadeUp

LEMMA EpsMadeUp == EpsLabel \in MadeUp(parsed)
BY DEF MadeUp

LEMMA ConversionCalls ==
  ASSUME ConversionInv, ConvertGrammar
  PROVE  TableCalls
<1>1. TableInv /\ TermsInv /\ RulesInv /\ parsed \in ParserResults
  BY DEF ConversionInv, TableInv
<1>2. CASE KeepRule \/ WCNFReturn
  BY <1>2 DEF KeepRule, WCNFReturn, TableCalls
<1>3. CASE UnitRule
  BY <1>3, EpsMadeUp DEF UnitRule, TableCalls
<1>4. CASE TwoTermsRule
  <2>1. /\ AtRule /\ IsTerm(rules[i].second) /\ IsTerm(rules[i].third)
        /\ symbols' = symbol_list_add_str(
             symbol_list_add_str(symbols, HelperLabel(symbols[rules[i].second].label), TRUE),
             HelperLabel(symbols[rules[i].third].label), TRUE)
    BY <1>4 DEF TwoTermsRule
  <2>2. /\ InputTerm(parsed, rules[i].second) /\ InputTerm(parsed, rules[i].third)
        /\ symbols[rules[i].second].label = parsed.symbols[rules[i].second].label
        /\ symbols[rules[i].third].label = parsed.symbols[rules[i].third].label
    BY <1>1, <2>1, RuleAt
  <2> QED BY <1>1, <2>1, <2>2, HelperMadeUp DEF TableCalls
<1>5. CASE OneTermRule
  <2>1. PICK at \in {"second", "third"} :
          /\ IsTerm(rules[i][at])
          /\ symbols' = symbol_list_add_str(symbols, HelperLabel(symbols[rules[i][at]].label), TRUE)
    BY <1>5 DEF OneTermRule
  <2>2. AtRule /\ rules[i][at] \in {rules[i].second, rules[i].third}
    BY <1>5 DEF OneTermRule
  <2>3. /\ InputTerm(parsed, rules[i][at])
        /\ symbols[rules[i][at]].label = parsed.symbols[rules[i][at]].label
    BY <1>1, <2>1, <2>2, RuleAt
  <2> QED BY <1>1, <2>1, <2>3, HelperMadeUp DEF TableCalls
<1>6. CASE AddEpsRule
  BY <1>6, EpsMadeUp DEF AddEpsRule, TableCalls
<1>7. CASE AddHelperRule
  <2>1. /\ pc = "helpers" /\ i <= Len(terms_set)
        /\ symbols' = symbol_list_add_str(symbols, HelperLabel(symbols[terms_set[i]].label), TRUE)
    BY <1>7 DEF AddHelperRule
  <2>2. i \in 1 .. Len(terms_set)
    BY <1>1, <2>1 DEF RulesInv, TermsInv
  <2>3. InputTerm(parsed, terms_set[i])
    BY <1>1, <2>2 DEF TermsInv
  <2>4. symbols[terms_set[i]].label = parsed.symbols[terms_set[i]].label
    BY <1>1, <2>3 DEF TableInv, TableOf, Grown, InputTerm
  <2> QED BY <1>1, <2>1, <2>3, <2>4, HelperMadeUp DEF TableCalls
<1> QED
  BY <1>2, <1>3, <1>4, <1>5, <1>6, <1>7 DEF ConvertGrammar, WCNFNext

\* What ConvertGrammar leaves to the later parts.
LEMMA ConvertFrame ==
  ASSUME ConvertGrammar
  PROVE  /\ parsed' = parsed /\ UNCHANGED <<splitVars, tableVars, ruleVars>>
         /\ pc \in {"wcnf", "helpers"} /\ pc' \in {"wcnf", "helpers", "split"}
         /\ pc' = "split" => i' = 1 /\ symbols' = symbols /\ rules' = rules /\ pc = "helpers"
BY DEF ConvertGrammar, WCNFNext, KeepRule, UnitRule, TwoTermsRule, OneTermRule,
       AddEpsRule, AddHelperRule, WCNFReturn, AtRule

\* The other steps, as far as they concern the table.
LEMMA TableRests ==
  ASSUME [Next]_vars, ~ConvertGrammar
  PROVE  parsed' = parsed /\ symbols' = symbols
BY DEF Next, Step, Prepared, SplitSymbol, SplitReturn, ExplodeTerm, ExplodeNonterm,
       ExplodeTableEnd, ExplodeRule, ExplodeRulesEnd, BuildMatrices, wcnfRest, vars, wcnfVars

LEMMA NamesNext ==
  ASSUME ConversionInv, NamesInv, [Next]_vars
  PROVE  NamesInv'
<1>1. /\ parsed \in ParserResults /\ Grown(parsed.symbols, symbols)
      /\ NamesOf(parsed, symbols)
  BY DEF ConversionInv, TableInv, TableOf, NamesInv
<1>2. CASE ConvertGrammar
  <2>1. TableCalls /\ parsed' = parsed
    BY <1>2, ConversionCalls, ConvertFrame
  <2>2. CASE symbols' = symbols
    BY <1>1, <2>1, <2>2 DEF NamesInv
  <2>3. CASE \E str \in MadeUp(parsed) : symbols' = symbol_list_add_str(symbols, str, TRUE)
    BY <1>1, <2>1, <2>3, NamesAdd DEF NamesInv
  <2>4. CASE \E str1, str2 \in MadeUp(parsed) :
               symbols' = symbol_list_add_str(symbol_list_add_str(symbols, str1, TRUE), str2, TRUE)
    <3>1. PICK str1 \in MadeUp(parsed), str2 \in MadeUp(parsed) :
            symbols' = symbol_list_add_str(symbol_list_add_str(symbols, str1, TRUE), str2, TRUE)
      BY <2>4
    <3> DEFINE mid == symbol_list_add_str(symbols, str1, TRUE)
    <3>2. Grown(parsed.symbols, mid) /\ NamesOf(parsed, mid)
      BY <1>1, NamesAdd
    <3>3. symbols' = symbol_list_add_str(mid, str2, TRUE)
      BY <3>1
    <3> HIDE DEF mid
    <3>4. NamesOf(parsed, symbols')
      BY <1>1, <3>2, <3>3, NamesAdd
    <3> QED BY <2>1, <3>4 DEF NamesInv
  <2> QED BY <2>1, <2>2, <2>3, <2>4 DEF TableCalls
<1>3. CASE ~ConvertGrammar
  BY <1>3, TableRests DEF NamesInv
<1> QED BY <1>2, <1>3

LEMMA NamesInit == ASSUME Init PROVE NamesInv
<1>1. parsed \in ParserResults /\ symbols = parsed.symbols
  BY DEF Init, WCNFInit
<1>2. DistinctLabels(parsed.symbols)
  BY <1>1, WCNFAssumption DEF ParserPromise
<1>3. Len(parsed.symbols) \in Nat
  BY <1>1, ParsedFacts
<1> QED BY <1>1, <1>2, <1>3 DEF NamesInv, NamesOf

-----------------------------------------------------------------------------
(* The split: terminals and nonterminals in tables of their own             *)

Converting == {"wcnf", "helpers"}
Exploding == {"explode_terms", "explode_nonterms", "explode_rules"}

\* The table the symbol goes to has its label.
Placed(sym, ts, ns) ==
  /\ sym.is_nonterm = TRUE => sym.label \in LabelsOf(ns)
  /\ sym.is_nonterm = FALSE => sym.label \in LabelsOf(ts)

\* A part of the converted table.
Parted(all, list, is_nonterm) ==
  /\ list \in Seq(Symbol(LabelRecord)) /\ DistinctLabels(list)
  /\ \A t \in 1 .. Len(list) :
       /\ list[t].is_nonterm = is_nonterm
       /\ \E s \in 1 .. Len(all) : all[s] = list[t]

PartsInv ==
  /\ pc \in Converting => terms = <<>> /\ nonterms = <<>>
  /\ Parted(symbols, terms, FALSE) /\ Parted(symbols, nonterms, TRUE)
  /\ pc = "split" => /\ i \in Nat /\ i >= 1
                     /\ \A s \in 1 .. Len(symbols) : s < i => Placed(symbols[s], terms, nonterms)
  /\ pc \notin Converting \cup {"split"} =>
       \A s \in 1 .. Len(symbols) : Placed(symbols[s], terms, nonterms)

\* A symbol is its two fields.
LEMMA SymbolEq ==
  ASSUME NEW L, NEW a \in Symbol(L), NEW b \in Symbol(L), a.label = b.label,
         a.is_nonterm = b.is_nonterm
  PROVE  a = b
<1>1. a = [label |-> a.label, is_nonterm |-> a.is_nonterm]
  BY DEF Symbol
<1>2. b = [label |-> b.label, is_nonterm |-> b.is_nonterm]
  BY DEF Symbol
<1>3. [label |-> a.label, is_nonterm |-> a.is_nonterm]
        = [label |-> b.label, is_nonterm |-> b.is_nonterm]
  OBVIOUS
<1> QED BY <1>1, <1>2, <1>3

\* A symbol of the converted table is added to its part.
LEMMA PartAdd ==
  ASSUME NEW all \in Seq(Symbol(LabelRecord)), NEW b \in BOOLEAN, NEW list, Parted(all, list, b),
         NEW s \in 1 .. Len(all), all[s].is_nonterm = b
  PROVE  LET new == symbol_list_add_str(list, all[s].label, b)
         IN /\ Parted(all, new, b) /\ all[s].label \in LabelsOf(new)
            /\ \A str \in LabelsOf(list) : str \in LabelsOf(new)
<1> DEFINE str == all[s].label
           new == symbol_list_add_str(list, str, b)
           at == AddedIndex(list, str)
<1>1. /\ all[s] \in Symbol(LabelRecord) /\ str \in LabelRecord
      /\ list \in Seq(Symbol(LabelRecord)) /\ DistinctLabels(list)
  <2>1. all[s] \in Symbol(LabelRecord)
    OBVIOUS
  <2>2. str \in LabelRecord
    BY <2>1 DEF Symbol
  <2> QED BY <2>1, <2>2 DEF Parted
<1>2. IsAdded(LabelRecord, list, str, b, new, at) /\ DistinctLabels(new)
  BY <1>1, AddStr, AddStrKeepsDistinct
<1> HIDE DEF new, at
<1>3. /\ new \in Seq(Symbol(LabelRecord)) /\ at \in 1 .. Len(new) /\ Len(new) >= Len(list)
      /\ new[at].label = str /\ DOMAIN new = 1 .. Len(new) /\ DOMAIN list = 1 .. Len(list)
  BY <1>1, <1>2 DEF IsAdded
<1>4. ASSUME NEW t \in 1 .. Len(new)
      PROVE  new[t].is_nonterm = b /\ \E q \in 1 .. Len(all) : all[q] = new[t]
  <2>1. new[t] \in Symbol(LabelRecord)
    BY <1>3
  <2>2. CASE t > Len(list)
    <3>1. new[t].label = str /\ new[t].is_nonterm = b
      BY <1>2, <2>2, <1>3 DEF IsAdded
    <3>2. new[t] = all[s]
      BY <1>1, <2>1, <3>1, SymbolEq
    <3> QED BY <3>1, <3>2
  <2>3. CASE ~(t > Len(list))
    <3>1. t \in 1 .. Len(list)
      BY <1>1, <2>3
    <3>2. list[t] \in Symbol(LabelRecord) /\ list[t].is_nonterm = b
      BY <1>1, <3>1 DEF Parted
    <3>3. new[t].label = list[t].label /\ new[t].is_nonterm = b
      BY <1>2, <3>1, <3>2 DEF IsAdded
    <3>4. new[t] = list[t]
      BY <2>1, <3>2, <3>3, SymbolEq
    <3> QED BY <3>1, <3>3, <3>4 DEF Parted
  <2> QED BY <2>2, <2>3
<1>5. Parted(all, new, b)
  BY <1>2, <1>3, <1>4 DEF Parted
<1>6. str \in LabelsOf(new)
  BY <1>3 DEF LabelsOf
<1>7. ASSUME NEW l \in LabelsOf(list) PROVE l \in LabelsOf(new)
  <2>1. PICK t \in 1 .. Len(list) : l = list[t].label
    BY <1>3 DEF LabelsOf
  <2>2. t \in 1 .. Len(new) /\ new[t].label = l
    BY <1>1, <1>2, <1>3, <2>1 DEF IsAdded
  <2> QED BY <1>3, <2>2 DEF LabelsOf
<1> QED BY <1>5, <1>6, <1>7 DEF new

\* What is looked up in a part: found if its label is there.
LEMMA InListFinds ==
  ASSUME NEW list \in Seq(Symbol(LabelRecord)), NEW s
  PROVE  /\ InList(list, s) \in 0 .. Len(list)
         /\ symbols[s].label \in LabelsOf(list) =>
              /\ InList(list, s) \in 1 .. Len(list)
              /\ list[InList(list, s)].label = symbols[s].label
         /\ symbols[s].label \notin LabelsOf(list) => InList(list, s) = NoSymbol
<1>1. Len(list) \in Nat
  OBVIOUS
<1> QED BY <1>1, GetIndexFindsLabel DEF InList, NoSymbol

LEMMA PartsInit == ASSUME Init PROVE PartsInv
<1>1. pc = "wcnf" /\ terms = <<>> /\ nonterms = <<>>
  BY DEF Init, WCNFInit
<1>2. <<>> \in Seq(Symbol(LabelRecord)) /\ Len(<<>>) = 0 /\ DOMAIN <<>> = {}
  OBVIOUS
<1>3. \A all, b : Parted(all, <<>>, b)
  BY <1>2 DEF Parted, DistinctLabels
<1> QED BY <1>1, <1>3 DEF PartsInv, Converting

LEMMA PartsNext ==
  ASSUME ConversionInv, PartsInv, [Next]_vars
  PROVE  PartsInv'
<1>1. symbols \in Seq(Symbol(LabelRecord)) /\ Len(symbols) \in Nat
  BY DEF ConversionInv, TableInv, TableOf, Grown
<1>2. CASE ConvertGrammar
  <2>1. /\ UNCHANGED <<terms, nonterms>> /\ pc \in Converting
        /\ pc' \in {"wcnf", "helpers", "split"} /\ (pc' = "split" => i' = 1)
    BY <1>2, ConvertFrame DEF Converting, splitVars
  <2>2. terms' = <<>> /\ nonterms' = <<>>
    BY <2>1 DEF PartsInv
  <2>3. <<>> \in Seq(Symbol(LabelRecord)) /\ Len(<<>>) = 0 /\ DOMAIN <<>> = {}
    OBVIOUS
  <2>4. \A all, b : Parted(all, <<>>, b)
    BY <2>3 DEF Parted, DistinctLabels
  <2>5. Parted(symbols', terms', FALSE) /\ Parted(symbols', nonterms', TRUE)
    BY <2>2, <2>4
  <2>6. pc' \notin Converting \cup {"split"} => FALSE
    BY <2>1 DEF Converting
  <2>7. ASSUME pc' = "split", NEW s \in 1 .. Len(symbols'), s < i'
        PROVE  FALSE
    BY <2>1, <2>7
  <2>8. pc' = "split" => i' \in Nat /\ i' >= 1
    BY <2>1
  <2> QED BY <2>2, <2>5, <2>6, <2>7, <2>8 DEF PartsInv
<1>3. CASE SplitSymbol
  <2>1. /\ pc = "split" /\ pc' = "split" /\ i <= Len(symbols) /\ i' = i + 1 /\ symbols' = symbols
        /\ i \in Nat /\ i >= 1
        /\ Parted(symbols, terms, FALSE) /\ Parted(symbols, nonterms, TRUE)
        /\ \A s \in 1 .. Len(symbols) : s < i => Placed(symbols[s], terms, nonterms)
    BY <1>3 DEF SplitSymbol, wcnfRest, PartsInv
  <2>2. i \in 1 .. Len(symbols) /\ symbols[i] \in Symbol(LabelRecord)
    BY <1>1, <2>1
  <2>3. /\ Parted(symbols, terms', FALSE) /\ Parted(symbols, nonterms', TRUE)
        /\ Placed(symbols[i], terms', nonterms')
        /\ \A str \in LabelsOf(terms) : str \in LabelsOf(terms')
        /\ \A str \in LabelsOf(nonterms) : str \in LabelsOf(nonterms')
    <3>1. CASE symbols[i].is_nonterm = TRUE
      <4>1. nonterms' = symbol_list_add_str(nonterms, symbols[i].label, TRUE) /\ terms' = terms
        BY <1>3, <3>1 DEF SplitSymbol
      <4> QED BY <1>1, <2>1, <2>2, <3>1, <4>1, PartAdd DEF Placed
    <3>2. CASE symbols[i].is_nonterm = FALSE
      <4>1. terms' = symbol_list_add_str(terms, symbols[i].label, FALSE) /\ nonterms' = nonterms
        BY <1>3, <3>2 DEF SplitSymbol
      <4> QED BY <1>1, <2>1, <2>2, <3>2, <4>1, PartAdd DEF Placed
    <3>3. symbols[i].is_nonterm \in BOOLEAN
      BY <2>2 DEF Symbol
    <3> QED BY <3>1, <3>2, <3>3
  <2>4. ASSUME NEW s \in 1 .. Len(symbols), s < i + 1 PROVE Placed(symbols[s], terms', nonterms')
    <3>1. CASE s = i
      BY <2>3, <3>1
    <3>2. CASE s < i
      BY <2>1, <2>3, <3>2 DEF Placed
    <3> QED BY <2>1, <2>4, <3>1, <3>2
  <2>5. /\ pc' \notin Converting /\ pc' \in Converting \cup {"split"}
        /\ i' \in Nat /\ i' >= 1
        /\ Parted(symbols', terms', FALSE) /\ Parted(symbols', nonterms', TRUE)
    <3>1. pc' = "split" /\ i' = i + 1 /\ i \in Nat /\ symbols' = symbols
      BY <2>1
    <3>2. pc' \notin Converting /\ pc' \in Converting \cup {"split"} /\ i' \in Nat /\ i' >= 1
      BY <3>1 DEF Converting
    <3>3. Parted(symbols', terms', FALSE) /\ Parted(symbols', nonterms', TRUE)
      BY <2>3, <3>1, Zenon
    <3> QED BY <3>2, <3>3
  <2>6. \A s \in 1 .. Len(symbols') : s < i' => Placed(symbols'[s], terms', nonterms')
    <3>1. symbols' = symbols /\ i' = i + 1
      BY <2>1
    <3> QED BY <2>4, <3>1
  <2> QED BY <2>5, <2>6 DEF PartsInv
<1>4. CASE SplitReturn
  <2>1. /\ pc = "split" /\ pc' = "explode_terms" /\ i > Len(symbols)
        /\ UNCHANGED <<symbols, terms, nonterms>>
    BY <1>4 DEF SplitReturn, wcnfRest
  <2>2. \A s \in 1 .. Len(symbols) : Placed(symbols[s], terms, nonterms)
    BY <1>1, <2>1 DEF PartsInv
  <2> QED BY <2>1, <2>2 DEF PartsInv, Converting
<1>5. ASSUME UNCHANGED <<symbols, terms, nonterms>>, pc \notin Converting \cup {"split"},
             pc' \notin Converting \cup {"split"}
      PROVE  PartsInv'
  BY <1>5 DEF PartsInv
<1>6. CASE ExplodeTerm \/ ExplodeNonterm \/ ExplodeTableEnd \/ ExplodeRule \/ ExplodeRulesEnd \/ BuildMatrices
  <2>1. /\ UNCHANGED <<symbols, terms, nonterms>>
        /\ pc \in {"explode_terms", "explode_nonterms", "explode_rules", "matrices"}
        /\ pc' \in {"explode_terms", "explode_nonterms", "explode_rules", "matrices", "prepared"}
    BY <1>6 DEF ExplodeTerm, ExplodeNonterm, ExplodeTableEnd, ExplodeRule, ExplodeRulesEnd,
                    BuildMatrices, wcnfRest, splitVars
  <2> QED BY <1>5, <2>1 DEF Converting
<1>7. CASE UNCHANGED vars
  <2>1. UNCHANGED <<symbols, terms, nonterms, pc, i>>
    BY <1>7 DEF vars, wcnfVars, splitVars
  <2> QED BY <2>1 DEF PartsInv
<1> QED BY <1>2, <1>3, <1>4, <1>6, <1>7 DEF Next, Step, Prepared

-----------------------------------------------------------------------------
(* explode_indices_CFL: the exploded tables                                 *)

\* How many symbols one is exploded into, and the nth of them.
Blocks(c, sym) == IF IsIndexed(sym.label) THEN c ELSE 1
Block(sym, n) == [label |-> symbol_numerate(sym.label, n), is_nonterm |-> sym.is_nonterm]

\* Block n of symbol s was added: the loops are past it at symbol m + 1, block next.
Passed(s, n, m, next) == s <= m \/ (s = m + 1 /\ n < next)

\* The types of a new table and its map, whether or not labels clash.
MapTypes(new, map, m, next) ==
  /\ new \in Seq(Symbol(LabelRecord)) /\ DistinctLabels(new) /\ map \in Seq(Nat)
  /\ Len(map) = (IF next = 0 THEN m ELSE m + 1)
  /\ \A s \in 1 .. Len(map) : map[s] \in 1 .. Len(new)

\* The blocks added so far are where the map says, and nothing else is there.
BlocksOfTable(c, list, new, map, m, next) ==
  /\ \A s \in 1 .. Len(list) : \A n \in 0 .. Blocks(c, list[s]) - 1 :
       Passed(s, n, m, next) =>
         map[s] + n \in 1 .. Len(new) /\ new[map[s] + n] = Block(list[s], n)
  /\ next > 0 => map[m + 1] + next = Len(new) + 1
  /\ \A q \in 1 .. Len(new) :
       \E s \in 1 .. Len(list) : \E n \in 0 .. Blocks(c, list[s]) - 1 :
         Passed(s, n, m, next) /\ new[q].label = symbol_numerate(list[s].label, n)

\* Two symbols of the table never become the same label.
NumeratesApart(c, list) ==
  \A s, t \in 1 .. Len(list) :
    \A n \in 0 .. Blocks(c, list[s]) - 1 : \A q \in 0 .. Blocks(c, list[t]) - 1 :
      symbol_numerate(list[s].label, n) = symbol_numerate(list[t].label, q) => s = t /\ n = q

TableExploded(c, list, new, map, m, next) ==
  /\ MapTypes(new, map, m, next)
  /\ NumeratesApart(c, list) => BlocksOfTable(c, list, new, map, m, next)

\* Where the loops may stand.
AtBlock(c, list, m, next) ==
  /\ m \in 0 .. Len(list) /\ next \in Nat
  /\ next > 0 => m < Len(list) /\ next < Blocks(c, list[m + 1])

\* The loops go to the next block, or to the next symbol.
Advance(c, label, m, n, m2, n2) ==
  \/ /\ IsIndexed(label) /\ n + 1 < c
     /\ m2 = m /\ n2 = n + 1
  \/ /\ ~IsIndexed(label) \/ ~(n + 1 < c)
     /\ m2 = m + 1 /\ n2 = 0

\* Just block n of symbol m + 1 is passed by that.
OneMorePassed(c, list, m, n, m2, n2) ==
  \A s \in 1 .. Len(list) : \A q \in 0 .. Blocks(c, list[s]) - 1 :
    Passed(s, q, m2, n2) <=> Passed(s, q, m, n) \/ (s = m + 1 /\ q = n)

LEMMA NumerateType ==
  ASSUME NEW label \in LabelRecord, NEW n \in Nat
  PROVE  symbol_numerate(label, n) \in LabelRecord
BY DEF symbol_numerate, LabelRecord

\* An empty table.
LEMMA NothingExploded ==
  ASSUME NEW c, NEW list \in Seq(Symbol(LabelRecord))
  PROVE  TableExploded(c, list, <<>>, <<>>, 0, 0) /\ AtBlock(c, list, 0, 0)
<1>1. /\ <<>> \in Seq(Symbol(LabelRecord)) /\ <<>> \in Seq(Nat) /\ Len(<<>>) = 0
      /\ Len(list) \in Nat
  OBVIOUS
<1>2. \A s \in 1 .. Len(list) : \A n : ~Passed(s, n, 0, 0) \/ (s = 1 /\ n < 0)
  BY DEF Passed
<1>3. \A s \in 1 .. Len(list) : \A n \in 0 .. Blocks(c, list[s]) - 1 : ~Passed(s, n, 0, 0)
  BY <1>2
<1>4. MapTypes(<<>>, <<>>, 0, 0)
  BY <1>1 DEF MapTypes, DistinctLabels
<1>5. BlocksOfTable(c, list, <<>>, <<>>, 0, 0)
  BY <1>1, <1>3 DEF BlocksOfTable
<1> QED BY <1>1, <1>4, <1>5 DEF TableExploded, AtBlock

\* What one iteration of the inner loop adds to what was passed.
LEMMA PassedNext ==
  ASSUME NEW c \in Nat, c >= 1, NEW list \in Seq(Symbol(LabelRecord)), NEW m \in Nat, NEW n \in Nat,
         AtBlock(c, list, m, n), m < Len(list), NEW m2, NEW n2,
         Advance(c, list[m + 1].label, m, n, m2, n2)
  PROVE  /\ m + 1 \in 1 .. Len(list) /\ m \in Nat /\ n \in Nat
         /\ n \in 0 .. Blocks(c, list[m + 1]) - 1
         /\ AtBlock(c, list, m2, n2)
         /\ OneMorePassed(c, list, m, n, m2, n2)
<1>1. m \in Nat /\ n \in Nat /\ Len(list) \in Nat /\ m + 1 \in 1 .. Len(list)
  BY DEF AtBlock
<1>2. Blocks(c, list[m + 1]) \in Nat /\ n < Blocks(c, list[m + 1])
  BY <1>1 DEF AtBlock, Blocks
<1>3. CASE IsIndexed(list[m + 1].label) /\ n + 1 < c
  <2>1. m2 = m /\ n2 = n + 1 /\ n2 < Blocks(c, list[m + 1])
    BY <1>3 DEF Blocks, Advance
  <2> QED BY <1>1, <1>2, <2>1 DEF AtBlock, Passed, OneMorePassed
<1>4. CASE ~(IsIndexed(list[m + 1].label) /\ n + 1 < c)
  <2>1. m2 = m + 1 /\ n2 = 0 /\ Blocks(c, list[m + 1]) = n + 1
    BY <1>1, <1>2, <1>4 DEF Blocks, Advance
  <2>2. AtBlock(c, list, m2, n2)
    BY <1>1, <2>1 DEF AtBlock
  <2>3. ASSUME NEW s \in 1 .. Len(list), NEW q \in 0 .. Blocks(c, list[s]) - 1
        PROVE  Passed(s, q, m2, n2) <=> Passed(s, q, m, n) \/ (s = m + 1 /\ q = n)
    BY <1>1, <2>1 DEF Passed
  <2> QED BY <1>1, <1>2, <2>2, <2>3 DEF OneMorePassed
<1> QED BY <1>3, <1>4

\* A label that is not in the table is appended.
LEMMA AddFresh ==
  ASSUME NEW L, NEW list \in Seq(Symbol(L)), NEW str, str \notin LabelsOf(list), NEW b
  PROVE  /\ symbol_list_add_str(list, str, b) = Append(list, [label |-> str, is_nonterm |-> b])
         /\ AddedIndex(list, str) = Len(list) + 1
<1>1. symbol_list_get_index_str(list, str) = NoSymbol
  BY GetIndexFindsLabel
<1> QED BY <1>1 DEF symbol_list_add_str, AddedIndex

\* The types after one iteration, clash or no clash.
LEMMA BlockTypes ==
  ASSUME NEW m \in Nat, NEW n \in Nat, NEW new, NEW map, MapTypes(new, map, m, n),
         NEW str \in LabelRecord, NEW b \in BOOLEAN,
         NEW new2, new2 = symbol_list_add_str(new, str, b),
         NEW map2, n = 0 => map2 = Append(map, AddedIndex(new, str)), n # 0 => map2 = map,
         NEW m2, NEW n2, (m2 = m /\ n2 = n + 1) \/ (m2 = m + 1 /\ n2 = 0)
  PROVE  MapTypes(new2, map2, m2, n2)
<1>1. new \in Seq(Symbol(LabelRecord)) /\ map \in Seq(Nat)
  BY DEF MapTypes
<1>2. IsAdded(LabelRecord, new, str, b, new2, AddedIndex(new, str)) /\ DistinctLabels(new2)
  BY <1>1, AddStr, AddStrKeepsDistinct DEF MapTypes
<1>3. /\ new2 \in Seq(Symbol(LabelRecord)) /\ Len(new2) >= Len(new)
      /\ AddedIndex(new, str) \in 1 .. Len(new2)
      /\ Len(new) \in Nat /\ Len(new2) \in Nat /\ Len(map) \in Nat
  BY <1>1, <1>2 DEF IsAdded
<1>4. \A s \in 1 .. Len(map) : map[s] \in 1 .. Len(new2)
  BY <1>3 DEF MapTypes
<1>5. CASE n = 0
  <2> DEFINE at == AddedIndex(new, str)
  <2>1. map2 = Append(map, at) /\ Len(map) = m /\ at \in Nat
    BY <1>3, <1>5 DEF MapTypes
  <2> HIDE DEF at
  <2>2. /\ map2 \in Seq(Nat) /\ Len(map2) = m + 1
        /\ \A s \in 1 .. Len(map) : map2[s] = map[s]
        /\ map2[m + 1] = at
    BY <1>1, <2>1
  <2>3. ASSUME NEW s \in 1 .. Len(map2) PROVE map2[s] \in 1 .. Len(new2)
    BY <1>3, <1>4, <2>1, <2>2 DEF at
  <2>4. Len(map2) = IF n2 = 0 THEN m2 ELSE m2 + 1
    BY <1>5, <2>2
  <2> QED BY <1>2, <1>3, <2>2, <2>3, <2>4 DEF MapTypes
<1>6. CASE n # 0
  <2>1. map2 = map /\ Len(map) = m + 1
    BY <1>6 DEF MapTypes
  <2>2. Len(map) = IF n2 = 0 THEN m2 ELSE m2 + 1
    BY <1>6, <2>1
  <2> QED BY <1>1, <1>2, <1>3, <1>4, <2>1, <2>2 DEF MapTypes
<1> QED BY <1>5, <1>6

\* One iteration of the inner loop of explode_indices_CFL.
LEMMA BlockAdded ==
  ASSUME NEW c \in Nat, c >= 1, NEW list \in Seq(Symbol(LabelRecord)), NEW m \in Nat, NEW n \in Nat,
         AtBlock(c, list, m, n), m < Len(list),
         NEW new, NEW map, TableExploded(c, list, new, map, m, n),
         NEW str, str = symbol_numerate(list[m + 1].label, n),
         NEW new2, new2 = symbol_list_add_str(new, str, list[m + 1].is_nonterm),
         NEW map2, n = 0 => map2 = Append(map, AddedIndex(new, str)), n # 0 => map2 = map,
         NEW m2, NEW n2,
         Advance(c, list[m + 1].label, m, n, m2, n2)
  PROVE  TableExploded(c, list, new2, map2, m2, n2) /\ AtBlock(c, list, m2, n2)
<1>1. /\ m + 1 \in 1 .. Len(list) /\ m \in Nat /\ n \in Nat
      /\ n \in 0 .. Blocks(c, list[m + 1]) - 1 /\ AtBlock(c, list, m2, n2)
      /\ OneMorePassed(c, list, m, n, m2, n2)
  BY PassedNext
<1> DEFINE sym == list[m + 1]
<1>2. sym \in Symbol(LabelRecord)
  BY <1>1
<1>3. sym.label \in LabelRecord /\ sym.is_nonterm \in BOOLEAN
  BY <1>2 DEF Symbol
<1>4. str \in LabelRecord
  BY <1>1, <1>3, NumerateType
<1>5. MapTypes(new, map, m, n)
  BY DEF TableExploded
<1>6. (m2 = m /\ n2 = n + 1) \/ (m2 = m + 1 /\ n2 = 0)
  BY DEF Advance
<1>7. MapTypes(new2, map2, m2, n2)
  <2> DEFINE b == list[m + 1].is_nonterm
  <2>1. b \in BOOLEAN /\ new2 = symbol_list_add_str(new, str, b)
    BY <1>3
  <2> HIDE DEF b
  <2> QED BY <1>1, <1>4, <1>5, <1>6, <2>1, BlockTypes
<1>8. ASSUME NumeratesApart(c, list) PROVE BlocksOfTable(c, list, new2, map2, m2, n2)
  <2>1. BlocksOfTable(c, list, new, map, m, n)
    BY <1>8 DEF TableExploded
  <2>2. /\ new \in Seq(Symbol(LabelRecord)) /\ map \in Seq(Nat)
        /\ Len(new) \in Nat /\ Len(map) \in Nat /\ DOMAIN new = 1 .. Len(new)
    BY <1>5 DEF MapTypes
  <2>3. ~Passed(m + 1, n, m, n)
    BY <1>1 DEF Passed
  <2>4. str \notin LabelsOf(new)
    <3>1. ASSUME NEW q \in 1 .. Len(new), new[q].label = str PROVE FALSE
      <4>1. PICK s \in 1 .. Len(list) : \E k \in 0 .. Blocks(c, list[s]) - 1 :
              Passed(s, k, m, n) /\ new[q].label = symbol_numerate(list[s].label, k)
        BY <2>1 DEF BlocksOfTable
      <4>2. PICK k \in 0 .. Blocks(c, list[s]) - 1 :
              Passed(s, k, m, n) /\ new[q].label = symbol_numerate(list[s].label, k)
        BY <4>1
      <4>3. s = m + 1 /\ k = n
        <5>1. symbol_numerate(list[s].label, k) = symbol_numerate(list[m + 1].label, n)
          BY <3>1, <4>2
        <5> QED BY <1>1, <1>8, <5>1 DEF NumeratesApart
      <4> QED BY <2>3, <4>2, <4>3
    <3> QED BY <2>2, <3>1 DEF LabelsOf
  <2>5. new2 = Append(new, Block(sym, n)) /\ AddedIndex(new, str) = Len(new) + 1
    BY <2>2, <2>4, AddFresh DEF Block
  <2>6. /\ Len(new2) = Len(new) + 1 /\ new2[Len(new) + 1] = Block(sym, n)
        /\ \A q \in 1 .. Len(new) : new2[q] = new[q]
    BY <2>2, <2>5
  <2>7. /\ \A s \in 1 .. Len(map) : map2[s] = map[s]
        /\ map2[m + 1] + n = Len(new) + 1
    <3>1. CASE n = 0
      <4>1. map2 = Append(map, Len(new) + 1) /\ Len(map) = m
        BY <1>5, <2>5, <3>1 DEF MapTypes
      <4> QED BY <2>2, <3>1, <4>1
    <3>2. CASE n # 0
      BY <1>1, <2>1, <3>2 DEF BlocksOfTable
    <3> QED BY <3>1, <3>2
  <2>8. ASSUME NEW s \in 1 .. Len(list), NEW q \in 0 .. Blocks(c, list[s]) - 1,
               Passed(s, q, m2, n2)
        PROVE  map2[s] + q \in 1 .. Len(new2) /\ new2[map2[s] + q] = Block(list[s], q)
    <3>1. CASE s = m + 1 /\ q = n
      <4>1. map2[s] + q = Len(new) + 1 /\ list[s] = sym
        BY <2>7, <3>1
      <4>2. new2[map2[s] + q] = Block(sym, n)
        BY <2>6, <4>1
      <4>3. map2[s] + q \in 1 .. Len(new2)
        BY <2>2, <2>6, <4>1
      <4>4. Block(list[s], q) = Block(sym, n)
        BY <3>1
      <4> QED BY <4>2, <4>3, <4>4
    <3>2. CASE Passed(s, q, m, n)
      <4>1. map[s] + q \in 1 .. Len(new) /\ new[map[s] + q] = Block(list[s], q)
        BY <2>1, <3>2 DEF BlocksOfTable
      <4>2. s \in 1 .. Len(map)
        BY <1>1, <1>5, <2>2, <3>2 DEF Passed, MapTypes
      <4>3. map2[s] = map[s]
        BY <2>7, <4>2
      <4>4. map2[s] + q \in 1 .. Len(new)
        BY <4>1, <4>3
      <4>5. map2[s] + q \in 1 .. Len(new2)
        BY <2>2, <2>6, <4>4
      <4>6. new2[map2[s] + q] = new[map2[s] + q]
        BY <2>6, <4>4
      <4> QED BY <4>1, <4>3, <4>5, <4>6
    <3> QED BY <1>1, <2>8, <3>1, <3>2 DEF OneMorePassed
  <2>9. ASSUME n2 > 0 PROVE map2[m2 + 1] + n2 = Len(new2) + 1
    <3>1. m2 = m /\ n2 = n + 1
      BY <1>6, <2>9
    <3>2. map2[m + 1] \in Nat
      BY <1>1, <1>7, <3>1 DEF MapTypes
    <3>3. map2[m + 1] + n = Len(new) + 1 /\ Len(new2) = Len(new) + 1
      BY <2>6, <2>7
    <3>4. m \in Nat /\ n \in Nat /\ Len(new) \in Nat
      BY <1>1, <2>2
    <3> HIDE DEF sym
    <3> QED BY <3>1, <3>2, <3>3, <3>4, SMTT(30)
  <2>10. ASSUME NEW q \in 1 .. Len(new2)
         PROVE  \E s \in 1 .. Len(list) : \E k \in 0 .. Blocks(c, list[s]) - 1 :
                  Passed(s, k, m2, n2) /\ new2[q].label = symbol_numerate(list[s].label, k)
    <3>1. CASE q = Len(new) + 1
      <4>1. new2[q].label = symbol_numerate(sym.label, n) /\ Passed(m + 1, n, m2, n2)
        BY <1>1, <2>6, <3>1 DEF Block, OneMorePassed
      <4> QED BY <1>1, <4>1
    <3>2. CASE q # Len(new) + 1
      <4>1. q \in 1 .. Len(new) /\ new2[q] = new[q]
        BY <2>2, <2>6, <3>2
      <4>2. PICK s \in 1 .. Len(list) : \E k \in 0 .. Blocks(c, list[s]) - 1 :
              Passed(s, k, m, n) /\ new[q].label = symbol_numerate(list[s].label, k)
        BY <2>1, <4>1 DEF BlocksOfTable
      <4>3. PICK k \in 0 .. Blocks(c, list[s]) - 1 :
              Passed(s, k, m, n) /\ new[q].label = symbol_numerate(list[s].label, k)
        BY <4>2
      <4> QED BY <1>1, <4>1, <4>3 DEF OneMorePassed
    <3> QED BY <3>1, <3>2
  <2> QED BY <2>8, <2>9, <2>10 DEF BlocksOfTable
<1> QED BY <1>1, <1>7, <1>8 DEF TableExploded

TablesDone == {"explode_rules", "matrices", "prepared"}

\* The tables while explode_indices_CFL runs, with the parser's block count.
ExplodeInv ==
  /\ pc \in Converting \cup {"split"} =>
       /\ j = 0
       /\ new_terms = <<>> /\ map_terms = <<>> /\ new_nonterms = <<>> /\ map_nonterms = <<>>
  /\ pc \notin {"matrices", "prepared"} => block_count = parsed.block_count
  /\ pc = "explode_terms" =>
       /\ i \in Nat /\ i >= 1 /\ AtBlock(parsed.block_count, terms, i - 1, j)
       /\ TableExploded(parsed.block_count, terms, new_terms, map_terms, i - 1, j)
       /\ new_nonterms = <<>> /\ map_nonterms = <<>>
  /\ pc = "explode_nonterms" =>
       /\ i \in Nat /\ i >= 1 /\ AtBlock(parsed.block_count, nonterms, i - 1, j)
       /\ TableExploded(parsed.block_count, nonterms, new_nonterms, map_nonterms, i - 1, j)
  /\ pc \in TablesDone =>
       /\ j = 0
       /\ TableExploded(parsed.block_count, nonterms, new_nonterms, map_nonterms,
                        Len(nonterms), 0)
  /\ pc \in TablesDone \cup {"explode_nonterms"} =>
       TableExploded(parsed.block_count, terms, new_terms, map_terms, Len(terms), 0)

LEMMA ExplodeInit == ASSUME Init PROVE ExplodeInv
BY DEF Init, WCNFInit, ExplodeInv, TablesDone

\* One iteration of the loops over a table, as the actions write it.
LEMMA TableStepped ==
  ASSUME parsed \in ParserResults, block_count = parsed.block_count,
         NEW list \in Seq(Symbol(LabelRecord)), i \in Nat, i >= 1, i <= Len(list),
         AtBlock(parsed.block_count, list, i - 1, j),
         NEW new, NEW map, TableExploded(parsed.block_count, list, new, map, i - 1, j),
         NextBlock(list)
  PROVE  /\ i' \in Nat /\ i' >= 1 /\ AtBlock(parsed.block_count, list, i' - 1, j')
         /\ TableExploded(parsed.block_count, list, Exploded(list, new), Mapped(list, new, map),
                          i' - 1, j')
<1> DEFINE c == parsed.block_count
           m == i - 1
           m2 == i' - 1
           str == symbol_numerate(list[i].label, j)
           new2 == Exploded(list, new)
           map2 == Mapped(list, new, map)
<1>1. /\ c \in Nat /\ c >= 1 /\ m \in Nat /\ j \in Nat /\ m + 1 = i /\ m < Len(list)
  <2>1. parsed.block_count \in Nat /\ parsed.block_count >= 1
    BY ParsedFacts
  <2>3. Len(list) \in Nat
    OBVIOUS
  <2>2. j \in Nat
    BY DEF AtBlock
  <2> QED BY <2>1, <2>2, <2>3
<1>2. /\ i' \in Nat /\ i' >= 1
      /\ Advance(c, list[i].label, m, j, m2, j')
  <2>1. CASE IsIndexed(list[i].label) /\ j + 1 < block_count
    BY <1>1, <2>1 DEF NextBlock, Advance
  <2>2. CASE ~(IsIndexed(list[i].label) /\ j + 1 < block_count)
    <3>1. j' = 0 /\ i' = i + 1
      BY <2>2 DEF NextBlock
    <3> QED BY <1>1, <2>2, <3>1 DEF Advance
  <2> QED BY <2>1, <2>2
<1>3. /\ new2 = symbol_list_add_str(new, str, list[i].is_nonterm)
      /\ j = 0 => map2 = Append(map, AddedIndex(new, str))
      /\ j # 0 => map2 = map
  BY DEF Exploded, Mapped, BlockLabel
<1> HIDE DEF new2, map2
<1>4. str = symbol_numerate(list[m + 1].label, j)
  BY <1>1
<1> HIDE DEF str
<1>5. /\ new2 = symbol_list_add_str(new, str, list[m + 1].is_nonterm)
      /\ Advance(c, list[m + 1].label, m, j, m2, j')
      /\ AtBlock(c, list, m, j) /\ TableExploded(c, list, new, map, m, j)
  BY <1>1, <1>2, <1>3
<1> HIDE DEF m, m2, c
<1>6. TableExploded(c, list, new2, map2, m2, j') /\ AtBlock(c, list, m2, j')
  BY <1>1, <1>3, <1>4, <1>5, BlockAdded
<1> QED BY <1>2, <1>6 DEF new2, map2, m2, c

\* A table is done when the outer loop is past its end.
LEMMA TableEnds ==
  ASSUME NEW c, NEW list \in Seq(Symbol(LabelRecord)), i \in Nat, i > Len(list),
         AtBlock(c, list, i - 1, j)
  PROVE  i - 1 = Len(list) /\ j = 0
<1>1. Len(list) \in Nat
  OBVIOUS
<1> QED BY <1>1 DEF AtBlock

LEMMA ExplodeNext ==
  ASSUME ConversionInv, PartsInv, ExplodeInv, [Next]_vars
  PROVE  ExplodeInv'
<1>1. /\ parsed \in ParserResults /\ parsed' = parsed
      /\ terms \in Seq(Symbol(LabelRecord)) /\ nonterms \in Seq(Symbol(LabelRecord))
  <2>1. parsed' = parsed
    BY ConvertFrame, TableRests
  <2> QED BY <2>1 DEF ConversionInv, TableInv, PartsInv, Parted
<1>2. CASE ConvertGrammar
  <2>1. /\ UNCHANGED <<j, new_terms, map_terms, new_nonterms, map_nonterms, block_count>>
        /\ pc \in Converting /\ pc' \in Converting \cup {"split"}
    BY <1>2, ConvertFrame DEF Converting, tableVars, ruleVars
  <2> QED BY <1>1, <2>1 DEF ExplodeInv, Converting, TablesDone
<1>3. CASE SplitSymbol
  <2>1. /\ UNCHANGED <<j, new_terms, map_terms, new_nonterms, map_nonterms, block_count>>
        /\ pc = "split" /\ pc' = "split"
    BY <1>3 DEF SplitSymbol, tableVars, ruleVars
  <2> QED BY <1>1, <2>1 DEF ExplodeInv, Converting, TablesDone
<1>4. CASE SplitReturn
  <2>1. /\ UNCHANGED <<j, new_terms, map_terms, new_nonterms, map_nonterms, block_count, terms>>
        /\ pc = "split" /\ pc' = "explode_terms" /\ i' = 1
    BY <1>4 DEF SplitReturn, tableVars, ruleVars
  <2>2. /\ j = 0 /\ new_terms = <<>> /\ map_terms = <<>> /\ new_nonterms = <<>>
        /\ map_nonterms = <<>> /\ block_count = parsed.block_count
    BY <2>1 DEF ExplodeInv
  <2>3. /\ TableExploded(parsed.block_count, terms, <<>>, <<>>, 0, 0)
        /\ AtBlock(parsed.block_count, terms, 0, 0)
    BY <1>1, NothingExploded
  <2>4. i' - 1 = 0
    BY <2>1
  <2> QED BY <1>1, <2>1, <2>2, <2>3, <2>4 DEF ExplodeInv, Converting, TablesDone
<1>5. CASE ExplodeTerm
  <2>1. /\ UNCHANGED <<new_nonterms, map_nonterms, block_count, terms, nonterms>>
        /\ pc = "explode_terms" /\ pc' = "explode_terms" /\ i <= Len(terms)
        /\ new_terms' = Exploded(terms, new_terms)
        /\ map_terms' = Mapped(terms, new_terms, map_terms) /\ NextBlock(terms)
    BY <1>5 DEF ExplodeTerm, splitVars, ruleVars
  <2>2. /\ i \in Nat /\ i >= 1 /\ AtBlock(parsed.block_count, terms, i - 1, j)
        /\ TableExploded(parsed.block_count, terms, new_terms, map_terms, i - 1, j)
        /\ new_nonterms = <<>> /\ map_nonterms = <<>> /\ block_count = parsed.block_count
    BY <2>1 DEF ExplodeInv
  <2>3. /\ i' \in Nat /\ i' >= 1 /\ AtBlock(parsed.block_count, terms, i' - 1, j')
        /\ TableExploded(parsed.block_count, terms, new_terms', map_terms', i' - 1, j')
    BY <1>1, <2>1, <2>2, TableStepped
  <2> QED BY <1>1, <2>1, <2>2, <2>3 DEF ExplodeInv, Converting, TablesDone
<1>6. CASE ExplodeNonterm
  <2>1. /\ UNCHANGED <<new_terms, map_terms, block_count, terms, nonterms>>
        /\ pc = "explode_nonterms" /\ pc' = "explode_nonterms" /\ i <= Len(nonterms)
        /\ new_nonterms' = Exploded(nonterms, new_nonterms)
        /\ map_nonterms' = Mapped(nonterms, new_nonterms, map_nonterms) /\ NextBlock(nonterms)
    BY <1>6 DEF ExplodeNonterm, splitVars, ruleVars
  <2>2. /\ i \in Nat /\ i >= 1 /\ AtBlock(parsed.block_count, nonterms, i - 1, j)
        /\ TableExploded(parsed.block_count, nonterms, new_nonterms, map_nonterms, i - 1, j)
        /\ TableExploded(parsed.block_count, terms, new_terms, map_terms, Len(terms), 0)
        /\ block_count = parsed.block_count
    BY <2>1 DEF ExplodeInv
  <2>3. /\ i' \in Nat /\ i' >= 1 /\ AtBlock(parsed.block_count, nonterms, i' - 1, j')
        /\ TableExploded(parsed.block_count, nonterms, new_nonterms', map_nonterms', i' - 1, j')
    BY <1>1, <2>1, <2>2, TableStepped
  <2> QED BY <1>1, <2>1, <2>2, <2>3 DEF ExplodeInv, Converting, TablesDone
<1>7. CASE ExplodeTableEnd
  <2>1. /\ UNCHANGED <<j, new_terms, map_terms, new_nonterms, map_nonterms, block_count, terms, nonterms>>
        /\ i' = 1
    BY <1>7 DEF ExplodeTableEnd, splitVars, tableVars, ruleVars
  <2>2. i' - 1 = 0
    BY <2>1
  <2>3. CASE pc = "explode_terms" /\ i > Len(terms) /\ pc' = "explode_nonterms"
    <3>1. /\ i \in Nat /\ i >= 1 /\ AtBlock(parsed.block_count, terms, i - 1, j)
          /\ TableExploded(parsed.block_count, terms, new_terms, map_terms, i - 1, j)
          /\ new_nonterms = <<>> /\ map_nonterms = <<>> /\ block_count = parsed.block_count
      BY <2>3 DEF ExplodeInv
    <3>2. i - 1 = Len(terms) /\ j = 0
      BY <1>1, <2>3, <3>1, TableEnds
    <3>3. /\ TableExploded(parsed.block_count, nonterms, <<>>, <<>>, 0, 0)
          /\ AtBlock(parsed.block_count, nonterms, 0, 0)
      BY <1>1, NothingExploded
    <3> QED BY <1>1, <2>1, <2>2, <2>3, <3>1, <3>2, <3>3 DEF ExplodeInv, Converting, TablesDone
  <2>4. CASE pc = "explode_nonterms" /\ i > Len(nonterms) /\ pc' = "explode_rules"
    <3>1. /\ i \in Nat /\ i >= 1 /\ AtBlock(parsed.block_count, nonterms, i - 1, j)
          /\ TableExploded(parsed.block_count, nonterms, new_nonterms, map_nonterms, i - 1, j)
          /\ TableExploded(parsed.block_count, terms, new_terms, map_terms, Len(terms), 0)
          /\ block_count = parsed.block_count
      BY <2>4 DEF ExplodeInv
    <3>2. i - 1 = Len(nonterms) /\ j = 0
      BY <1>1, <2>4, <3>1, TableEnds
    <3> QED BY <1>1, <2>1, <2>4, <3>1, <3>2 DEF ExplodeInv, Converting, TablesDone
  <2> QED BY <1>7, <2>3, <2>4 DEF ExplodeTableEnd
<1>8. CASE ExplodeRule \/ ExplodeRulesEnd \/ BuildMatrices
  <2>1. /\ UNCHANGED <<j, new_terms, map_terms, new_nonterms, map_nonterms, terms, nonterms>>
        /\ pc \in TablesDone /\ pc' \in TablesDone
        /\ pc' \in {"matrices", "prepared"} \/ (block_count' = block_count /\ pc = "explode_rules")
    BY <1>8 DEF ExplodeRule, ExplodeRulesEnd, BuildMatrices, splitVars, tableVars, TablesDone
  <2> QED BY <1>1, <2>1 DEF ExplodeInv, Converting, TablesDone
<1>9. CASE UNCHANGED vars
  <2>1. UNCHANGED <<parsed, pc, i, j, new_terms, map_terms, new_nonterms, map_nonterms,
                    block_count, terms, nonterms>>
    BY <1>9 DEF vars, wcnfVars, splitVars, tableVars, ruleVars
  <2> QED BY <2>1 DEF ExplodeInv
<1> QED BY <1>2, <1>3, <1>4, <1>5, <1>6, <1>7, <1>8, <1>9 DEF Next, Step, Prepared

-----------------------------------------------------------------------------
(* Clean labels are numerated apart                                         *)

\* Every label of a part is the input's or made up.
LEMMA PartLabels ==
  ASSUME TableInv, NamesInv, NEW list, NEW b, Parted(symbols, list, b), NEW s \in 1 .. Len(list)
  PROVE  /\ list[s].label \in LabelsOf(parsed.symbols) \cup MadeUp(parsed)
         /\ list[s].label \in LabelRecord
<1>1. PICK q \in 1 .. Len(symbols) : symbols[q] = list[s]
  BY DEF Parted
<1>2. /\ parsed \in ParserResults /\ Grown(parsed.symbols, symbols)
      /\ Len(parsed.symbols) \in Nat /\ parsed.symbols \in Seq(Symbol(LabelRecord))
  BY ParsedFacts DEF TableInv, TableOf
<1>3. list[s] \in Symbol(LabelRecord)
  BY DEF Parted
<1>4. list[s].label \in LabelRecord
  BY <1>3 DEF Symbol
<1>5. CASE q <= Len(parsed.symbols)
  <2>1. q \in 1 .. Len(parsed.symbols)
    BY <1>2, <1>5
  <2>2. symbols[q].label = parsed.symbols[q].label
    BY <1>2, <2>1 DEF Grown
  <2>3. parsed.symbols[q].label \in LabelsOf(parsed.symbols)
    BY <1>2, <2>1 DEF LabelsOf
  <2> QED BY <1>1, <1>4, <2>2, <2>3
<1>6. CASE ~(q <= Len(parsed.symbols))
  <2>1. q > Len(parsed.symbols)
    BY <1>2, <1>6
  <2> QED BY <1>1, <1>4, <2>1 DEF NamesInv, NamesOf
<1> QED BY <1>5, <1>6

\* Indexed labels that become the same label are the same, for the same number.
LEMMA NumerateInjective ==
  ASSUME NEW a \in LabelRecord, NEW b \in LabelRecord, IsIndexed(a), IsIndexed(b),
         NEW n, NEW q, symbol_numerate(a, n) = symbol_numerate(b, q)
  PROVE  a = b /\ n = q
<1>1. [a EXCEPT !.suf = n] = [b EXCEPT !.suf = q]
  BY DEF symbol_numerate
<1>2. /\ a = [pre |-> a.pre, stem |-> a.stem, suf |-> a.suf]
      /\ b = [pre |-> b.pre, stem |-> b.stem, suf |-> b.suf]
  BY DEF LabelRecord
<1>3. /\ [a EXCEPT !.suf = n].suf = n /\ [b EXCEPT !.suf = q].suf = q
      /\ [a EXCEPT !.suf = n].pre = a.pre /\ [b EXCEPT !.suf = q].pre = b.pre
      /\ [a EXCEPT !.suf = n].stem = a.stem /\ [b EXCEPT !.suf = q].stem = b.stem
  BY <1>2
<1>4. n = q /\ a.pre = b.pre /\ a.stem = b.stem
  BY <1>1, <1>3
<1> QED BY <1>2, <1>4 DEF IsIndexed

LEMMA CleanApart ==
  ASSUME TableInv, NamesInv, NEW list, NEW b, Parted(symbols, list, b), Clean
  PROVE  NumeratesApart(parsed.block_count, list)
<1> DEFINE c == parsed.block_count
           labels == LabelsOf(parsed.symbols) \cup MadeUp(parsed)
<1>1. \A x, y \in labels : \A n \in 0 .. c - 1 : IsIndexed(x) => y # symbol_numerate(x, n)
  BY DEF Clean, NoNumberedLabel
<1>2. \A s \in 1 .. Len(list) : list[s].label \in labels /\ list[s].label \in LabelRecord
  BY PartLabels
<1>3. c \in Nat /\ c >= 1
  BY ParsedFacts DEF TableInv
<1>4. list \in Seq(Symbol(LabelRecord)) /\ DOMAIN list = 1 .. Len(list)
  BY DEF Parted
<1>5. \A s, t \in 1 .. Len(list) : list[s].label = list[t].label => s = t
  BY <1>4 DEF Parted, DistinctLabels
<1> HIDE DEF labels, c
<1>6. ASSUME NEW s \in 1 .. Len(list), NEW t \in 1 .. Len(list),
             NEW n \in 0 .. Blocks(c, list[s]) - 1, NEW q \in 0 .. Blocks(c, list[t]) - 1,
             symbol_numerate(list[s].label, n) = symbol_numerate(list[t].label, q)
      PROVE  s = t /\ n = q
  <2>1. CASE IsIndexed(list[s].label) /\ IsIndexed(list[t].label)
    BY <1>2, <1>5, <1>6, <2>1, NumerateInjective
  <2>2. CASE IsIndexed(list[s].label) /\ ~IsIndexed(list[t].label)
    <3>1. n \in 0 .. c - 1 /\ symbol_numerate(list[t].label, q) = list[t].label
      BY <2>2 DEF Blocks, symbol_numerate
    <3> QED BY <1>1, <1>2, <1>6, <2>2, <3>1
  <2>3. CASE ~IsIndexed(list[s].label) /\ IsIndexed(list[t].label)
    <3>1. q \in 0 .. c - 1 /\ symbol_numerate(list[s].label, n) = list[s].label
      BY <2>3 DEF Blocks, symbol_numerate
    <3> QED BY <1>1, <1>2, <1>6, <2>3, <3>1
  <2>4. CASE ~IsIndexed(list[s].label) /\ ~IsIndexed(list[t].label)
    <3>1. /\ symbol_numerate(list[s].label, n) = list[s].label
          /\ symbol_numerate(list[t].label, q) = list[t].label
      BY <2>4 DEF symbol_numerate
    <3>2. n = 0 /\ q = 0
      BY <2>4 DEF Blocks
    <3> QED BY <1>5, <1>6, <3>1, <3>2
  <2> QED BY <2>1, <2>2, <2>3, <2>4
<1> QED BY <1>6 DEF NumeratesApart, c

-----------------------------------------------------------------------------
(* The split of the rules                                                   *)

SplitRuleOK(ts, ns, rule) ==
  /\ rule \in Rule /\ rule.first \in 1 .. Len(ns)
  /\ \/ rule.third = NoSymbol /\ rule.second = NoSymbol
     \/ rule.third = NoSymbol /\ rule.second \in 0 .. Len(ts)
     \/ rule.third \in 1 .. Len(ns) /\ rule.second \in 1 .. Len(ns)

\* A rule is looked up in the parts; spelled as before if it is in normal form.
LEMMA SplitRuleFits ==
  ASSUME symbols \in Seq(Symbol(LabelRecord)),
         Parted(symbols, terms, FALSE), Parted(symbols, nonterms, TRUE),
         \A s \in 1 .. Len(symbols) : Placed(symbols[s], terms, nonterms),
         NEW rule, Shaped(symbols, rule)
  PROVE  /\ SplitRuleOK(terms, nonterms, SplitRule(rule))
         /\ nonterms[SplitRule(rule).first].label = symbols[rule.first].label
         /\ SplitRule(rule).third = NoSymbol <=> rule.third = NoSymbol
         /\ rule.third # NoSymbol =>
              /\ nonterms[SplitRule(rule).third].label = symbols[rule.third].label
              /\ nonterms[SplitRule(rule).second].label = symbols[rule.second].label
         /\ rule.third = NoSymbol /\ rule.second = NoSymbol => SplitRule(rule).second = NoSymbol
         /\ rule.third = NoSymbol /\ NormalRule(symbols, rule) /\ rule.second # NoSymbol =>
              /\ SplitRule(rule).second \in 1 .. Len(terms)
              /\ terms[SplitRule(rule).second].label = symbols[rule.second].label
<1>1. /\ terms \in Seq(Symbol(LabelRecord)) /\ nonterms \in Seq(Symbol(LabelRecord))
      /\ Len(terms) \in Nat /\ Len(nonterms) \in Nat
  BY DEF Parted
<1>2. \A s \in 1 .. Len(symbols) : symbols[s].is_nonterm = TRUE =>
        /\ InList(nonterms, s) \in 1 .. Len(nonterms)
        /\ nonterms[InList(nonterms, s)].label = symbols[s].label
  BY <1>1, InListFinds DEF Placed
<1>3. \A s \in 1 .. Len(symbols) : symbols[s].is_nonterm = FALSE =>
        /\ InList(terms, s) \in 1 .. Len(terms)
        /\ terms[InList(terms, s)].label = symbols[s].label
  BY <1>1, InListFinds DEF Placed
<1>4. \A s : InList(terms, s) \in 0 .. Len(terms)
  BY <1>1, InListFinds
<1>5. /\ rule.first \in 1 .. Len(symbols) /\ symbols[rule.first].is_nonterm = TRUE
      /\ SplitRule(rule).first = InList(nonterms, rule.first)
  BY DEF Shaped, SplitRule
<1>6. CASE rule.third = NoSymbol /\ rule.second = NoSymbol
  <2>1. SplitRule(rule) = [first |-> InList(nonterms, rule.first), second |-> NoSymbol,
                           third |-> NoSymbol]
    BY <1>6 DEF SplitRule
  <2>2. InList(nonterms, rule.first) \in Nat
    BY <1>1, <1>2, <1>5
  <2> QED BY <1>1, <1>2, <1>5, <1>6, <2>1, <2>2 DEF SplitRuleOK, Rule, NoSymbol
<1>7. CASE rule.third = NoSymbol /\ rule.second # NoSymbol
  <2>1. SplitRule(rule) = [first |-> InList(nonterms, rule.first),
                           second |-> InList(terms, rule.second), third |-> NoSymbol]
    BY <1>7 DEF SplitRule
  <2>2. InList(nonterms, rule.first) \in Nat /\ InList(terms, rule.second) \in Nat
    BY <1>1, <1>2, <1>4, <1>5
  <2>3. SplitRuleOK(terms, nonterms, SplitRule(rule))
    BY <1>1, <1>2, <1>4, <1>5, <2>1, <2>2 DEF SplitRuleOK, Rule, NoSymbol
  <2>4. ASSUME NormalRule(symbols, rule)
        PROVE  rule.second \in 1 .. Len(symbols) /\ symbols[rule.second].is_nonterm = FALSE
    <3>1. 0 \notin 1 .. Len(symbols)
      OBVIOUS
    <3> QED BY <1>7, <2>4, <3>1 DEF NormalRule, NoSymbol
  <2>5. SplitRule(rule).third = NoSymbol /\ SplitRule(rule).second = InList(terms, rule.second)
    BY <2>1
  <2>6. NormalRule(symbols, rule) =>
          /\ SplitRule(rule).second \in 1 .. Len(terms)
          /\ terms[SplitRule(rule).second].label = symbols[rule.second].label
    BY <1>3, <2>4, <2>5
  <2>7. nonterms[SplitRule(rule).first].label = symbols[rule.first].label
    BY <1>2, <1>5
  <2> QED BY <1>7, <2>3, <2>5, <2>6, <2>7
<1>8. CASE rule.third # NoSymbol
  <2>1. /\ rule.second \in 1 .. Len(symbols) /\ symbols[rule.second].is_nonterm = TRUE
        /\ rule.third \in 1 .. Len(symbols) /\ symbols[rule.third].is_nonterm = TRUE
    BY <1>8 DEF Shaped
  <2>2. rule.second # NoSymbol
    BY <2>1 DEF NoSymbol
  <2>3. SplitRule(rule) = [first |-> InList(nonterms, rule.first),
                           second |-> InList(nonterms, rule.second),
                           third |-> InList(nonterms, rule.third)]
    BY <1>8, <2>2 DEF SplitRule
  <2>4. /\ InList(nonterms, rule.first) \in 1 .. Len(nonterms)
        /\ InList(nonterms, rule.second) \in 1 .. Len(nonterms)
        /\ InList(nonterms, rule.third) \in 1 .. Len(nonterms)
    BY <1>2, <1>5, <2>1
  <2>5. SplitRule(rule) \in Rule /\ InList(nonterms, rule.third) # NoSymbol
    BY <1>1, <2>3, <2>4 DEF Rule, NoSymbol
  <2>6. SplitRule(rule).second = InList(nonterms, rule.second)
        /\ SplitRule(rule).third = InList(nonterms, rule.third)
    BY <2>3
  <2>7. SplitRuleOK(terms, nonterms, SplitRule(rule))
    BY <1>5, <2>4, <2>5, <2>6 DEF SplitRuleOK
  <2>8. nonterms[SplitRule(rule).first].label = symbols[rule.first].label
    BY <1>2, <1>5
  <2>9. /\ nonterms[SplitRule(rule).third].label = symbols[rule.third].label
        /\ nonterms[SplitRule(rule).second].label = symbols[rule.second].label
    BY <1>2, <2>1, <2>6
  <2> QED BY <1>8, <2>5, <2>6, <2>7, <2>8, <2>9
<1> QED BY <1>6, <1>7, <1>8

-----------------------------------------------------------------------------
(* The edges: relabelled by the split, then by the explosion                *)

\* The edge after the split: its label is found among the terminals.
SplitEdge(p, ts, was, e) ==
  /\ e \in Edge /\ e.u = was.u /\ e.v = was.v /\ e.index = was.index
  /\ e.term_index \in 1 .. Len(ts) /\ ts[e.term_index].label = p.symbols[was.term_index].label

\* The edge after the explosion: the first block of its label, plus its index.
BlockEdge(p, ts, map, was, e) ==
  /\ e \in Edge /\ e.u = was.u /\ e.v = was.v
  /\ \E t \in 1 .. Len(ts) :
       /\ ts[t].label = p.symbols[was.term_index].label
       /\ e.term_index = map[t] + was.index

EdgesInv ==
  /\ edges \in Seq(Edge) /\ Len(edges) = Len(parsed.edges)
  /\ pc \in Converting \cup {"split"} => edges = parsed.edges
  /\ pc \in Exploding =>
       \A k \in 1 .. Len(edges) : SplitEdge(parsed, terms, parsed.edges[k], edges[k])
  /\ pc \in {"matrices", "prepared"} =>
       \A k \in 1 .. Len(edges) : BlockEdge(parsed, terms, map_terms, parsed.edges[k], edges[k])

\* The edges of the parser's result are labelled with terminals that keep their name.
LEMMA ParsedEdges ==
  ASSUME NEW p \in ParserResults
  PROVE  /\ p.edges \in Seq(Edge) /\ Len(p.edges) \in Nat
         /\ \A k \in 1 .. Len(p.edges) :
              /\ p.edges[k].term_index \in 1 .. Len(p.symbols)
              /\ p.symbols[p.edges[k].term_index].is_nonterm = FALSE
              /\ p.symbols[p.edges[k].term_index].label \notin MadeUp(p)
              /\ p.edges[k].index \in Nat /\ p.edges[k].index < p.block_count
<1>1. p \in ParserResult /\ ParserPromise(p)
  BY WCNFAssumption
<1>2. p.symbols \in Seq(Symbol(LabelRecord)) /\ p.edges \in Seq(Edge)
  BY <1>1 DEF ParserResult
<1>3. DOMAIN p.symbols = 1 .. Len(p.symbols) /\ DOMAIN p.edges = 1 .. Len(p.edges)
      /\ Len(p.edges) \in Nat
  BY <1>2
<1>4. ASSUME NEW k \in 1 .. Len(p.edges)
      PROVE  /\ p.edges[k].term_index \in 1 .. Len(p.symbols)
             /\ p.symbols[p.edges[k].term_index].is_nonterm = FALSE
             /\ p.symbols[p.edges[k].term_index].label \notin MadeUp(p)
             /\ p.edges[k].index \in Nat /\ p.edges[k].index < p.block_count
  <2>1. p.edges[k].term_index \in 1 .. Len(p.symbols) /\ p.edges[k].index < p.block_count
    BY <1>1, <1>3 DEF ParserPromise
  <2>2. p.edges[k] \in Edge
    BY <1>2
  <2>3. p.edges[k].index \in Nat
    BY <2>2 DEF Edge
  <2>4. /\ ~p.symbols[p.edges[k].term_index].is_nonterm
        /\ p.symbols[p.edges[k].term_index].label \notin MadeUp(p)
    BY <1>3, EdgesOnTerminals
  <2>5. p.symbols[p.edges[k].term_index] \in Symbol(LabelRecord)
    BY <1>2, <2>1
  <2>6. p.symbols[p.edges[k].term_index].is_nonterm \in BOOLEAN
    BY <2>5 DEF Symbol
  <2> QED BY <2>1, <2>3, <2>4, <2>6
<1> QED BY <1>2, <1>3, <1>4

\* The label of an edge is a terminal of the converted table.
LEMMA EdgeLabelStays ==
  ASSUME TableInv, NamesInv, NEW k \in 1 .. Len(parsed.edges)
  PROVE  LET s == parsed.edges[k].term_index
         IN s \in 1 .. Len(symbols) /\ symbols[s] = parsed.symbols[s] /\ symbols[s].is_nonterm = FALSE
<1> DEFINE s == parsed.edges[k].term_index
<1>1. parsed \in ParserResults /\ Grown(parsed.symbols, symbols) /\ Len(parsed.symbols) \in Nat
  BY ParsedFacts DEF TableInv, TableOf
<1>2. /\ s \in 1 .. Len(parsed.symbols) /\ parsed.symbols[s].is_nonterm = FALSE
      /\ parsed.symbols[s].label \notin MadeUp(parsed)
  BY <1>1, ParsedEdges
<1> HIDE DEF s
<1>3. symbols[s] = parsed.symbols[s]
  BY <1>2 DEF NamesInv, NamesOf
<1>4. Len(symbols) >= Len(parsed.symbols) /\ Len(symbols) \in Nat
  BY <1>1 DEF Grown
<1> QED BY <1>1, <1>2, <1>3, <1>4 DEF s

LEMMA EdgesInit == ASSUME Init PROVE EdgesInv
<1>1. parsed \in ParserResults /\ pc = "wcnf" /\ edges = parsed.edges
  BY DEF Init, WCNFInit
<1> QED BY <1>1, ParsedEdges DEF EdgesInv, Exploding

\* The split relabels every edge.
LEMMA EdgesSplit ==
  ASSUME TableInv, NamesInv, PartsInv, EdgesInv, SplitReturn
  PROVE  /\ edges' \in Seq(Edge) /\ Len(edges') = Len(edges) /\ edges = parsed.edges
         /\ \A k \in 1 .. Len(edges) : SplitEdge(parsed, terms, parsed.edges[k], edges'[k])
<1>1. /\ pc = "split" /\ edges' = [k \in DOMAIN edges |-> [edges[k] EXCEPT !.term_index = InList(terms, @)]]
      /\ i > Len(symbols)
  BY DEF SplitReturn
<1>2. /\ edges = parsed.edges /\ edges \in Seq(Edge) /\ DOMAIN edges = 1 .. Len(edges)
      /\ Len(edges) \in Nat
  BY <1>1 DEF EdgesInv
<1>3. terms \in Seq(Symbol(LabelRecord)) /\ Len(terms) \in Nat
  BY DEF PartsInv, Parted
<1>4. \A s \in 1 .. Len(symbols) : Placed(symbols[s], terms, nonterms)
  <2>1. Len(symbols) \in Nat /\ i \in Nat
    BY <1>1 DEF TableInv, TableOf, Grown, PartsInv
  <2> QED BY <1>1, <2>1 DEF PartsInv
<1>5. ASSUME NEW k \in 1 .. Len(edges)
      PROVE  SplitEdge(parsed, terms, parsed.edges[k], edges'[k])
  <2> DEFINE was == parsed.edges[k]
             s == was.term_index
  <2>1. s \in 1 .. Len(symbols) /\ symbols[s] = parsed.symbols[s] /\ symbols[s].is_nonterm = FALSE
    BY <1>2, EdgeLabelStays
  <2>2. InList(terms, s) \in 1 .. Len(terms) /\ terms[InList(terms, s)].label = symbols[s].label
    BY <1>3, <1>4, <2>1, InListFinds DEF Placed
  <2>3. was \in Edge
    BY <1>2
  <2>4. edges'[k] = [was EXCEPT !.term_index = InList(terms, s)]
    BY <1>1, <1>2
  <2>5. edges'[k] = [u |-> was.u, v |-> was.v, term_index |-> InList(terms, s), index |-> was.index]
    BY <2>3, <2>4 DEF Edge
  <2>6. was.u \in Nat /\ was.v \in Nat /\ was.index \in Nat /\ InList(terms, s) \in Nat
    BY <1>3, <2>2, <2>3 DEF Edge
  <2>7. edges'[k] \in Edge
    BY <2>5, <2>6 DEF Edge
  <2>8. edges'[k].term_index = InList(terms, s)
    BY <2>5
  <2>9. terms[InList(terms, s)].label = parsed.symbols[s].label
    BY <2>1, <2>2
  <2> QED BY <2>2, <2>5, <2>7, <2>8, <2>9 DEF SplitEdge
<1>6. /\ DOMAIN edges' = 1 .. Len(edges)
      /\ \A k \in 1 .. Len(edges) : edges'[k] \in Edge
  BY <1>1, <1>2, <1>5 DEF SplitEdge
<1>7. edges' \in Seq(Edge) /\ Len(edges') = Len(edges)
  <2>1. edges' \in [1 .. Len(edges) -> Edge]
    BY <1>1, <1>2, <1>6
  <2> QED BY <1>2, <2>1
<1> QED BY <1>2, <1>5, <1>7

\* The explosion does so again.
LEMMA EdgesExplode ==
  ASSUME parsed \in ParserResults, ExplodeInv, EdgesInv, ExplodeRulesEnd
  PROVE  /\ edges' \in Seq(Edge) /\ Len(edges') = Len(edges)
         /\ \A k \in 1 .. Len(edges) : BlockEdge(parsed, terms, map_terms, parsed.edges[k], edges'[k])
<1>1. pc = "explode_rules" /\ edges' = [k \in DOMAIN edges |-> ExplodedEdge(edges[k])]
  BY DEF ExplodeRulesEnd
<1>2. /\ edges \in Seq(Edge) /\ DOMAIN edges = 1 .. Len(edges) /\ Len(edges) \in Nat
      /\ Len(edges) = Len(parsed.edges)
      /\ \A k \in 1 .. Len(edges) : SplitEdge(parsed, terms, parsed.edges[k], edges[k])
  BY <1>1 DEF EdgesInv, Exploding
<1>3. map_terms \in Seq(Nat) /\ Len(map_terms) = Len(terms)
  BY <1>1 DEF ExplodeInv, TablesDone, TableExploded, MapTypes
<1>4. ASSUME NEW k \in 1 .. Len(edges)
      PROVE  BlockEdge(parsed, terms, map_terms, parsed.edges[k], edges'[k])
  <2> DEFINE e == edges[k]
             was == parsed.edges[k]
  <2>1. /\ e \in Edge /\ e.u = was.u /\ e.v = was.v /\ e.index = was.index
        /\ e.term_index \in 1 .. Len(terms)
        /\ terms[e.term_index].label = parsed.symbols[was.term_index].label
    BY <1>2 DEF SplitEdge
  <2>2. edges'[k] = [e EXCEPT !.term_index = map_terms[e.term_index] + e.index, !.index = 0]
    BY <1>1, <1>2 DEF ExplodedEdge
  <2>3. edges'[k] = [u |-> e.u, v |-> e.v, term_index |-> map_terms[e.term_index] + e.index, index |-> 0]
    BY <2>1, <2>2 DEF Edge
  <2>4. map_terms[e.term_index] \in Nat
    BY <1>3, <2>1
  <2>5. e.u \in Nat /\ e.v \in Nat /\ e.index \in Nat
    BY <2>1 DEF Edge
  <2>6. edges'[k] \in Edge
    BY <2>3, <2>4, <2>5 DEF Edge
  <2>7. edges'[k].u = was.u /\ edges'[k].v = was.v
        /\ edges'[k].term_index = map_terms[e.term_index] + was.index
    BY <2>1, <2>3
  <2> QED BY <2>1, <2>6, <2>7 DEF BlockEdge
<1>5. \A k \in 1 .. Len(edges) : edges'[k] \in Edge
  BY <1>4 DEF BlockEdge
<1>6. edges' \in Seq(Edge) /\ Len(edges') = Len(edges)
  <2>1. edges' \in [1 .. Len(edges) -> Edge]
    BY <1>1, <1>2, <1>5
  <2> QED BY <1>2, <2>1
<1> QED BY <1>4, <1>6

LEMMA EdgesNext ==
  ASSUME ConversionInv, NamesInv, PartsInv, ExplodeInv, EdgesInv, [Next]_vars
  PROVE  EdgesInv'
<1>1. parsed \in ParserResults /\ parsed' = parsed /\ TableInv
  <2>1. parsed' = parsed
    BY ConvertFrame, TableRests
  <2> QED BY <2>1 DEF ConversionInv, TableInv
<1>2. CASE ConvertGrammar
  <2>1. edges' = edges /\ pc \in Converting /\ pc' \in Converting \cup {"split"}
    BY <1>2, ConvertFrame DEF Converting, splitVars
  <2> QED BY <1>1, <2>1 DEF EdgesInv, Converting, Exploding
<1>3. CASE SplitSymbol
  <2>1. edges' = edges /\ pc = "split" /\ pc' = "split"
    BY <1>3 DEF SplitSymbol
  <2> QED BY <1>1, <2>1 DEF EdgesInv, Converting, Exploding
<1>4. CASE SplitReturn
  <2>1. pc' = "explode_terms" /\ terms' = terms
    BY <1>4 DEF SplitReturn
  <2>2. /\ edges' \in Seq(Edge) /\ Len(edges') = Len(edges) /\ edges = parsed.edges
        /\ \A k \in 1 .. Len(edges) : SplitEdge(parsed, terms, parsed.edges[k], edges'[k])
    BY <1>1, <1>4, EdgesSplit
  <2> QED BY <1>1, <2>1, <2>2 DEF EdgesInv, Converting, Exploding
<1>5. CASE ExplodeTerm \/ ExplodeNonterm \/ ExplodeTableEnd \/ ExplodeRule
  <2>1. /\ UNCHANGED <<edges, terms>> /\ pc \in Exploding /\ pc' \in Exploding
    BY <1>5 DEF ExplodeTerm, ExplodeNonterm, ExplodeTableEnd, ExplodeRule, splitVars, Exploding
  <2> QED BY <1>1, <2>1 DEF EdgesInv, Converting, Exploding
<1>6. CASE ExplodeRulesEnd
  <2>1. pc' = "matrices" /\ terms' = terms /\ map_terms' = map_terms
    BY <1>6 DEF ExplodeRulesEnd, tableVars
  <2>2. /\ edges' \in Seq(Edge) /\ Len(edges') = Len(edges) /\ Len(edges) = Len(parsed.edges)
        /\ \A k \in 1 .. Len(edges) : BlockEdge(parsed, terms, map_terms, parsed.edges[k], edges'[k])
    BY <1>1, <1>6, EdgesExplode DEF EdgesInv
  <2> QED BY <1>1, <2>1, <2>2 DEF EdgesInv, Converting, Exploding
<1>7. CASE BuildMatrices
  <2>1. /\ UNCHANGED <<edges, terms, map_terms>> /\ pc = "matrices" /\ pc' = "prepared"
    BY <1>7 DEF BuildMatrices, splitVars, tableVars
  <2> QED BY <1>1, <2>1 DEF EdgesInv, Converting, Exploding
<1>8. CASE UNCHANGED vars
  <2>1. UNCHANGED <<parsed, pc, edges, terms, map_terms>>
    BY <1>8 DEF vars, wcnfVars, splitVars, tableVars
  <2> QED BY <2>1 DEF EdgesInv
<1> QED BY <1>2, <1>3, <1>4, <1>5, <1>6, <1>7, <1>8 DEF Next, Step, Prepared

-----------------------------------------------------------------------------
(* The rules: split, then exploded                                          *)

RulesPartsInv ==
  pc \in Exploding =>
    rules \in Seq(Rule) /\ \A k \in 1 .. Len(rules) : SplitRuleOK(terms, nonterms, rules[k])

\* The exploded rules are the copies of the rules done, all of them and no other.
CopiesOf(n) ==
  /\ \A q \in 1 .. Len(new_rules) :
       \E k \in 1 .. Len(rules) : \E b \in 0 .. Copies(rules[k]) - 1 :
         k < n /\ new_rules[q] = ExplodedRule(rules[k], b)
  /\ \A k \in 1 .. Len(rules) : \A b \in 0 .. Copies(rules[k]) - 1 :
       k < n => \E q \in 1 .. Len(new_rules) : new_rules[q] = ExplodedRule(rules[k], b)

NewRulesInv ==
  /\ new_rules \in Seq(Rule)
  /\ pc \in Converting \cup {"split", "explode_terms", "explode_nonterms"} => new_rules = <<>>
  /\ pc = "explode_rules" => i \in Nat /\ i >= 1 /\ i <= Len(rules) + 1 /\ CopiesOf(i)
  /\ pc \in {"matrices", "prepared"} => rules = new_rules

\* What the split makes of the rules.
LEMMA RulesSplit ==
  ASSUME ConversionInv, PartsInv, SplitReturn
  PROVE  /\ rules \in Seq(Rule) /\ rules' \in Seq(Rule) /\ Len(rules') = Len(rules)
         /\ \A k \in 1 .. Len(rules) :
              /\ rules'[k] = SplitRule(rules[k]) /\ Shaped(symbols, rules[k])
              /\ SplitRuleOK(terms, nonterms, rules'[k])
         /\ symbols \in Seq(Symbol(LabelRecord))
         /\ Parted(symbols, terms, FALSE) /\ Parted(symbols, nonterms, TRUE)
         /\ \A s \in 1 .. Len(symbols) : Placed(symbols[s], terms, nonterms)
<1>1. pc = "split" /\ i > Len(symbols) /\ rules' = [k \in DOMAIN rules |-> SplitRule(rules[k])]
  BY DEF SplitReturn
<1>2. /\ rules \in Seq(Rule) /\ symbols \in Seq(Symbol(LabelRecord))
      /\ \A k \in 1 .. Len(rules) : Shaped(symbols, rules[k])
      /\ Parted(symbols, terms, FALSE) /\ Parted(symbols, nonterms, TRUE)
  BY <1>1 DEF ConversionInv, TableInv, TableOf, Grown, RulesInv, PartsInv
<1>3. \A s \in 1 .. Len(symbols) : Placed(symbols[s], terms, nonterms)
  <2>1. Len(symbols) \in Nat /\ i \in Nat
    BY <1>1, <1>2 DEF PartsInv
  <2> QED BY <1>1, <2>1 DEF PartsInv
<1>4. DOMAIN rules = 1 .. Len(rules) /\ Len(rules) \in Nat
  BY <1>2
<1>5. ASSUME NEW k \in 1 .. Len(rules)
      PROVE  rules'[k] = SplitRule(rules[k]) /\ SplitRuleOK(terms, nonterms, rules'[k])
  <2>1. rules'[k] = SplitRule(rules[k])
    BY <1>1, <1>4
  <2> QED BY <1>2, <1>3, <2>1, SplitRuleFits
<1>6. rules' \in [1 .. Len(rules) -> Rule]
  BY <1>1, <1>4, <1>5 DEF SplitRuleOK
<1>7. rules' \in Seq(Rule) /\ Len(rules') = Len(rules)
  BY <1>4, <1>6
<1> QED BY <1>2, <1>3, <1>5, <1>7

\* An index of a table, moved by the explosion, is a number.
LEMMA NewIndexType ==
  ASSUME NEW list, NEW map \in Seq(Nat), Len(map) = Len(list), NEW n \in Nat,
         NEW sym \in 0 .. Len(list)
  PROVE  rule_new_index(map, list, sym, n) \in Nat
<1>1. CASE sym = NoSymbol
  BY <1>1 DEF rule_new_index, NoSymbol
<1>2. CASE sym # NoSymbol
  <2>1. map[sym] \in Nat
    BY <1>2 DEF NoSymbol
  <2>2. CASE IsIndexed(list[sym].label)
    BY <1>2, <2>1, <2>2 DEF rule_new_index
  <2>3. CASE ~IsIndexed(list[sym].label)
    BY <1>2, <2>1, <2>3 DEF rule_new_index
  <2> QED BY <2>2, <2>3
<1> QED BY <1>1, <1>2

\* A copy of a rule is a rule.
LEMMA CopyType ==
  ASSUME pc = "explode_rules", ExplodeInv, PartsInv, NEW rule, SplitRuleOK(terms, nonterms, rule),
         NEW n \in Nat
  PROVE  ExplodedRule(rule, n) \in Rule
<1>1. /\ map_terms \in Seq(Nat) /\ Len(map_terms) = Len(terms)
      /\ map_nonterms \in Seq(Nat) /\ Len(map_nonterms) = Len(nonterms)
      /\ Len(terms) \in Nat /\ Len(nonterms) \in Nat
  BY DEF ExplodeInv, TablesDone, TableExploded, MapTypes, PartsInv, Parted
<1>2. rule.first \in 0 .. Len(nonterms) /\ rule.third \in 0 .. Len(nonterms)
  BY <1>1 DEF SplitRuleOK, NoSymbol
<1>3. /\ rule_new_index(map_nonterms, nonterms, rule.first, n) \in Nat
      /\ rule_new_index(map_nonterms, nonterms, rule.third, n) \in Nat
  BY <1>1, <1>2, NewIndexType
<1>4. rule_new_index(BodyMap(rule), BodyList(rule), rule.second, n) \in Nat
  <2>1. CASE rule.third = NoSymbol
    <3>1. rule.second \in 0 .. Len(terms)
      BY <1>1, <2>1 DEF SplitRuleOK, NoSymbol
    <3>2. BodyMap(rule) = map_terms /\ BodyList(rule) = terms
      BY <2>1 DEF BodyMap, BodyList
    <3> QED BY <1>1, <3>1, <3>2, NewIndexType
  <2>2. CASE rule.third # NoSymbol
    <3>1. rule.second \in 0 .. Len(nonterms)
      BY <1>1, <2>2 DEF SplitRuleOK
    <3>2. BodyMap(rule) = map_nonterms /\ BodyList(rule) = nonterms
      BY <2>2 DEF BodyMap, BodyList
    <3> QED BY <1>1, <3>1, <3>2, NewIndexType
  <2> QED BY <2>1, <2>2
<1> QED BY <1>3, <1>4 DEF ExplodedRule, Rule

\* What a rule is exploded to depends on these variables only.
LEMMA CopiesFrame ==
  ASSUME UNCHANGED <<block_count, terms, nonterms, map_terms, map_nonterms>>, NEW r, NEW n
  PROVE  /\ Copies(r)' = Copies(r) /\ ExplodedRule(r, n)' = ExplodedRule(r, n)
BY DEF Copies, is_rule_has_indexed_symb, BodyList, BodyMap, ExplodedRule, rule_new_index

LEMMA CopiesType ==
  ASSUME block_count \in Nat, block_count >= 1, NEW r
  PROVE  Copies(r) \in Nat /\ Copies(r) >= 1 /\ Copies(r) <= block_count
BY DEF Copies

LEMMA NewRulesInit == ASSUME Init PROVE NewRulesInv /\ RulesPartsInv
BY DEF Init, WCNFInit, NewRulesInv, RulesPartsInv, Exploding

\* The copies of one rule are appended.
LEMMA RuleCopied ==
  ASSUME parsed \in ParserResults, PartsInv, ExplodeInv, RulesPartsInv, NewRulesInv, ExplodeRule
  PROVE  /\ new_rules' \in Seq(Rule) /\ i' \in Nat /\ i' >= 1 /\ i' <= Len(rules') + 1
         /\ CopiesOf(i)'
<1> DEFINE r == rules[i]
           m == Copies(r)
           tail == [n \in 1 .. m |-> ExplodedRule(r, n - 1)]
<1>1. /\ pc = "explode_rules" /\ i <= Len(rules) /\ i' = i + 1 /\ new_rules' = new_rules \o tail
      /\ rules' = rules
      /\ UNCHANGED <<block_count, terms, nonterms, map_terms, map_nonterms>>
  BY DEF ExplodeRule, splitVars, tableVars
<1>2. /\ rules \in Seq(Rule) /\ i \in Nat /\ i >= 1 /\ CopiesOf(i) /\ new_rules \in Seq(Rule)
      /\ \A k \in 1 .. Len(rules) : SplitRuleOK(terms, nonterms, rules[k])
      /\ block_count = parsed.block_count
  BY <1>1 DEF NewRulesInv, RulesPartsInv, ExplodeInv, Exploding
<1>3. /\ Len(rules) \in Nat /\ i \in 1 .. Len(rules) /\ block_count \in Nat /\ block_count >= 1
  <2>1. parsed.block_count \in Nat /\ parsed.block_count >= 1
    BY ParsedFacts
  <2>2. Len(rules) \in Nat
    BY <1>2
  <2> QED BY <1>1, <1>2, <2>1, <2>2
<1>4. m \in Nat /\ m >= 1
  BY <1>3, CopiesType
<1>5. SplitRuleOK(terms, nonterms, r)
  BY <1>2, <1>3
<1> HIDE DEF m, r
<1>6. tail \in Seq(Rule) /\ Len(tail) = m /\ \A n \in 1 .. m : tail[n] = ExplodedRule(r, n - 1)
  <2>1. \A n \in 1 .. m : ExplodedRule(r, n - 1) \in Rule
    <3>1. ASSUME NEW n \in 1 .. m PROVE ExplodedRule(r, n - 1) \in Rule
      <4>1. n - 1 \in Nat
        BY <1>4
      <4> QED BY <1>1, <1>5, <4>1, CopyType
    <3> QED BY <3>1
  <2>2. tail \in [1 .. m -> Rule]
    BY <2>1
  <2> QED BY <1>4, <2>2
<1> HIDE DEF tail
<1>7. /\ new_rules' \in Seq(Rule) /\ Len(new_rules') = Len(new_rules) + m
      /\ Len(new_rules) \in Nat
      /\ \A q \in 1 .. Len(new_rules) : new_rules'[q] = new_rules[q]
      /\ \A n \in 1 .. m : new_rules'[Len(new_rules) + n] = ExplodedRule(r, n - 1)
  <2>1. Len(new_rules) \in Nat
    BY <1>2
  <2>2. /\ new_rules' \in Seq(Rule) /\ Len(new_rules') = Len(new_rules) + m
        /\ \A q \in 1 .. Len(new_rules) + m : new_rules'[q] =
             IF q <= Len(new_rules) THEN new_rules[q] ELSE tail[q - Len(new_rules)]
    BY <1>1, <1>2, <1>6, ConcatProperties
  <2>3. \A q \in 1 .. Len(new_rules) : new_rules'[q] = new_rules[q]
    BY <1>4, <2>1, <2>2
  <2>4. ASSUME NEW n \in 1 .. m
        PROVE  new_rules'[Len(new_rules) + n] = ExplodedRule(r, n - 1)
    <3>1. /\ Len(new_rules) + n \in 1 .. Len(new_rules) + m /\ ~(Len(new_rules) + n <= Len(new_rules))
          /\ (Len(new_rules) + n) - Len(new_rules) = n
      BY <1>4, <2>1
    <3>2. new_rules'[Len(new_rules) + n] = tail[(Len(new_rules) + n) - Len(new_rules)]
      BY <2>2, <3>1
    <3> QED BY <1>6, <3>1, <3>2
  <2> QED BY <2>1, <2>2, <2>3, <2>4
<1>8. \A x, n : (Copies(x))' = Copies(x) /\ (ExplodedRule(x, n))' = ExplodedRule(x, n)
  BY <1>1, CopiesFrame
<1>9. ASSUME NEW q \in 1 .. Len(new_rules')
      PROVE  \E k \in 1 .. Len(rules) : \E b \in 0 .. Copies(rules[k]) - 1 :
               k < i + 1 /\ new_rules'[q] = ExplodedRule(rules[k], b)
  <2>1. CASE q <= Len(new_rules)
    <3>1. q \in 1 .. Len(new_rules)
      BY <1>7, <2>1
    <3>2. PICK k \in 1 .. Len(rules) : \E b \in 0 .. Copies(rules[k]) - 1 :
            k < i /\ new_rules[q] = ExplodedRule(rules[k], b)
      BY <1>2, <3>1 DEF CopiesOf
    <3>3. k < i + 1
      BY <1>2, <3>2
    <3> QED BY <1>7, <3>1, <3>2, <3>3
  <2>2. CASE q > Len(new_rules)
    <3> DEFINE b == q - Len(new_rules) - 1
    <3>1. /\ b \in 0 .. m - 1 /\ b + 1 \in 1 .. m /\ Len(new_rules) + (b + 1) = q
          /\ (b + 1) - 1 = b
      BY <1>4, <1>7, <2>2
    <3> HIDE DEF b
    <3>2. new_rules'[Len(new_rules) + (b + 1)] = ExplodedRule(r, (b + 1) - 1)
      BY <1>7, <3>1
    <3>3. new_rules'[q] = ExplodedRule(r, b)
      BY <3>1, <3>2
    <3>4. b \in 0 .. Copies(rules[i]) - 1 /\ new_rules'[q] = ExplodedRule(rules[i], b) /\ i < i + 1
      BY <1>3, <3>1, <3>3 DEF m, r
    <3> QED BY <1>3, <3>4
  <2> QED BY <1>7, <2>1, <2>2
<1>10. ASSUME NEW k \in 1 .. Len(rules), NEW b \in 0 .. Copies(rules[k]) - 1, k < i + 1
       PROVE  \E q \in 1 .. Len(new_rules') : new_rules'[q] = ExplodedRule(rules[k], b)
  <2>1. CASE k < i
    <3>1. PICK q \in 1 .. Len(new_rules) : new_rules[q] = ExplodedRule(rules[k], b)
      BY <1>2, <2>1 DEF CopiesOf
    <3>2. q \in 1 .. Len(new_rules')
      BY <1>4, <1>7
    <3> QED BY <1>7, <3>1, <3>2
  <2>2. CASE k = i
    <3>1. b + 1 \in 1 .. m /\ (b + 1) - 1 = b /\ rules[k] = r
      BY <1>4, <2>2 DEF m, r
    <3>2. new_rules'[Len(new_rules) + (b + 1)] = ExplodedRule(r, (b + 1) - 1)
      BY <1>7, <3>1
    <3>3. Len(new_rules) + (b + 1) \in 1 .. Len(new_rules')
      BY <1>4, <1>7, <3>1
    <3> QED BY <3>1, <3>2, <3>3
  <2> QED BY <1>2, <1>10, <2>1, <2>2
<1>11. CopiesOf(i)'
  BY <1>1, <1>8, <1>9, <1>10, SMTT(30) DEF CopiesOf
<1>12. i' \in Nat /\ i' >= 1 /\ i' <= Len(rules') + 1
  BY <1>1, <1>2, <1>3
<1> QED BY <1>7, <1>11, <1>12

LEMMA RulesNext ==
  ASSUME ConversionInv, PartsInv, ExplodeInv, RulesPartsInv, NewRulesInv, [Next]_vars
  PROVE  RulesPartsInv' /\ NewRulesInv'
<1>1. parsed \in ParserResults
  BY DEF ConversionInv, TableInv
<1>2. CASE ConvertGrammar
  <2>1. new_rules' = new_rules /\ pc \in Converting /\ pc' \in Converting \cup {"split"}
    BY <1>2, ConvertFrame DEF Converting, ruleVars
  <2> QED BY <2>1 DEF RulesPartsInv, NewRulesInv, Converting, Exploding
<1>3. CASE SplitSymbol
  <2>1. new_rules' = new_rules /\ pc = "split" /\ pc' = "split"
    BY <1>3 DEF SplitSymbol, ruleVars
  <2> QED BY <2>1 DEF RulesPartsInv, NewRulesInv, Converting, Exploding
<1>4. CASE SplitReturn
  <2>1. /\ new_rules' = new_rules /\ terms' = terms /\ nonterms' = nonterms
        /\ pc = "split" /\ pc' = "explode_terms"
    BY <1>4 DEF SplitReturn, ruleVars
  <2>2. /\ rules' \in Seq(Rule) /\ Len(rules') = Len(rules)
        /\ \A k \in 1 .. Len(rules) : SplitRuleOK(terms, nonterms, rules'[k])
    BY <1>4, RulesSplit
  <2> QED BY <2>1, <2>2 DEF RulesPartsInv, NewRulesInv, Converting, Exploding
<1>5. CASE ExplodeTerm \/ ExplodeNonterm
  <2>1. /\ UNCHANGED <<rules, new_rules, terms, nonterms>> /\ pc' = pc
        /\ pc \in {"explode_terms", "explode_nonterms"}
    BY <1>5 DEF ExplodeTerm, ExplodeNonterm, splitVars, ruleVars
  <2> QED BY <2>1 DEF RulesPartsInv, NewRulesInv, Converting, Exploding
<1>6. CASE ExplodeTableEnd
  <2>1. /\ UNCHANGED <<rules, new_rules, terms, nonterms>> /\ i' = 1
        /\ pc \in {"explode_terms", "explode_nonterms"}
        /\ pc' \in {"explode_nonterms", "explode_rules"}
    BY <1>6 DEF ExplodeTableEnd, splitVars, ruleVars
  <2>2. RulesPartsInv' /\ rules \in Seq(Rule) /\ new_rules = <<>>
    BY <2>1 DEF RulesPartsInv, NewRulesInv, Exploding
  <2>3. Len(rules) \in Nat /\ <<>> \in Seq(Rule) /\ Len(<<>>) = 0
    BY <2>2
  <2>4. /\ \A q \in 1 .. Len(new_rules') : FALSE
        /\ \A k \in 1 .. Len(rules') : ~(k < i')
    BY <2>1, <2>2, <2>3
  <2>5. CopiesOf(i)'
    BY <2>4 DEF CopiesOf
  <2>6. i' \in Nat /\ i' >= 1 /\ i' <= Len(rules') + 1
    BY <2>1, <2>3
  <2> QED BY <2>1, <2>2, <2>3, <2>5, <2>6 DEF NewRulesInv, Converting
<1>7. CASE ExplodeRule
  <2>1. /\ UNCHANGED <<rules, terms, nonterms>> /\ pc = "explode_rules" /\ pc' = "explode_rules"
    BY <1>7 DEF ExplodeRule, splitVars
  <2>2. /\ new_rules' \in Seq(Rule) /\ i' \in Nat /\ i' >= 1 /\ i' <= Len(rules') + 1
        /\ CopiesOf(i)'
    BY <1>1, <1>7, RuleCopied
  <2>3. RulesPartsInv'
    BY <2>1 DEF RulesPartsInv
  <2> QED BY <2>1, <2>2, <2>3 DEF NewRulesInv, Converting
<1>8. CASE ExplodeRulesEnd
  <2>1. new_rules' = new_rules /\ rules' = new_rules /\ pc' = "matrices"
    BY <1>8 DEF ExplodeRulesEnd
  <2> QED BY <2>1 DEF RulesPartsInv, NewRulesInv, Converting, Exploding
<1>9. CASE BuildMatrices
  <2>1. new_rules' = new_rules /\ rules' = rules /\ pc = "matrices" /\ pc' = "prepared"
    BY <1>9 DEF BuildMatrices
  <2> QED BY <2>1 DEF RulesPartsInv, NewRulesInv, Converting, Exploding
<1>10. CASE UNCHANGED vars
  <2>1. UNCHANGED <<pc, i, rules, new_rules, terms, nonterms, map_terms, map_nonterms, block_count>>
    BY <1>10 DEF vars, wcnfVars, splitVars, tableVars, ruleVars
  <2>2. \A x, n : (Copies(x))' = Copies(x) /\ (ExplodedRule(x, n))' = ExplodedRule(x, n)
    BY <2>1, CopiesFrame
  <2>3. CopiesOf(i) => CopiesOf(i)'
    BY <2>1, <2>2 DEF CopiesOf
  <2> QED BY <2>1, <2>3 DEF RulesPartsInv, NewRulesInv
<1> QED BY <1>2, <1>3, <1>4, <1>5, <1>6, <1>7, <1>8, <1>9, <1>10 DEF Next, Step, Prepared

-----------------------------------------------------------------------------
(* The matrices, and the inductive invariant of the preparation             *)

MatricesInv ==
  /\ pc # "prepared" => adj_matrices = <<>>
  /\ pc = "prepared" =>
       adj_matrices = [t \in DOMAIN new_terms |->
         {<<edges[k].u, edges[k].v>> : k \in {n \in DOMAIN edges : edges[n].term_index = t}}]

LEMMA MatricesNext ==
  ASSUME MatricesInv, [Next]_vars
  PROVE  MatricesInv'
<1>1. CASE ConvertGrammar
  <2>1. adj_matrices' = adj_matrices /\ pc \in Converting /\ pc' \in Converting \cup {"split"}
    BY <1>1, ConvertFrame DEF Converting, ruleVars
  <2> QED BY <2>1 DEF MatricesInv, Converting
<1>2. CASE SplitSymbol \/ SplitReturn \/ ExplodeTerm \/ ExplodeNonterm \/ ExplodeTableEnd
             \/ ExplodeRule \/ ExplodeRulesEnd
  <2>1. /\ adj_matrices' = adj_matrices /\ pc # "prepared"
        /\ pc' \in {"split", "explode_terms", "explode_nonterms", "explode_rules", "matrices"}
    BY <1>2 DEF SplitSymbol, SplitReturn, ExplodeTerm, ExplodeNonterm, ExplodeTableEnd,
                ExplodeRule, ExplodeRulesEnd, ruleVars
  <2> QED BY <2>1 DEF MatricesInv
<1>3. CASE BuildMatrices
  <2>1. /\ UNCHANGED <<new_terms, edges>> /\ pc' = "prepared"
        /\ adj_matrices' = [t \in DOMAIN new_terms |->
             {<<edges[k].u, edges[k].v>> : k \in {n \in DOMAIN edges : edges[n].term_index = t}}]
    BY <1>3 DEF BuildMatrices, splitVars, tableVars
  <2> QED BY <2>1 DEF MatricesInv
<1>4. CASE UNCHANGED vars
  <2>1. UNCHANGED <<pc, adj_matrices, new_terms, edges>>
    BY <1>4 DEF vars, wcnfVars, splitVars, tableVars, ruleVars
  <2> QED BY <2>1 DEF MatricesInv
<1> QED BY <1>1, <1>2, <1>3, <1>4 DEF Next, Step, Prepared

\* What is left: the phase and the flag of the empty word.
PhaseInv == pc \in Pcs /\ is_eps_non_term_added \in BOOLEAN

LEMMA PhaseNext ==
  ASSUME PhaseInv, [Next]_vars
  PROVE  PhaseInv'
BY DEF PhaseInv, Pcs, Next, Step, Prepared, ConvertGrammar, WCNFNext, KeepRule, UnitRule,
       TwoTermsRule, OneTermRule, AddEpsRule, AddHelperRule, WCNFReturn, SplitSymbol, SplitReturn,
       ExplodeTerm, ExplodeNonterm, ExplodeTableEnd, ExplodeRule, ExplodeRulesEnd, BuildMatrices,
       wcnfRest, vars, wcnfVars, AtRule

PrepareInv ==
  /\ ConversionInv /\ NamesInv /\ PartsInv /\ ExplodeInv /\ EdgesInv
  /\ RulesPartsInv /\ NewRulesInv /\ MatricesInv /\ BufferInv /\ PhaseInv

LEMMA PrepareInit == ASSUME Init PROVE PrepareInv
<1>1. MatricesInv /\ PhaseInv
  BY DEF Init, WCNFInit, MatricesInv, PhaseInv, Pcs
<1> QED BY <1>1, ConversionInit, NamesInit, PartsInit, ExplodeInit, EdgesInit, NewRulesInit,
           BufferInit DEF PrepareInv

LEMMA PrepareNext == ASSUME PrepareInv, [Next]_vars PROVE PrepareInv'
<1>1. /\ ConversionInv /\ NamesInv /\ PartsInv /\ ExplodeInv /\ EdgesInv
      /\ RulesPartsInv /\ NewRulesInv /\ MatricesInv /\ BufferInv /\ PhaseInv
  BY DEF PrepareInv
<1>2. ConversionInv' /\ NamesInv'
  BY <1>1, ConversionNext, NamesNext
<1>3. PartsInv' /\ ExplodeInv'
  BY <1>1, PartsNext, ExplodeNext
<1>4. EdgesInv' /\ RulesPartsInv' /\ NewRulesInv'
  BY <1>1, EdgesNext, RulesNext
<1>5. MatricesInv' /\ BufferInv' /\ PhaseInv'
  BY <1>1, MatricesNext, BufferNext, PhaseNext
<1> QED BY <1>2, <1>3, <1>4, <1>5 DEF PrepareInv

(***************************************************************************)
(* The state of the preparation at every one of its steps, for any grammar *)
(* and graph whether or not labels clash.                                  *)
(***************************************************************************)
THEOREM PrepareInvariant == Spec => []PrepareInv
BY PrepareInit, PrepareNext, PTL DEF Spec

\* The adjacency matrices are sets of pairs of vertices.
LEMMA MatricesType ==
  ASSUME new_terms \in Seq(Symbol(LabelRecord)), edges \in Seq(Edge), MatricesInv
  PROVE  adj_matrices \in Seq(SUBSET (Nat \X Nat))
<1>1. CASE pc # "prepared"
  <2>1. adj_matrices = <<>>
    BY <1>1 DEF MatricesInv
  <2> QED BY <2>1
<1>2. CASE pc = "prepared"
  <2> DEFINE M(t) == {<<edges[k].u, edges[k].v>> : k \in {n \in DOMAIN edges : edges[n].term_index = t}}
  <2>1. adj_matrices = [t \in DOMAIN new_terms |-> M(t)]
    BY <1>2 DEF MatricesInv
  <2>2. DOMAIN new_terms = 1 .. Len(new_terms) /\ Len(new_terms) \in Nat
    OBVIOUS
  <2>3. \A k \in DOMAIN edges : edges[k].u \in Nat /\ edges[k].v \in Nat
    <3>1. ASSUME NEW k \in DOMAIN edges PROVE edges[k].u \in Nat /\ edges[k].v \in Nat
      <4>1. edges[k] \in Edge
        OBVIOUS
      <4> QED BY <4>1 DEF Edge
    <3> QED BY <3>1
  <2>4. \A t : M(t) \in SUBSET (Nat \X Nat)
    BY <2>3
  <2> HIDE DEF M
  <2>5. adj_matrices \in [1 .. Len(new_terms) -> SUBSET (Nat \X Nat)]
    BY <2>1, <2>2, <2>4
  <2> QED BY <2>2, <2>5
<1> QED BY <1>1, <1>2

\* The types of the exploded tables.
LEMMA TablesType ==
  ASSUME ExplodeInv, pc \in Pcs
  PROVE  /\ new_terms \in Seq(Symbol(LabelRecord)) /\ new_nonterms \in Seq(Symbol(LabelRecord))
         /\ map_terms \in Seq(DOMAIN new_terms) /\ map_nonterms \in Seq(DOMAIN new_nonterms)
<1>1. \A S : <<>> \in Seq(S)
  OBVIOUS
<1>2. ASSUME NEW new, NEW map, NEW m, NEW n, MapTypes(new, map, m, n)
      PROVE  new \in Seq(Symbol(LabelRecord)) /\ map \in Seq(DOMAIN new)
  <2>1. /\ new \in Seq(Symbol(LabelRecord)) /\ map \in Seq(Nat)
        /\ \A s \in 1 .. Len(map) : map[s] \in 1 .. Len(new)
    BY <1>2 DEF MapTypes
  <2>2. DOMAIN new = 1 .. Len(new)
    BY <2>1
  <2>3. map \in [1 .. Len(map) -> DOMAIN new] /\ Len(map) \in Nat
    BY <2>1, <2>2
  <2> QED BY <2>1, <2>3
<1>3. CASE pc \in Converting \cup {"split"}
  BY <1>1, <1>3 DEF ExplodeInv
<1>4. CASE pc = "explode_terms"
  BY <1>1, <1>2, <1>4 DEF ExplodeInv, TableExploded
<1>5. CASE pc = "explode_nonterms"
  BY <1>2, <1>5 DEF ExplodeInv, TableExploded
<1>6. CASE pc \in TablesDone
  BY <1>2, <1>6 DEF ExplodeInv, TableExploded
<1> QED BY <1>3, <1>4, <1>5, <1>6 DEF Pcs, Converting, TablesDone

(***************************************************************************)
(* The types of the adapter's working data: every index written is one a   *)
(* number, every table is a table, at every step.                          *)
(***************************************************************************)
THEOREM PrepareTypes == Spec => []TypeOK
<1>1. ASSUME PrepareInv PROVE TypeOK
  <2>1. /\ ConversionInv /\ NamesInv /\ PartsInv /\ ExplodeInv /\ EdgesInv
        /\ RulesPartsInv /\ NewRulesInv /\ MatricesInv /\ BufferInv /\ PhaseInv
    BY <1>1 DEF PrepareInv
  <2>2. /\ parsed \in ParserResults /\ pc \in Pcs /\ is_eps_non_term_added \in BOOLEAN
        /\ symbols \in Seq(Symbol(LabelRecord)) /\ terms_set \in Seq(Nat) /\ terms_capacity \in Nat
    BY <2>1 DEF ConversionInv, TableInv, TableOf, Grown, TermsInv, PhaseInv
  <2>3. parsed \in ParserResult
    BY <2>2, WCNFAssumption
  <2>4. rules \in Seq(Rule) /\ new_rules \in Seq(Rule)
    <3>1. CASE pc \in {"wcnf", "helpers", "split"}
      BY <2>1, <3>1 DEF ConversionInv, RulesInv, NewRulesInv
    <3>2. CASE pc \in Exploding
      BY <2>1, <3>2 DEF RulesPartsInv, NewRulesInv
    <3>3. CASE pc \in {"matrices", "prepared"}
      BY <2>1, <3>3 DEF NewRulesInv
    <3> QED BY <2>2, <3>1, <3>2, <3>3 DEF Pcs, Exploding
  <2>5. edges \in Seq(Edge) /\ block_count \in Nat \ {0} /\ rules_capacity \in Nat
    BY <2>1 DEF EdgesInv, BufferInv
  <2>6. /\ terms \in Seq(Symbol(LabelRecord)) /\ nonterms \in Seq(Symbol(LabelRecord))
        /\ new_terms \in Seq(Symbol(LabelRecord)) /\ new_nonterms \in Seq(Symbol(LabelRecord))
        /\ map_terms \in Seq(DOMAIN new_terms) /\ map_nonterms \in Seq(DOMAIN new_nonterms)
    BY <2>1, <2>2, TablesType DEF PartsInv, Parted
  <2>7. adj_matrices \in Seq(SUBSET (Nat \X Nat))
    BY <2>1, <2>5, <2>6, MatricesType
  <2> QED BY <2>2, <2>3, <2>4, <2>5, <2>6, <2>7 DEF TypeOK
<1> QED BY <1>1, PrepareInvariant, PTL

-----------------------------------------------------------------------------
(* The split keeps every rule's and every edge's labels                     *)

\* Short sequences, put together.
LEMMA Concat2 == ASSUME NEW a, NEW b PROVE <<a>> \o <<b>> = <<a, b>>
<1>1. /\ <<a>> \in Seq({a, b}) /\ <<b>> \in Seq({a, b}) /\ <<a, b>> \in Seq({a, b})
      /\ Len(<<a>>) = 1 /\ Len(<<b>>) = 1 /\ Len(<<a, b>>) = 2
      /\ <<a>>[1] = a /\ <<b>>[1] = b /\ <<a, b>>[1] = a /\ <<a, b>>[2] = b
  OBVIOUS
<1> DEFINE s == <<a>>
           t == <<b>>
           u == <<a, b>>
           c == s \o t
<1> HIDE DEF s, t, u
<1>2. c \in Seq({a, b}) /\ Len(c) = 2 /\ c[1] = a /\ c[2] = b
  BY <1>1, ConcatProperties DEF s, t
<1> HIDE DEF c
<1>3. \A k \in 1 .. Len(c) : c[k] = u[k]
  BY <1>1, <1>2 DEF u
<1> QED BY <1>1, <1>2, <1>3, SeqEqual DEF s, t, u, c

LEMMA Concat3 == ASSUME NEW a, NEW b, NEW d PROVE <<a, b>> \o <<d>> = <<a, b, d>>
<1>1. /\ <<a, b>> \in Seq({a, b, d}) /\ <<d>> \in Seq({a, b, d}) /\ <<a, b, d>> \in Seq({a, b, d})
      /\ Len(<<a, b>>) = 2 /\ Len(<<d>>) = 1 /\ Len(<<a, b, d>>) = 3
      /\ <<a, b>>[1] = a /\ <<a, b>>[2] = b /\ <<d>>[1] = d
      /\ <<a, b, d>>[1] = a /\ <<a, b, d>>[2] = b /\ <<a, b, d>>[3] = d
  OBVIOUS
<1> DEFINE s == <<a, b>>
           t == <<d>>
           u == <<a, b, d>>
           c == s \o t
<1> HIDE DEF s, t, u
<1>2. c \in Seq({a, b, d}) /\ Len(c) = 3 /\ c[1] = a /\ c[2] = b /\ c[3] = d
  BY <1>1, ConcatProperties DEF s, t
<1> HIDE DEF c
<1>3. \A k \in 1 .. Len(c) : c[k] = u[k]
  BY <1>1, <1>2 DEF u
<1> QED BY <1>1, <1>2, <1>3, SeqEqual DEF s, t, u, c

LEMMA Concat1and2 == ASSUME NEW a, NEW b, NEW d PROVE <<a>> \o <<b, d>> = <<a, b, d>>
<1>1. /\ <<a>> \in Seq({a, b, d}) /\ <<b, d>> \in Seq({a, b, d}) /\ <<a, b, d>> \in Seq({a, b, d})
      /\ Len(<<a>>) = 1 /\ Len(<<b, d>>) = 2 /\ Len(<<a, b, d>>) = 3
      /\ <<a>>[1] = a /\ <<b, d>>[1] = b /\ <<b, d>>[2] = d
      /\ <<a, b, d>>[1] = a /\ <<a, b, d>>[2] = b /\ <<a, b, d>>[3] = d
  OBVIOUS
<1> DEFINE s == <<a>>
           t == <<b, d>>
           u == <<a, b, d>>
           c == s \o t
<1> HIDE DEF s, t, u
<1>2. c \in Seq({a, b, d}) /\ Len(c) = 3 /\ c[1] = a /\ c[2] = b /\ c[3] = d
  BY <1>1, ConcatProperties DEF s, t
<1> HIDE DEF c
<1>3. \A k \in 1 .. Len(c) : c[k] = u[k]
  BY <1>1, <1>2 DEF u
<1> QED BY <1>1, <1>2, <1>3, SeqEqual DEF s, t, u, c

\* The labels of a rule of the split grammar, case by case.
LEMMA SplitSpellIs ==
  ASSUME NEW rule
  PROVE  /\ rule.second = NoSymbol /\ rule.third = NoSymbol =>
              SplitSpell(rule) = <<nonterms[rule.first].label>>
         /\ rule.second # NoSymbol /\ rule.third = NoSymbol =>
              SplitSpell(rule) = <<nonterms[rule.first].label, terms[rule.second].label>>
         /\ rule.second # NoSymbol /\ rule.third # NoSymbol =>
              SplitSpell(rule) = <<nonterms[rule.first].label, nonterms[rule.second].label,
                                   nonterms[rule.third].label>>
<1> DEFINE a == nonterms[rule.first].label
           b == terms[rule.second].label
           c == nonterms[rule.second].label
           d == nonterms[rule.third].label
<1>1. /\ <<a>> \o <<>> = <<a>> /\ <<a, b>> \o <<>> = <<a, b>>
  OBVIOUS
<1>2. ASSUME rule.second = NoSymbol, rule.third = NoSymbol PROVE SplitSpell(rule) = <<a>>
  BY <1>1, <1>2 DEF SplitSpell
<1>3. ASSUME rule.second # NoSymbol, rule.third = NoSymbol PROVE SplitSpell(rule) = <<a, b>>
  <2>1. SplitSpell(rule) = (<<a>> \o <<b>>) \o <<>>
    BY <1>3 DEF SplitSpell, BodyList
  <2>2. <<a>> \o <<b>> = <<a, b>>
    BY Concat2
  <2> QED BY <1>1, <2>1, <2>2
<1>4. ASSUME rule.second # NoSymbol, rule.third # NoSymbol PROVE SplitSpell(rule) = <<a, c, d>>
  <2>1. SplitSpell(rule) = (<<a>> \o <<c>>) \o <<d>>
    BY <1>4 DEF SplitSpell, BodyList
  <2>2. <<a>> \o <<c>> = <<a, c>> /\ <<a, c>> \o <<d>> = <<a, c, d>>
    BY Concat2, Concat3
  <2> QED BY <2>1, <2>2
<1> QED BY <1>2, <1>3, <1>4

\* A rule of the grammar in normal form and its split read the same.
LEMMA SplitSameSpelling ==
  ASSUME symbols \in Seq(Symbol(LabelRecord)),
         Parted(symbols, terms, FALSE), Parted(symbols, nonterms, TRUE),
         \A s \in 1 .. Len(symbols) : Placed(symbols[s], terms, nonterms),
         NEW rule, NormalRule(symbols, rule)
  PROVE  SplitSpell(SplitRule(rule)) = Spell(symbols, rule)
<1>1. Shaped(symbols, rule) /\ 0 \notin 1 .. Len(symbols)
  BY NormalShaped
<1> DEFINE new == SplitRule(rule)
<1>2. /\ SplitRuleOK(terms, nonterms, new)
      /\ nonterms[new.first].label = symbols[rule.first].label
      /\ new.third = NoSymbol <=> rule.third = NoSymbol
      /\ rule.third # NoSymbol =>
           /\ nonterms[new.third].label = symbols[rule.third].label
           /\ nonterms[new.second].label = symbols[rule.second].label
      /\ rule.third = NoSymbol /\ rule.second = NoSymbol => new.second = NoSymbol
      /\ rule.third = NoSymbol /\ rule.second # NoSymbol =>
           /\ new.second \in 1 .. Len(terms)
           /\ terms[new.second].label = symbols[rule.second].label
  BY <1>1, SplitRuleFits
<1>3. 0 \notin 1 .. Len(terms) /\ 0 \notin 1 .. Len(nonterms)
  OBVIOUS
<1> HIDE DEF new
<1>4. CASE rule.second = NoSymbol
  <2>1. rule.third = NoSymbol
    BY <1>1, <1>4 DEF NormalRule, NoSymbol
  <2>2. SplitSpell(new) = <<symbols[rule.first].label>>
    BY <1>2, <1>4, <2>1, SplitSpellIs
  <2> QED BY <1>4, <2>2 DEF Spell, new
<1>5. CASE rule.second # NoSymbol /\ rule.third = NoSymbol
  <2>1. new.second # NoSymbol /\ new.third = NoSymbol
    BY <1>2, <1>3, <1>5 DEF NoSymbol
  <2>2. SplitSpell(new) = <<symbols[rule.first].label, symbols[rule.second].label>>
    BY <1>2, <1>5, <2>1, SplitSpellIs
  <2> QED BY <1>5, <2>2 DEF Spell, new
<1>6. CASE rule.second # NoSymbol /\ rule.third # NoSymbol
  <2>1. new.second # NoSymbol /\ new.third # NoSymbol
    BY <1>2, <1>3, <1>6 DEF NoSymbol, SplitRuleOK
  <2>2. SplitSpell(new) = <<symbols[rule.first].label, symbols[rule.second].label,
                            symbols[rule.third].label>>
    BY <1>2, <1>6, <2>1, SplitSpellIs
  <2> QED BY <1>6, <2>2 DEF Spell, new
<1> QED BY <1>4, <1>5, <1>6

\* The step that does it is SplitReturn.
LEMMA SplitIsReturn ==
  ASSUME Next, pc = "split", pc' = "explode_terms"
  PROVE  SplitReturn
BY ConvertFrame DEF Next, Step, Prepared, SplitSymbol, ExplodeTerm, ExplodeNonterm,
   ExplodeTableEnd, ExplodeRule, ExplodeRulesEnd, BuildMatrices, vars, wcnfVars

(***************************************************************************)
(* grammar_split_terms_nonterms renumbers and renames nothing: each rule   *)
(* and each edge is spelled after the split as before it, for any grammar  *)
(* whose labels do not clash.                                              *)
(***************************************************************************)
THEOREM SplitSpellingKept == Spec => SplitKeepsSpelling
<1>1. ASSUME PrepareInv, Next, NoClash, pc = "split", pc' = "explode_terms"
      PROVE  /\ \A k \in DOMAIN rules : SplitSpell(rules[k])' = Spell(symbols, rules[k])
             /\ \A k \in DOMAIN edges :
                  terms[edges'[k].term_index].label = symbols[edges[k].term_index].label
  <2>1. SplitReturn
    BY <1>1, SplitIsReturn
  <2>2. ConversionInv /\ NamesInv /\ PartsInv /\ EdgesInv
    BY <1>1 DEF PrepareInv
  <2>3. /\ rules \in Seq(Rule) /\ rules' \in Seq(Rule) /\ Len(rules') = Len(rules)
        /\ \A k \in 1 .. Len(rules) : rules'[k] = SplitRule(rules[k])
        /\ symbols \in Seq(Symbol(LabelRecord))
        /\ Parted(symbols, terms, FALSE) /\ Parted(symbols, nonterms, TRUE)
        /\ \A s \in 1 .. Len(symbols) : Placed(symbols[s], terms, nonterms)
    BY <2>1, <2>2, RulesSplit
  <2>4. \A k \in 1 .. Len(rules) : NormalRule(symbols, rules[k])
    BY <1>1, <2>2 DEF ConversionInv, RulesInv
  <2>5. terms' = terms /\ nonterms' = nonterms
    BY <2>1 DEF SplitReturn
  <2>6. ASSUME NEW k \in DOMAIN rules
        PROVE  SplitSpell(rules[k])' = Spell(symbols, rules[k])
    <3>1. k \in 1 .. Len(rules)
      BY <2>3
    <3>2. SplitSpell(SplitRule(rules[k])) = Spell(symbols, rules[k])
      BY <2>3, <2>4, <3>1, SplitSameSpelling
    <3>3. SplitSpell(rules[k])' = SplitSpell(SplitRule(rules[k]))
      BY <2>3, <2>5, <3>1 DEF SplitSpell, BodyList
    <3> QED BY <3>2, <3>3
  <2>7. ASSUME NEW k \in DOMAIN edges
        PROVE  terms[edges'[k].term_index].label = symbols[edges[k].term_index].label
    <3>1. TableInv
      BY <2>2 DEF ConversionInv
    <3>2. edges = parsed.edges
      BY <2>1, <2>2, <3>1, EdgesSplit
    <3>3. k \in 1 .. Len(edges)
      BY <2>2 DEF EdgesInv
    <3>4. SplitEdge(parsed, terms, parsed.edges[k], edges'[k])
      BY <2>1, <2>2, <3>1, <3>3, EdgesSplit
    <3>5. symbols[edges[k].term_index] = parsed.symbols[edges[k].term_index]
      BY <2>2, <3>1, <3>2, <3>3, EdgeLabelStays
    <3> QED BY <3>2, <3>4, <3>5 DEF SplitEdge
  <2> QED BY <2>6, <2>7
<1>2. PrepareInv /\ [Next]_vars =>
        [(NoClash /\ pc = "split" /\ pc' = "explode_terms") =>
           /\ \A k \in DOMAIN rules : SplitSpell(rules[k])' = Spell(symbols, rules[k])
           /\ \A k \in DOMAIN edges :
                terms[edges'[k].term_index].label = symbols[edges[k].term_index].label]_vars
  BY <1>1
<1> QED BY <1>2, PrepareInvariant, PTL DEF Spec, SplitKeepsSpelling

-----------------------------------------------------------------------------
(* The exploded symbols and rules                                           *)

\* Where the blocks of a table are when it is done.
LEMMA BlocksAreThere ==
  ASSUME NEW list \in Seq(Symbol(LabelRecord)), NEW c, NEW new, NEW map,
         TableExploded(c, list, new, map, Len(list), 0), NumeratesApart(c, list),
         NEW s \in 1 .. Len(list), NEW n \in 0 .. Blocks(c, list[s]) - 1
  PROVE  map[s] + n \in 1 .. Len(new) /\ new[map[s] + n] = Block(list[s], n)
<1>1. BlocksOfTable(c, list, new, map, Len(list), 0) /\ Passed(s, n, Len(list), 0)
  BY DEF TableExploded, Passed
<1> QED BY <1>1 DEF BlocksOfTable

\* rule_new_index finds the block of the symbol, indexed or not.
LEMMA NewIndexFinds ==
  ASSUME NEW list \in Seq(Symbol(LabelRecord)), NEW c \in Nat, c >= 1, NEW new, NEW map,
         TableExploded(c, list, new, map, Len(list), 0), NumeratesApart(c, list),
         NEW s \in 1 .. Len(list), NEW n \in 0 .. c - 1
  PROVE  LET at == rule_new_index(map, list, s, n)
         IN at \in 1 .. Len(new) /\ new[at].label = symbol_numerate(list[s].label, n)
<1>1. s # NoSymbol
  BY DEF NoSymbol
<1>2. CASE IsIndexed(list[s].label)
  <2>1. n \in 0 .. Blocks(c, list[s]) - 1 /\ rule_new_index(map, list, s, n) = map[s] + n
    BY <1>1, <1>2 DEF Blocks, rule_new_index
  <2>2. map[s] + n \in 1 .. Len(new) /\ new[map[s] + n] = Block(list[s], n)
    BY <2>1, BlocksAreThere
  <2> QED BY <2>1, <2>2 DEF Block
<1>3. CASE ~IsIndexed(list[s].label)
  <2>1. 0 \in 0 .. Blocks(c, list[s]) - 1 /\ rule_new_index(map, list, s, n) = map[s]
    BY <1>1, <1>3 DEF Blocks, rule_new_index
  <2>2. map[s] + 0 \in 1 .. Len(new) /\ new[map[s] + 0] = Block(list[s], 0)
    BY <2>1, BlocksAreThere
  <2>3. map[s] \in Nat
    <3>1. map \in Seq(Nat) /\ Len(map) = Len(list)
      BY DEF TableExploded, MapTypes
    <3> QED BY <3>1
  <2>4. map[s] + 0 = map[s]
    BY <2>3
  <2>5. symbol_numerate(list[s].label, n) = symbol_numerate(list[s].label, 0)
    BY <1>3 DEF symbol_numerate
  <2> QED BY <2>1, <2>2, <2>4, <2>5 DEF Block
<1> QED BY <1>2, <1>3

\* The state in which the rules are exploded, when labels are clean.
CleanTables ==
  /\ block_count = parsed.block_count /\ block_count \in Nat /\ block_count >= 1
  /\ terms \in Seq(Symbol(LabelRecord)) /\ nonterms \in Seq(Symbol(LabelRecord))
  /\ TableExploded(block_count, terms, new_terms, map_terms, Len(terms), 0)
  /\ TableExploded(block_count, nonterms, new_nonterms, map_nonterms, Len(nonterms), 0)
  /\ NumeratesApart(block_count, terms) /\ NumeratesApart(block_count, nonterms)

LEMMA CleanTablesHold ==
  ASSUME PrepareInv, Clean, pc = "explode_rules"
  PROVE  CleanTables
<1>1. TableInv /\ NamesInv /\ PartsInv /\ ExplodeInv /\ parsed \in ParserResults
  BY DEF PrepareInv, ConversionInv, TableInv
<1>2. Parted(symbols, terms, FALSE) /\ Parted(symbols, nonterms, TRUE)
  BY <1>1 DEF PartsInv
<1>3. NumeratesApart(parsed.block_count, terms) /\ NumeratesApart(parsed.block_count, nonterms)
  BY <1>1, <1>2, CleanApart
<1>4. parsed.block_count \in Nat /\ parsed.block_count >= 1
  BY <1>1, ParsedFacts
<1> QED BY <1>1, <1>2, <1>3, <1>4 DEF CleanTables, ExplodeInv, TablesDone, Parted

\* The labels of an exploded rule.
LEMMA CopySpelled ==
  ASSUME CleanTables, NEW rule, SplitRuleOK(terms, nonterms, rule), NEW n \in 0 .. block_count - 1
  PROVE  ExplodedSpell(ExplodedRule(rule, n)) = NumeratedSpell(rule, n)
<1> DEFINE new == ExplodedRule(rule, n)
           f == nonterms[rule.first].label
           t == terms[rule.second].label
           s == nonterms[rule.second].label
           d == nonterms[rule.third].label
<1>1. /\ rule.first \in 1 .. Len(nonterms) /\ rule.first # NoSymbol
      /\ new.first = rule_new_index(map_nonterms, nonterms, rule.first, n)
      /\ new.second = rule_new_index(BodyMap(rule), BodyList(rule), rule.second, n)
      /\ new.third = rule_new_index(map_nonterms, nonterms, rule.third, n)
  BY DEF SplitRuleOK, ExplodedRule, NoSymbol
<1>2. \A q \in 1 .. Len(nonterms) :
        LET at == rule_new_index(map_nonterms, nonterms, q, n)
        IN at \in 1 .. Len(new_nonterms)
           /\ new_nonterms[at].label = symbol_numerate(nonterms[q].label, n)
  BY NewIndexFinds DEF CleanTables
<1>3. \A q \in 1 .. Len(terms) :
        LET at == rule_new_index(map_terms, terms, q, n)
        IN at \in 1 .. Len(new_terms) /\ new_terms[at].label = symbol_numerate(terms[q].label, n)
  BY NewIndexFinds DEF CleanTables
<1>4. 0 \notin 1 .. Len(new_terms) /\ 0 \notin 1 .. Len(new_nonterms)
      /\ 0 \notin 1 .. Len(nonterms)
  OBVIOUS
<1>5. new_nonterms[new.first].label = symbol_numerate(f, n)
  BY <1>1, <1>2
<1> HIDE DEF new
<1>6. CASE rule.second = NoSymbol /\ rule.third = NoSymbol
  <2>1. new.second = NoSymbol
    BY <1>1, <1>6 DEF rule_new_index
  <2>2. ExplodedSpell(new) = <<symbol_numerate(f, n)>> \o <<>>
    BY <1>5, <2>1 DEF ExplodedSpell
  <2>3. SplitSpell(rule) = <<f>>
    BY <1>6, SplitSpellIs
  <2>4. NumeratedSpell(rule, n) = [k \in DOMAIN <<f>> |-> symbol_numerate(<<f>>[k], n)]
    BY <2>3 DEF NumeratedSpell
  <2> HIDE DEF f
  <2>5. [k \in DOMAIN <<f>> |-> symbol_numerate(<<f>>[k], n)] = <<symbol_numerate(f, n)>>
    OBVIOUS
  <2>6. <<symbol_numerate(f, n)>> \o <<>> = <<symbol_numerate(f, n)>>
    OBVIOUS
  <2> QED BY <2>2, <2>4, <2>5, <2>6 DEF new
<1>7. CASE rule.second # NoSymbol /\ rule.third = NoSymbol
  <2>1. rule.second \in 1 .. Len(terms) /\ BodyMap(rule) = map_terms /\ BodyList(rule) = terms
    <3>1. rule.second \in 0 .. Len(terms) /\ Len(terms) \in Nat
      BY <1>4, <1>7 DEF SplitRuleOK, NoSymbol, CleanTables
    <3> QED BY <1>7, <3>1 DEF BodyMap, BodyList, NoSymbol
  <2>2. new.second \in 1 .. Len(new_terms) /\ new_terms[new.second].label = symbol_numerate(t, n)
    BY <1>1, <1>3, <2>1
  <2>3. new.third = NoSymbol /\ new.second # NoSymbol
    BY <1>1, <1>4, <1>7, <2>2 DEF rule_new_index, NoSymbol
  <2>4. ExplodedSpell(new) = <<symbol_numerate(f, n)>> \o <<symbol_numerate(t, n)>>
    BY <1>5, <2>2, <2>3 DEF ExplodedSpell
  <2>5. SplitSpell(rule) = <<f, t>>
    BY <1>7, SplitSpellIs
  <2>6. NumeratedSpell(rule, n) = [k \in DOMAIN <<f, t>> |-> symbol_numerate(<<f, t>>[k], n)]
    BY <2>5 DEF NumeratedSpell
  <2> HIDE DEF f, t
  <2>7. [k \in DOMAIN <<f, t>> |-> symbol_numerate(<<f, t>>[k], n)]
          = <<symbol_numerate(f, n), symbol_numerate(t, n)>>
    OBVIOUS
  <2>8. <<symbol_numerate(f, n)>> \o <<symbol_numerate(t, n)>>
          = <<symbol_numerate(f, n), symbol_numerate(t, n)>>
    BY Concat2
  <2> QED BY <2>4, <2>6, <2>7, <2>8 DEF new
<1>8. CASE rule.third # NoSymbol
  <2>1. /\ rule.second \in 1 .. Len(nonterms) /\ rule.third \in 1 .. Len(nonterms)
        /\ rule.second # NoSymbol
        /\ BodyMap(rule) = map_nonterms /\ BodyList(rule) = nonterms
    BY <1>4, <1>8 DEF SplitRuleOK, NoSymbol, BodyMap, BodyList
  <2>2. /\ new.second \in 1 .. Len(new_nonterms) /\ new_nonterms[new.second].label = symbol_numerate(s, n)
        /\ new.third \in 1 .. Len(new_nonterms) /\ new_nonterms[new.third].label = symbol_numerate(d, n)
    BY <1>1, <1>2, <2>1
  <2>3. new.third # NoSymbol /\ new.second # NoSymbol
    BY <1>4, <2>2 DEF NoSymbol
  <2>4. ExplodedSpell(new) = <<symbol_numerate(f, n)>> \o <<symbol_numerate(s, n), symbol_numerate(d, n)>>
    BY <1>5, <2>2, <2>3 DEF ExplodedSpell
  <2>5. SplitSpell(rule) = <<f, s, d>>
    BY <1>8, <2>1, SplitSpellIs
  <2>6. NumeratedSpell(rule, n) = [k \in DOMAIN <<f, s, d>> |-> symbol_numerate(<<f, s, d>>[k], n)]
    BY <2>5 DEF NumeratedSpell
  <2> HIDE DEF f, s, d
  <2>7. [k \in DOMAIN <<f, s, d>> |-> symbol_numerate(<<f, s, d>>[k], n)]
          = <<symbol_numerate(f, n), symbol_numerate(s, n), symbol_numerate(d, n)>>
    OBVIOUS
  <2>8. <<symbol_numerate(f, n)>> \o <<symbol_numerate(s, n), symbol_numerate(d, n)>>
          = <<symbol_numerate(f, n), symbol_numerate(s, n), symbol_numerate(d, n)>>
    BY Concat1and2
  <2> QED BY <2>4, <2>6, <2>7, <2>8 DEF new
<1> QED BY <1>6, <1>7, <1>8

\* A rule without an indexed symbol reads the same in every block.
LEMMA PlainRule ==
  ASSUME NEW rule, ~is_rule_has_indexed_symb(rule), NEW n, NEW q
  PROVE  NumeratedSpell(rule, n) = NumeratedSpell(rule, q)
<1> DEFINE f == nonterms[rule.first].label
           t == terms[rule.second].label
           s == nonterms[rule.second].label
           d == nonterms[rule.third].label
<1>1. /\ ~IsIndexed(f)
      /\ rule.second # NoSymbol => ~IsIndexed(BodyList(rule)[rule.second].label)
      /\ rule.third # NoSymbol => ~IsIndexed(d)
  BY DEF is_rule_has_indexed_symb
<1>2. symbol_numerate(f, n) = f /\ symbol_numerate(f, q) = f
  BY <1>1 DEF symbol_numerate
<1>3. \A k \in DOMAIN SplitSpell(rule) : ~IsIndexed(SplitSpell(rule)[k])
  <2>1. CASE rule.second = NoSymbol /\ rule.third = NoSymbol
    <3>1. SplitSpell(rule) = <<f>>
      BY <2>1, SplitSpellIs
    <3> HIDE DEF f
    <3> QED BY <1>1, <3>1
  <2>2. CASE rule.second # NoSymbol /\ rule.third = NoSymbol
    <3>1. SplitSpell(rule) = <<f, t>> /\ ~IsIndexed(t)
      BY <1>1, <2>2, SplitSpellIs DEF BodyList
    <3> HIDE DEF f, t
    <3> QED BY <1>1, <3>1
  <2>3. CASE rule.second # NoSymbol /\ rule.third # NoSymbol
    <3>1. SplitSpell(rule) = <<f, s, d>> /\ ~IsIndexed(s)
      BY <1>1, <2>3, SplitSpellIs DEF BodyList
    <3> HIDE DEF f, s, d
    <3> QED BY <1>1, <2>3, <3>1
  <2>4. CASE rule.second = NoSymbol /\ rule.third # NoSymbol
    <3>1. SplitSpell(rule) = (<<f>> \o <<>>) \o <<d>>
      BY <2>4 DEF SplitSpell
    <3>2. <<f>> \o <<>> = <<f>> /\ <<f>> \o <<d>> = <<f, d>>
      BY Concat2
    <3>3. SplitSpell(rule) = <<f, d>>
      BY <3>1, <3>2
    <3> HIDE DEF f, d
    <3> QED BY <1>1, <2>4, <3>3
  <2> QED BY <2>1, <2>2, <2>3, <2>4
<1>4. \A k \in DOMAIN SplitSpell(rule) :
        symbol_numerate(SplitSpell(rule)[k], n) = symbol_numerate(SplitSpell(rule)[k], q)
  BY <1>3 DEF symbol_numerate
<1> QED BY <1>4 DEF NumeratedSpell

\* Every index of a block in range is that of a copy that reads the same.
LEMMA EveryBlockCopied ==
  ASSUME block_count \in Nat, block_count >= 1, NEW rule, NEW n \in 0 .. block_count - 1
  PROVE  \E b \in 0 .. Copies(rule) - 1 : NumeratedSpell(rule, b) = NumeratedSpell(rule, n)
<1>1. CASE is_rule_has_indexed_symb(rule)
  <2>1. Copies(rule) = block_count
    BY <1>1 DEF Copies
  <2> QED BY <2>1
<1>2. CASE ~is_rule_has_indexed_symb(rule)
  <2>1. Copies(rule) = 1 /\ NumeratedSpell(rule, 0) = NumeratedSpell(rule, n)
    BY <1>2, PlainRule DEF Copies
  <2>2. 0 \in 0 .. Copies(rule) - 1
    BY <2>1
  <2> QED BY <2>1, <2>2
<1> QED BY <1>1, <1>2

\* The rules done so far, exploded, are those of the grammar with every block number put in.
LEMMA ExplodedAsNumerated ==
  ASSUME PrepareInv, Clean, pc = "explode_rules"
  PROVE  /\ \A q \in DOMAIN new_rules : \E k \in 1 .. i - 1 : \E n \in 0 .. block_count - 1 :
              ExplodedSpell(new_rules[q]) = NumeratedSpell(rules[k], n)
         /\ \A k \in 1 .. i - 1 : \A n \in 0 .. block_count - 1 : \E q \in DOMAIN new_rules :
              ExplodedSpell(new_rules[q]) = NumeratedSpell(rules[k], n)
<1>1. CleanTables
  BY CleanTablesHold
<1>2. /\ rules \in Seq(Rule) /\ new_rules \in Seq(Rule) /\ CopiesOf(i)
      /\ i \in Nat /\ i >= 1 /\ i <= Len(rules) + 1
      /\ \A k \in 1 .. Len(rules) : SplitRuleOK(terms, nonterms, rules[k])
  BY DEF PrepareInv, NewRulesInv, RulesPartsInv, Exploding
<1>3. block_count \in Nat /\ block_count >= 1 /\ Len(rules) \in Nat
      /\ DOMAIN new_rules = 1 .. Len(new_rules)
  BY <1>1, <1>2 DEF CleanTables
<1>4. ASSUME NEW q \in DOMAIN new_rules
      PROVE  \E k \in 1 .. i - 1 : \E n \in 0 .. block_count - 1 :
               ExplodedSpell(new_rules[q]) = NumeratedSpell(rules[k], n)
  <2>1. PICK k \in 1 .. Len(rules) : \E b \in 0 .. Copies(rules[k]) - 1 :
          k < i /\ new_rules[q] = ExplodedRule(rules[k], b)
    BY <1>2, <1>3 DEF CopiesOf
  <2>2. PICK b \in 0 .. Copies(rules[k]) - 1 : k < i /\ new_rules[q] = ExplodedRule(rules[k], b)
    BY <2>1
  <2>3. Copies(rules[k]) \in Nat /\ Copies(rules[k]) <= block_count
    BY <1>3, CopiesType
  <2>4. b \in 0 .. block_count - 1 /\ k \in 1 .. i - 1
    BY <1>2, <1>3, <2>2, <2>3
  <2>5. ExplodedSpell(new_rules[q]) = NumeratedSpell(rules[k], b)
    BY <1>1, <1>2, <2>2, <2>4, CopySpelled
  <2> QED BY <2>4, <2>5
<1>5. ASSUME NEW k \in 1 .. i - 1, NEW n \in 0 .. block_count - 1
      PROVE  \E q \in DOMAIN new_rules : ExplodedSpell(new_rules[q]) = NumeratedSpell(rules[k], n)
  <2>1. k \in 1 .. Len(rules) /\ k < i
    BY <1>2, <1>3
  <2>2. PICK b \in 0 .. Copies(rules[k]) - 1 : NumeratedSpell(rules[k], b) = NumeratedSpell(rules[k], n)
    BY <1>3, EveryBlockCopied
  <2>3. PICK q \in 1 .. Len(new_rules) : new_rules[q] = ExplodedRule(rules[k], b)
    BY <1>2, <2>1 DEF CopiesOf
  <2>4. Copies(rules[k]) \in Nat /\ Copies(rules[k]) <= block_count
    BY <1>3, CopiesType
  <2>5. b \in 0 .. block_count - 1
    BY <1>3, <2>4
  <2>6. ExplodedSpell(new_rules[q]) = NumeratedSpell(rules[k], b)
    BY <1>1, <1>2, <2>1, <2>3, <2>5, CopySpelled
  <2> QED BY <1>3, <2>2, <2>3, <2>6
<1> QED BY <1>4, <1>5

(***************************************************************************)
(* explode_indices_CFL gives every indexed symbol one symbol per block, in *)
(* a row, and every rule its copies with one block number throughout, for  *)
(* any number of blocks, if no label reads like a block of another.        *)
(***************************************************************************)
THEOREM ExplosionFaithful == Spec => []IndicesExploded
<1>1. ASSUME PrepareInv PROVE BlocksContiguous
  <2>1. SUFFICES ASSUME Clean, pc = "explode_rules",
                        NEW list, NEW new, NEW map,
                        \/ list = terms /\ new = new_terms /\ map = map_terms
                        \/ list = nonterms /\ new = new_nonterms /\ map = map_nonterms,
                        NEW s \in DOMAIN list,
                        NEW n \in 0 .. (IF IsIndexed(list[s].label) THEN block_count - 1 ELSE 0)
                 PROVE  /\ map[s] + n \in DOMAIN new
                        /\ new[map[s] + n] = [label |-> symbol_numerate(list[s].label, n),
                                              is_nonterm |-> list[s].is_nonterm]
    BY DEF BlocksContiguous
  <2>2. CleanTables
    BY <1>1, <2>1, CleanTablesHold
  <2>3. /\ list \in Seq(Symbol(LabelRecord)) /\ NumeratesApart(block_count, list)
        /\ TableExploded(block_count, list, new, map, Len(list), 0)
        /\ block_count \in Nat
    BY <2>1, <2>2 DEF CleanTables
  <2>4. s \in 1 .. Len(list) /\ n \in 0 .. Blocks(block_count, list[s]) - 1
    BY <2>1, <2>3 DEF Blocks
  <2>5. map[s] + n \in 1 .. Len(new) /\ new[map[s] + n] = Block(list[s], n)
    BY <2>3, <2>4, BlocksAreThere
  <2>6. DOMAIN new = 1 .. Len(new)
    BY <2>3 DEF TableExploded, MapTypes
  <2> QED BY <2>5, <2>6 DEF Block
<1>2. ASSUME PrepareInv PROVE RulesExploded
  BY <1>2, ExplodedAsNumerated DEF RulesExploded
<1>3. PrepareInv => IndicesExploded
  BY <1>1, <1>2 DEF IndicesExploded
<1> QED BY <1>3, PrepareInvariant, PTL

\* The matrix of an exploded terminal holds the edges with its label and block.
LEMMA MatrixHolds ==
  ASSUME PrepareInv, Clean, IndexOnlyOnIndexed, pc = "prepared", NEW t \in DOMAIN new_terms
  PROVE  adj_matrices[t] =
           {<<parsed.edges[k].u, parsed.edges[k].v>> :
              k \in {n \in DOMAIN parsed.edges :
                      symbol_numerate(parsed.symbols[parsed.edges[n].term_index].label,
                                      parsed.edges[n].index) = new_terms[t].label}}
<1> DEFINE label(n) == parsed.symbols[parsed.edges[n].term_index].label
           A == {n \in DOMAIN edges : edges[n].term_index = t}
           B == {n \in DOMAIN parsed.edges :
                   symbol_numerate(label(n), parsed.edges[n].index) = new_terms[t].label}
<1>1. /\ TableInv /\ NamesInv /\ PartsInv /\ ExplodeInv /\ EdgesInv /\ MatricesInv
      /\ parsed \in ParserResults
  BY DEF PrepareInv, ConversionInv, TableInv
<1>2. adj_matrices[t] = {<<edges[k].u, edges[k].v>> : k \in A}
  BY <1>1 DEF MatricesInv
<1>3. /\ Parted(symbols, terms, FALSE) /\ terms \in Seq(Symbol(LabelRecord))
      /\ TableExploded(parsed.block_count, terms, new_terms, map_terms, Len(terms), 0)
  BY <1>1 DEF PartsInv, Parted, ExplodeInv, TablesDone
<1>4. NumeratesApart(parsed.block_count, terms)
  BY <1>1, <1>3, CleanApart
<1>5. /\ new_terms \in Seq(Symbol(LabelRecord)) /\ DistinctLabels(new_terms)
      /\ DOMAIN new_terms = 1 .. Len(new_terms)
  BY <1>3 DEF TableExploded, MapTypes
<1>6. /\ edges \in Seq(Edge) /\ Len(edges) = Len(parsed.edges)
      /\ \A k \in 1 .. Len(edges) :
           BlockEdge(parsed, terms, map_terms, parsed.edges[k], edges[k])
  BY <1>1 DEF EdgesInv
<1>7. /\ DOMAIN edges = 1 .. Len(edges) /\ DOMAIN parsed.edges = 1 .. Len(edges)
      /\ \A k \in 1 .. Len(edges) :
           parsed.edges[k].index \in Nat /\ parsed.edges[k].index < parsed.block_count
      /\ parsed.block_count \in Nat
  <2>1. parsed.edges \in Seq(Edge) /\ parsed.block_count \in Nat
    BY <1>1, ParsedEdges, ParsedFacts
  <2>2. \A k \in 1 .. Len(parsed.edges) :
          parsed.edges[k].index \in Nat /\ parsed.edges[k].index < parsed.block_count
    BY <1>1, ParsedEdges
  <2> QED BY <1>6, <2>1, <2>2
<1>8. ASSUME NEW k \in 1 .. Len(edges)
      PROVE  /\ edges[k].u = parsed.edges[k].u /\ edges[k].v = parsed.edges[k].v
             /\ k \in A <=> k \in B
  <2> DEFINE x == parsed.edges[k].index
  <2>1. /\ edges[k].u = parsed.edges[k].u /\ edges[k].v = parsed.edges[k].v
        /\ \E s \in 1 .. Len(terms) :
             terms[s].label = label(k) /\ edges[k].term_index = map_terms[s] + x
    BY <1>6 DEF BlockEdge
  <2>2. PICK s \in 1 .. Len(terms) :
          terms[s].label = label(k) /\ edges[k].term_index = map_terms[s] + x
    BY <2>1
  <2>3. x > 0 => IsIndexed(label(k))
    BY <1>7 DEF IndexOnlyOnIndexed
  <2>4. x \in 0 .. Blocks(parsed.block_count, terms[s]) - 1
    BY <1>7, <2>2, <2>3 DEF Blocks
  <2>5. /\ map_terms[s] + x \in 1 .. Len(new_terms)
        /\ new_terms[map_terms[s] + x] = Block(terms[s], x)
    BY <1>3, <1>4, <2>4, BlocksAreThere
  <2>6. new_terms[edges[k].term_index].label = symbol_numerate(label(k), x)
    BY <2>2, <2>5 DEF Block
  <2>7. edges[k].term_index = t <=> symbol_numerate(label(k), x) = new_terms[t].label
    BY <1>5, <2>2, <2>5, <2>6 DEF DistinctLabels
  <2> QED BY <1>7, <2>1, <2>7
<1>9. A = B
  BY <1>7, <1>8
<1>10. \A k \in A : edges[k].u = parsed.edges[k].u /\ edges[k].v = parsed.edges[k].v
  BY <1>7, <1>8
<1>11. {<<edges[k].u, edges[k].v>> : k \in A}
         = {<<parsed.edges[k].u, parsed.edges[k].v>> : k \in B}
  BY <1>9, <1>10
<1> QED BY <1>2, <1>11

(***************************************************************************)
(* The adapter hands the algorithm the graph of the file: the matrix of a  *)
(* symbol of the exploded grammar holds just the edges with its label and  *)
(* block, if labels are clean and only indexed ones have an index.         *)
(***************************************************************************)
THEOREM MatricesAreTheGraph == Spec => []MatricesMatchGraph
<1>1. PrepareInv => MatricesMatchGraph
  BY MatrixHolds DEF MatricesMatchGraph, EdgesInTheirMatrix
<1> QED BY <1>1, PrepareInvariant, PTL

-----------------------------------------------------------------------------
(***************************************************************************)
(* The language.  Every symbol the conversion adds is the nonterminal of   *)
(* the empty word or the helper of a terminal in terms_set, and gets its   *)
(* one rule in the end; a rewritten rule has, in the place of a symbol of  *)
(* the file, that symbol or its helper.                                    *)
(***************************************************************************)

AddedOK(p, list, eps, ts) ==
  \A n \in 1 .. Len(list) : n > Len(p.symbols) =>
    \/ eps = TRUE /\ list[n].label = EpsLabel
    \/ \E m \in 1 .. Len(ts) : list[n].label = HelperLabel(p.symbols[ts[m]].label)

IsEps(p, list, n) ==
  n \in 1 .. Len(list) /\ n > Len(p.symbols) /\ list[n].label = EpsLabel

IsHelper(p, list, n, t) ==
  /\ n \in 1 .. Len(list) /\ n > Len(p.symbols) /\ InputTerm(p, t)
  /\ list[n].label = HelperLabel(p.symbols[t].label)

\* Symbol n of a rewritten rule stands for s of the file's.
Stands(p, list, n, s) == (n = s /\ s \in 0 .. Len(p.symbols)) \/ IsHelper(p, list, n, s)

RuleKept(p, list, new, old) ==
  /\ new.first = old.first /\ Stands(p, list, new.second, old.second)
  /\ \/ Stands(p, list, new.third, old.third)
     \/ old.third = NoSymbol /\ new.second = old.second /\ IsEps(p, list, new.third)

EpsRules(eps) == IF eps = TRUE THEN 1 ELSE 0

\* The rules after the file's: the empty word's, then those of the first m helpers.
TailOK(p, list, all, eps, ts, m) ==
  /\ Len(all) = Len(p.rules) + EpsRules(eps) + m
  /\ eps = TRUE => /\ IsEps(p, list, all[Len(p.rules) + 1].first)
                   /\ all[Len(p.rules) + 1].second = NoSymbol
                   /\ all[Len(p.rules) + 1].third = NoSymbol
  /\ \A q \in 1 .. m :
       /\ IsHelper(p, list, all[Len(p.rules) + EpsRules(eps) + q].first, ts[q])
       /\ all[Len(p.rules) + EpsRules(eps) + q].second = ts[q]
       /\ all[Len(p.rules) + EpsRules(eps) + q].third = NoSymbol

HelpersDone == IF pc = "helpers" THEN i - 1 ELSE Len(terms_set)

LanguageInv ==
  NoClash =>
    /\ is_eps_non_term_added \in BOOLEAN
    /\ pc \in {"wcnf", "helpers", "split"} =>
         AddedOK(parsed, symbols, is_eps_non_term_added, terms_set)
    /\ pc = "wcnf" =>
         \A k \in 1 .. Len(rules) : k < i => RuleKept(parsed, symbols, rules[k], parsed.rules[k])
    /\ pc \in {"helpers", "split"} =>
         /\ \A k \in 1 .. Len(parsed.rules) :
              RuleKept(parsed, symbols, rules[k], parsed.rules[k])
         /\ TailOK(parsed, symbols, rules, is_eps_non_term_added, terms_set, HelpersDone)
    /\ pc = "helpers" => i <= Len(terms_set) + 1

\* What stands for a symbol, and what is made up, stays so while the table grows.
LEMMA MadeUpStays ==
  ASSUME NEW p, NEW list \in Seq(Symbol(LabelRecord)), NEW new, Grown(list, new)
  PROVE  /\ \A n : IsEps(p, list, n) => IsEps(p, new, n)
         /\ \A n, t : IsHelper(p, list, n, t) => IsHelper(p, new, n, t)
<1>1. \A n \in 1 .. Len(list) : n \in 1 .. Len(new) /\ new[n].label = list[n].label
  <2>1. Len(list) \in Nat /\ Len(new) \in Nat /\ Len(new) >= Len(list)
    BY DEF Grown
  <2> QED BY <2>1 DEF Grown
<1> QED BY <1>1 DEF IsEps, IsHelper

\* So do the rules already rewritten.
LEMMA RuleKeptStays ==
  ASSUME NEW p, NEW list \in Seq(Symbol(LabelRecord)), NEW new, Grown(list, new),
         NEW rule, NEW old, RuleKept(p, list, rule, old)
  PROVE  RuleKept(p, new, rule, old)
BY MadeUpStays DEF RuleKept, Stands

\* And the rules appended.
LEMMA TailStays ==
  ASSUME NEW p, NEW list \in Seq(Symbol(LabelRecord)), NEW new, Grown(list, new),
         NEW all, NEW eps, NEW ts, NEW m, TailOK(p, list, all, eps, ts, m)
  PROVE  TailOK(p, new, all, eps, ts, m)
BY MadeUpStays DEF TailOK

\* A made-up label is added behind the symbols of the input.
LEMMA AddMadeUp ==
  ASSUME NEW p \in ParserResults, NEW list, Grown(p.symbols, list), NEW str \in LabelRecord,
         \A s \in 1 .. Len(p.symbols) : p.symbols[s].label # str
  PROVE  LET new == symbol_list_add_str(list, str, TRUE)
             at == AddedIndex(list, str)
         IN /\ list \in Seq(Symbol(LabelRecord)) /\ Grown(list, new) /\ Grown(p.symbols, new)
            /\ at \in 1 .. Len(new) /\ at > Len(p.symbols) /\ new[at].label = str
            /\ \A s \in 1 .. Len(new) : s > Len(list) => new[s].label = str
<1> DEFINE new == symbol_list_add_str(list, str, TRUE)
           at == AddedIndex(list, str)
<1>1. /\ list \in Seq(Symbol(LabelRecord)) /\ Len(list) \in Nat /\ Len(p.symbols) \in Nat
      /\ Len(p.symbols) <= Len(list)
  BY ParsedFacts DEF Grown
<1>2. IsAdded(LabelRecord, list, str, TRUE, new, at)
  BY <1>1, AddStr
<1>3. Grown(list, new)
  BY <1>1, AddNonterm
<1> HIDE DEF new, at
<1>4. Grown(p.symbols, new)
  BY <1>1, <1>3, GrownTrans
<1>5. /\ at \in 1 .. Len(new) /\ new[at].label = str
      /\ \A s \in 1 .. Len(new) : s > Len(list) => new[s].label = str
  BY <1>2 DEF IsAdded
<1>6. at > Len(p.symbols)
  <2>1. ASSUME at \in 1 .. Len(p.symbols) PROVE FALSE
    BY <1>4, <1>5, <2>1 DEF Grown
  <2> QED BY <1>1, <1>5, <2>1
<1> QED BY <1>1, <1>3, <1>4, <1>5, <1>6 DEF new, at

\* The symbols added are accounted for when terms_set or the flag grow with the table.
LEMMA AddedGrows ==
  ASSUME NEW p, NEW list \in Seq(Symbol(LabelRecord)), NEW new, Grown(list, new),
         NEW eps, NEW ts, NEW eps2, NEW ts2, AddedOK(p, list, eps, ts),
         eps = TRUE => eps2 = TRUE,
         \A m \in 1 .. Len(ts) : m \in 1 .. Len(ts2) /\ ts2[m] = ts[m],
         \A n \in 1 .. Len(new) : n > Len(list) =>
           \/ eps2 = TRUE /\ new[n].label = EpsLabel
           \/ \E m \in 1 .. Len(ts2) : new[n].label = HelperLabel(p.symbols[ts2[m]].label)
  PROVE  AddedOK(p, new, eps2, ts2)
<1>1. ASSUME NEW n \in 1 .. Len(new), n > Len(p.symbols)
      PROVE  \/ eps2 = TRUE /\ new[n].label = EpsLabel
             \/ \E m \in 1 .. Len(ts2) : new[n].label = HelperLabel(p.symbols[ts2[m]].label)
  <2>1. CASE n > Len(list)
    BY <2>1
  <2>2. CASE ~(n > Len(list))
    <3>1. n \in 1 .. Len(list)
      BY <2>2
    <3>2. new[n].label = list[n].label
      BY <3>1 DEF Grown
    <3>3. \/ eps = TRUE /\ list[n].label = EpsLabel
          \/ \E m \in 1 .. Len(ts) : list[n].label = HelperLabel(p.symbols[ts[m]].label)
      BY <1>1, <3>1 DEF AddedOK
    <3> QED BY <3>2, <3>3
  <2> QED BY <2>1, <2>2
<1> QED BY <1>1 DEF AddedOK

\* What the loop knows of the rule it is at, in terms of the file.
LEMMA FileRuleAt ==
  ASSUME ConversionInv, AtRule
  PROVE  /\ parsed \in ParserResults /\ Grown(parsed.symbols, symbols)
         /\ symbols \in Seq(Symbol(LabelRecord)) /\ Len(parsed.symbols) \in Nat
         /\ i \in 1 .. Len(rules) /\ rules \in Seq(Rule) /\ rules[i] = parsed.rules[i] /\ rules[i] \in Rule
         /\ i \in 1 .. Len(parsed.rules)
         /\ rules[i].second \in 0 .. Len(parsed.symbols)
         /\ rules[i].third \in 0 .. Len(parsed.symbols)
<1>1. TableInv /\ RulesInv
  BY DEF ConversionInv
<1>2. parsed \in ParserResults /\ Grown(parsed.symbols, symbols) /\ symbols \in Seq(Symbol(LabelRecord))
  BY <1>1 DEF TableInv, TableOf, Grown
<1>3. /\ i \in 1 .. Len(rules) /\ rules[i] = parsed.rules[i] /\ rules[i] \in Rule
      /\ Len(rules) = Len(parsed.rules) /\ rules \in Seq(Rule)
  BY <1>1, RuleAt DEF RulesInv, AtRule
<1>4. Len(parsed.symbols) \in Nat
  BY <1>2, ParsedFacts
<1>5. /\ rules[i].second = NoSymbol \/ rules[i].second \in 1 .. Len(parsed.symbols)
      /\ rules[i].third = NoSymbol \/ rules[i].third \in 1 .. Len(parsed.symbols)
  BY <1>2, <1>3, ParsedFacts
<1>6. /\ rules[i].second \in 0 .. Len(parsed.symbols)
      /\ rules[i].third \in 0 .. Len(parsed.symbols)
  BY <1>4, <1>5 DEF NoSymbol
<1> QED BY <1>2, <1>3, <1>4, <1>6

\* One iteration of the first loop.
LEMMA LanguageLoop ==
  ASSUME ConversionInv, LanguageInv, NoClash, AtRule, parsed' = parsed, pc' = pc, i' = i + 1,
         is_eps_non_term_added' \in BOOLEAN,
         NEW r, rules' = [rules EXCEPT ![i] = r], Grown(symbols, symbols'),
         RuleKept(parsed, symbols', r, parsed.rules[i]),
         AddedOK(parsed, symbols', is_eps_non_term_added', terms_set')
  PROVE  LanguageInv'
<1>1. pc = "wcnf" /\ i \in 1 .. Len(rules) /\ i \in Nat /\ rules \in Seq(Rule)
      /\ symbols \in Seq(Symbol(LabelRecord))
  BY FileRuleAt DEF AtRule
<1>2. Len(rules') = Len(rules) /\ \A k \in 1 .. Len(rules) : rules'[k] = IF k = i THEN r ELSE rules[k]
  BY <1>1
<1>3. ASSUME NEW k \in 1 .. Len(rules'), k < i'
      PROVE  RuleKept(parsed, symbols', rules'[k], parsed.rules[k])
  <2>1. CASE k = i
    BY <1>1, <1>2, <2>1
  <2>2. CASE k # i
    <3>1. k \in 1 .. Len(rules) /\ k < i /\ rules'[k] = rules[k]
      BY <1>1, <1>2, <1>3, <2>2
    <3>2. RuleKept(parsed, symbols, rules[k], parsed.rules[k])
      BY <1>1, <3>1 DEF LanguageInv
    <3> QED BY <1>1, <3>1, <3>2, RuleKeptStays
  <2> QED BY <2>1, <2>2
<1>4. pc' = "wcnf"
  BY <1>1
<1> QED BY <1>3, <1>4 DEF LanguageInv

\* A rule in normal form is the file's.
LEMMA LanguageKeep ==
  ASSUME ConversionInv, LanguageInv, NoClash, KeepRule
  PROVE  LanguageInv'
<1>1. /\ AtRule /\ parsed' = parsed /\ pc' = pc /\ i' = i + 1 /\ symbols' = symbols /\ rules' = rules
      /\ terms_set' = terms_set /\ is_eps_non_term_added' = is_eps_non_term_added /\ pc = "wcnf"
  BY DEF KeepRule, AtRule
<1>2. rules' = [rules EXCEPT ![i] = rules[i]] /\ Grown(symbols, symbols')
  BY <1>1, FileRuleAt, GrownRefl
<1>3. RuleKept(parsed, symbols', rules[i], parsed.rules[i])
  BY <1>1, FileRuleAt DEF RuleKept, Stands
<1>4. /\ AddedOK(parsed, symbols', is_eps_non_term_added', terms_set')
      /\ is_eps_non_term_added' \in BOOLEAN
  BY <1>1 DEF LanguageInv
<1> QED BY <1>1, <1>2, <1>3, <1>4, LanguageLoop

\* N -> M EPS is N -> M.
LEMMA LanguageUnit ==
  ASSUME ConversionInv, LanguageInv, NoClash, UnitRule
  PROVE  LanguageInv'
<1> DEFINE at == AddedIndex(symbols, EpsLabel)
           r == [rules[i] EXCEPT !.third = at]
<1>1. /\ AtRule /\ parsed' = parsed /\ pc' = pc /\ i' = i + 1 /\ pc = "wcnf"
      /\ symbols' = symbol_list_add_str(symbols, EpsLabel, TRUE)
      /\ rules' = [rules EXCEPT ![i].third = at] /\ rules[i].third = NoSymbol
      /\ terms_set' = terms_set /\ is_eps_non_term_added' = TRUE
  BY DEF UnitRule, AtRule
<1>2. \A s \in 1 .. Len(parsed.symbols) : parsed.symbols[s].label # EpsLabel
  BY <1>1, FileRuleAt, CleanLabels
<1>3. /\ symbols \in Seq(Symbol(LabelRecord)) /\ Grown(symbols, symbols')
      /\ at \in 1 .. Len(symbols') /\ at > Len(parsed.symbols) /\ symbols'[at].label = EpsLabel
      /\ \A s \in 1 .. Len(symbols') : s > Len(symbols) => symbols'[s].label = EpsLabel
  <2>1. parsed \in ParserResults /\ Grown(parsed.symbols, symbols)
    BY <1>1, FileRuleAt
  <2>2. EpsLabel \in LabelRecord
    BY MadeUpLabels
  <2>3. LET new == symbol_list_add_str(symbols, EpsLabel, TRUE)
        IN /\ symbols \in Seq(Symbol(LabelRecord)) /\ Grown(symbols, new)
           /\ at \in 1 .. Len(new) /\ at > Len(parsed.symbols) /\ new[at].label = EpsLabel
           /\ \A s \in 1 .. Len(new) : s > Len(symbols) => new[s].label = EpsLabel
    BY <1>2, <2>1, <2>2, AddMadeUp
  <2> QED BY <1>1, <2>3
<1> HIDE DEF at
<1>4. rules' = [rules EXCEPT ![i] = r]
  BY <1>1, FileRuleAt
<1>5. RuleKept(parsed, symbols', r, parsed.rules[i])
  <2>1. r.first = rules[i].first /\ r.second = rules[i].second /\ r.third = at
    BY <1>1, FileRuleAt DEF Rule
  <2>2. Stands(parsed, symbols', r.second, parsed.rules[i].second)
    BY <1>1, <2>1, FileRuleAt DEF Stands
  <2>3. /\ parsed.rules[i].third = NoSymbol /\ r.first = parsed.rules[i].first
        /\ r.second = parsed.rules[i].second
    BY <1>1, <2>1, FileRuleAt
  <2>4. IsEps(parsed, symbols', r.third)
    BY <1>3, <2>1 DEF IsEps
  <2> QED BY <2>2, <2>3, <2>4 DEF RuleKept
<1>6. AddedOK(parsed, symbols', is_eps_non_term_added', terms_set')
  <2>1. AddedOK(parsed, symbols, is_eps_non_term_added, terms_set)
    BY <1>1 DEF LanguageInv
  <2>2. AddedOK(parsed, symbols', TRUE, terms_set)
    BY <1>3, <2>1, AddedGrows
  <2> QED BY <1>1, <2>2
<1> HIDE DEF r
<1> QED BY <1>1, <1>3, <1>4, <1>5, <1>6, LanguageLoop

\* N -> S T is N -> s t.
LEMMA LanguageTwoTerms ==
  ASSUME ConversionInv, LanguageInv, NoClash, TwoTermsRule
  PROVE  LanguageInv'
<1> DEFINE helper1 == HelperLabel(symbols[rules[i].second].label)
           helper2 == HelperLabel(symbols[rules[i].third].label)
           list1 == symbol_list_add_str(symbols, helper1, TRUE)
           at1 == AddedIndex(symbols, helper1)
           at2 == AddedIndex(list1, helper2)
           r == [rules[i] EXCEPT !.second = at1, !.third = at2]
           s == rules[i].second
           t == rules[i].third
<1>1. /\ AtRule /\ parsed' = parsed /\ pc' = pc /\ i' = i + 1 /\ pc = "wcnf"
      /\ IsTerm(s) /\ IsTerm(t)
      /\ symbols' = symbol_list_add_str(list1, helper2, TRUE)
      /\ rules' = [rules EXCEPT ![i].second = at1, ![i].third = at2]
      /\ terms_set' = terms_set \o <<s, t>>
      /\ is_eps_non_term_added' = is_eps_non_term_added
  BY DEF TwoTermsRule, AtRule
<1>2. /\ InputTerm(parsed, s) /\ InputTerm(parsed, t)
      /\ symbols[s].label = parsed.symbols[s].label /\ symbols[t].label = parsed.symbols[t].label
      /\ symbols[s].label \in LabelRecord /\ symbols[t].label \in LabelRecord
  BY <1>1, RuleAt DEF ConversionInv
<1>3. /\ parsed \in ParserResults /\ Grown(parsed.symbols, symbols)
      /\ i \in 1 .. Len(rules) /\ rules[i] = parsed.rules[i] /\ rules[i] \in Rule /\ rules \in Seq(Rule)
      /\ symbols \in Seq(Symbol(LabelRecord))
  BY <1>1, FileRuleAt
<1>4. /\ helper1 \in LabelRecord /\ helper2 \in LabelRecord
      /\ helper1 = HelperLabel(parsed.symbols[s].label) /\ helper2 = HelperLabel(parsed.symbols[t].label)
  BY <1>2, MadeUpLabels, SMTT(30)
<1>5. /\ \A n \in 1 .. Len(parsed.symbols) : parsed.symbols[n].label # helper1
      /\ \A n \in 1 .. Len(parsed.symbols) : parsed.symbols[n].label # helper2
  BY <1>2, <1>3, CleanLabels DEF InputTerm
<1>6. terms_set \in Seq(Nat) /\ s \in Nat /\ t \in Nat
  BY <1>3 DEF ConversionInv, TermsInv, Rule
<1> HIDE DEF helper1, helper2, s, t
<1>7. /\ Grown(symbols, list1) /\ Grown(parsed.symbols, list1)
      /\ at1 \in 1 .. Len(list1) /\ at1 > Len(parsed.symbols) /\ list1[at1].label = helper1
      /\ \A n \in 1 .. Len(list1) : n > Len(symbols) => list1[n].label = helper1
  <2>1. /\ parsed \in ParserResults /\ Grown(parsed.symbols, symbols) /\ helper1 \in LabelRecord
        /\ \A n \in 1 .. Len(parsed.symbols) : parsed.symbols[n].label # helper1
    BY <1>3, <1>4, <1>5
  <2> QED BY ONLY <2>1, AddMadeUp
<1> HIDE DEF list1, at1
<1>8. /\ list1 \in Seq(Symbol(LabelRecord)) /\ Grown(list1, symbols')
      /\ at2 \in 1 .. Len(symbols') /\ at2 > Len(parsed.symbols) /\ symbols'[at2].label = helper2
      /\ \A n \in 1 .. Len(symbols') : n > Len(list1) => symbols'[n].label = helper2
  <2>1. /\ parsed \in ParserResults /\ Grown(parsed.symbols, list1) /\ helper2 \in LabelRecord
        /\ \A n \in 1 .. Len(parsed.symbols) : parsed.symbols[n].label # helper2
    BY <1>3, <1>4, <1>5, <1>7
  <2>2. LET new == symbol_list_add_str(list1, helper2, TRUE)
        IN /\ list1 \in Seq(Symbol(LabelRecord)) /\ Grown(list1, new)
           /\ at2 \in 1 .. Len(new) /\ at2 > Len(parsed.symbols) /\ new[at2].label = helper2
           /\ \A n \in 1 .. Len(new) : n > Len(list1) => new[n].label = helper2
    BY ONLY <2>1, AddMadeUp
  <2> QED BY <1>1, <2>2
<1> HIDE DEF at2
<1>9. /\ Len(terms_set) \in Nat /\ Len(terms_set') = Len(terms_set) + 2
      /\ \A m \in 1 .. Len(terms_set) : terms_set'[m] = terms_set[m]
      /\ terms_set'[Len(terms_set) + 1] = s /\ terms_set'[Len(terms_set) + 2] = t
  BY <1>1, <1>6
<1>10. /\ \A m \in 1 .. Len(terms_set) : m \in 1 .. Len(terms_set')
       /\ Len(terms_set) + 1 \in 1 .. Len(terms_set') /\ Len(terms_set) + 2 \in 1 .. Len(terms_set')
  BY <1>9
<1>11. AddedOK(parsed, symbols', is_eps_non_term_added', terms_set')
  <2>1. AddedOK(parsed, symbols, is_eps_non_term_added, terms_set)
    BY <1>1 DEF LanguageInv
  <2>2. \A m \in 1 .. Len(terms_set) : m \in 1 .. Len(terms_set') /\ terms_set'[m] = terms_set[m]
    BY <1>9, <1>10
  <2>3. ASSUME NEW n \in 1 .. Len(list1), n > Len(symbols)
        PROVE  \E m \in 1 .. Len(terms_set') :
                 list1[n].label = HelperLabel(parsed.symbols[terms_set'[m]].label)
    BY <1>4, <1>7, <1>9, <1>10, <2>3
  <2>4. AddedOK(parsed, list1, is_eps_non_term_added, terms_set')
    BY <1>3, <1>7, <2>1, <2>2, <2>3, AddedGrows
  <2>5. ASSUME NEW n \in 1 .. Len(symbols'), n > Len(list1)
        PROVE  \E m \in 1 .. Len(terms_set') :
                 symbols'[n].label = HelperLabel(parsed.symbols[terms_set'[m]].label)
    BY <1>4, <1>8, <1>9, <1>10, <2>5
  <2>6. AddedOK(parsed, symbols', is_eps_non_term_added, terms_set')
    BY <1>8, <2>4, <2>5, AddedGrows, ZenonT(60)
  <2> QED BY <1>1, <2>6
<1>12. Grown(symbols, symbols')
  BY <1>3, <1>7, <1>8, GrownTrans
<1>13. rules' = [rules EXCEPT ![i] = r]
  BY <1>1, <1>3
<1>14. RuleKept(parsed, symbols', r, parsed.rules[i])
  <2>1. r.first = rules[i].first /\ r.second = at1 /\ r.third = at2
    BY <1>3 DEF Rule
  <2>2. IsHelper(parsed, list1, at1, s)
    BY <1>2, <1>4, <1>7 DEF IsHelper
  <2>3. IsHelper(parsed, symbols', at1, s)
    BY <1>8, <2>2, MadeUpStays
  <2>4. IsHelper(parsed, symbols', at2, t)
    BY <1>2, <1>4, <1>8 DEF IsHelper
  <2> QED BY <1>3, <2>1, <2>3, <2>4 DEF RuleKept, Stands, s, t
<1> HIDE DEF r
<1>15. is_eps_non_term_added' \in BOOLEAN
  BY <1>1 DEF LanguageInv
<1> QED BY <1>1, <1>11, <1>12, <1>13, <1>14, <1>15, LanguageLoop

\* N -> T M is N -> t M, and N -> M T is N -> M t.
LEMMA LanguageOneTerm ==
  ASSUME ConversionInv, LanguageInv, NoClash, OneTermRule
  PROVE  LanguageInv'
<1>1. /\ AtRule /\ parsed' = parsed /\ pc' = pc /\ i' = i + 1 /\ pc = "wcnf"
      /\ is_eps_non_term_added' = is_eps_non_term_added
  BY DEF OneTermRule, AtRule
<1>2. PICK at \in {"second", "third"} :
        LET term == rules[i][at]
            helper == HelperLabel(symbols[term].label)
        IN /\ IsTerm(term)
           /\ symbols' = symbol_list_add_str(symbols, helper, TRUE)
           /\ rules' = [rules EXCEPT ![i][at] = AddedIndex(symbols, helper)]
           /\ terms_set' = Append(terms_set, term)
  BY DEF OneTermRule
<1> DEFINE term == rules[i][at]
           helper == HelperLabel(symbols[term].label)
           index == AddedIndex(symbols, helper)
           r == [rules[i] EXCEPT ![at] = index]
<1>3. /\ IsTerm(term) /\ term \in {rules[i].second, rules[i].third}
      /\ symbols' = symbol_list_add_str(symbols, helper, TRUE)
      /\ rules' = [rules EXCEPT ![i][at] = index]
      /\ terms_set' = Append(terms_set, term)
  BY <1>2
<1>4. /\ InputTerm(parsed, term) /\ symbols[term].label = parsed.symbols[term].label
      /\ symbols[term].label \in LabelRecord
  BY <1>1, <1>3, RuleAt DEF ConversionInv
<1>5. /\ parsed \in ParserResults /\ Grown(parsed.symbols, symbols)
      /\ i \in 1 .. Len(rules) /\ rules[i] = parsed.rules[i] /\ rules[i] \in Rule /\ rules \in Seq(Rule)
      /\ symbols \in Seq(Symbol(LabelRecord))
      /\ rules[i].second \in 0 .. Len(parsed.symbols) /\ rules[i].third \in 0 .. Len(parsed.symbols)
  BY <1>1, FileRuleAt
<1>6. helper \in LabelRecord /\ helper = HelperLabel(parsed.symbols[term].label)
  BY <1>4, MadeUpLabels
<1>7. \A n \in 1 .. Len(parsed.symbols) : parsed.symbols[n].label # helper
  BY <1>4, <1>5, CleanLabels DEF InputTerm
<1>8. terms_set \in Seq(Nat) /\ term \in Nat
  BY <1>3, <1>5 DEF ConversionInv, TermsInv, Rule
<1> HIDE DEF helper, term
<1>9. /\ Grown(symbols, symbols')
      /\ index \in 1 .. Len(symbols') /\ index > Len(parsed.symbols) /\ symbols'[index].label = helper
      /\ \A n \in 1 .. Len(symbols') : n > Len(symbols) => symbols'[n].label = helper
  <2>1. LET new == symbol_list_add_str(symbols, helper, TRUE)
        IN /\ Grown(symbols, new)
           /\ index \in 1 .. Len(new) /\ index > Len(parsed.symbols) /\ new[index].label = helper
           /\ \A n \in 1 .. Len(new) : n > Len(symbols) => new[n].label = helper
    <3>1. /\ parsed \in ParserResults /\ Grown(parsed.symbols, symbols) /\ helper \in LabelRecord
          /\ \A n \in 1 .. Len(parsed.symbols) : parsed.symbols[n].label # helper
      BY <1>5, <1>6, <1>7
    <3> QED BY ONLY <3>1, AddMadeUp
  <2> QED BY <1>3, <2>1
<1> HIDE DEF index
<1>10. /\ Len(terms_set) \in Nat /\ Len(terms_set') = Len(terms_set) + 1
       /\ \A m \in 1 .. Len(terms_set) : terms_set'[m] = terms_set[m]
       /\ terms_set'[Len(terms_set) + 1] = term
  BY <1>3, <1>8
<1>11. /\ \A m \in 1 .. Len(terms_set) : m \in 1 .. Len(terms_set')
       /\ Len(terms_set) + 1 \in 1 .. Len(terms_set')
  BY <1>10
<1>12. AddedOK(parsed, symbols', is_eps_non_term_added', terms_set')
  <2>1. AddedOK(parsed, symbols, is_eps_non_term_added, terms_set)
    BY <1>1 DEF LanguageInv
  <2>2. \A m \in 1 .. Len(terms_set) : m \in 1 .. Len(terms_set') /\ terms_set'[m] = terms_set[m]
    BY <1>10, <1>11
  <2>3. ASSUME NEW n \in 1 .. Len(symbols'), n > Len(symbols)
        PROVE  \E m \in 1 .. Len(terms_set') :
                 symbols'[n].label = HelperLabel(parsed.symbols[terms_set'[m]].label)
    BY <1>6, <1>9, <1>10, <1>11, <2>3
  <2>4. AddedOK(parsed, symbols', is_eps_non_term_added, terms_set')
    BY <1>5, <1>9, <2>1, <2>2, <2>3, AddedGrows, ZenonT(60)
  <2> QED BY <1>1, <2>4
<1>13. RuleKept(parsed, symbols', r, parsed.rules[i]) /\ rules' = [rules EXCEPT ![i] = r]
  <2>1. IsHelper(parsed, symbols', index, term)
    BY <1>4, <1>6, <1>9 DEF IsHelper
  <2>2. CASE at = "second"
    <3>1. r.first = rules[i].first /\ r.second = index /\ r.third = rules[i].third
      BY <1>5, <2>2 DEF Rule
    <3>2. term = rules[i].second
      BY <2>2 DEF term
    <3>3. rules' = [rules EXCEPT ![i] = r]
      BY <1>3, <1>5, <2>2
    <3> QED BY <1>5, <2>1, <3>1, <3>2, <3>3 DEF RuleKept, Stands
  <2>3. CASE at = "third"
    <3>1. r.first = rules[i].first /\ r.second = rules[i].second /\ r.third = index
      BY <1>5, <2>3 DEF Rule
    <3>2. term = rules[i].third
      BY <2>3 DEF term
    <3>3. rules' = [rules EXCEPT ![i] = r]
      BY <1>3, <1>5, <2>3
    <3> QED BY <1>5, <2>1, <3>1, <3>2, <3>3 DEF RuleKept, Stands
  <2> QED BY <2>2, <2>3
<1> HIDE DEF r
<1>14. is_eps_non_term_added' \in BOOLEAN
  BY <1>1 DEF LanguageInv
<1> QED BY <1>1, <1>9, <1>12, <1>13, <1>14, LanguageLoop

\* After the loop: EPS -> eps if a unit rule asked for it.
LEMMA LanguageEps ==
  ASSUME ConversionInv, LanguageInv, NoClash, AddEpsRule
  PROVE  LanguageInv'
<1>1. /\ pc = "wcnf" /\ i > Len(rules) /\ parsed' = parsed /\ pc' = "helpers" /\ i' = 1
      /\ terms_set' = terms_set /\ is_eps_non_term_added' = is_eps_non_term_added
  BY DEF AddEpsRule
<1>2. /\ parsed \in ParserResults /\ Grown(parsed.symbols, symbols)
      /\ symbols \in Seq(Symbol(LabelRecord))
      /\ rules \in Seq(Rule) /\ i \in Nat /\ Len(rules) = Len(parsed.rules) /\ Len(rules) \in Nat
      /\ terms_set \in Seq(Nat) /\ Len(terms_set) \in Nat
  BY <1>1 DEF ConversionInv, TableInv, TableOf, RulesInv, TermsInv, Grown
<1>3. /\ is_eps_non_term_added \in BOOLEAN
      /\ AddedOK(parsed, symbols, is_eps_non_term_added, terms_set)
      /\ \A k \in 1 .. Len(parsed.rules) : RuleKept(parsed, symbols, rules[k], parsed.rules[k])
  BY <1>1, <1>2 DEF LanguageInv
<1>4. HelpersDone' = 0 /\ i' <= Len(terms_set') + 1
  BY <1>1, <1>2 DEF HelpersDone
<1>5. CASE is_eps_non_term_added = TRUE
  <2> DEFINE at == AddedIndex(symbols, EpsLabel)
             r == NewRule(at, NoSymbol)
  <2>1. /\ symbols' = symbol_list_add_str(symbols, EpsLabel, TRUE)
        /\ rules' = Append(rules, r)
    BY <1>5 DEF AddEpsRule
  <2>2. /\ Grown(symbols, symbols') /\ at \in 1 .. Len(symbols') /\ at > Len(parsed.symbols)
        /\ symbols'[at].label = EpsLabel
        /\ \A n \in 1 .. Len(symbols') : n > Len(symbols) => symbols'[n].label = EpsLabel
    <3>1. LET new == symbol_list_add_str(symbols, EpsLabel, TRUE)
          IN /\ Grown(symbols, new)
             /\ at \in 1 .. Len(new) /\ at > Len(parsed.symbols) /\ new[at].label = EpsLabel
             /\ \A n \in 1 .. Len(new) : n > Len(symbols) => new[n].label = EpsLabel
      <4>1. /\ parsed \in ParserResults /\ Grown(parsed.symbols, symbols) /\ EpsLabel \in LabelRecord
            /\ \A n \in 1 .. Len(parsed.symbols) : parsed.symbols[n].label # EpsLabel
        BY <1>2, MadeUpLabels, CleanLabels
      <4> QED BY ONLY <4>1, AddMadeUp
    <3> QED BY <2>1, <3>1
  <2> HIDE DEF at
  <2>3. r.first = at /\ r.second = NoSymbol /\ r.third = NoSymbol
    BY DEF NewRule
  <2> HIDE DEF r
  <2>4. /\ Len(rules') = Len(rules) + 1 /\ rules'[Len(rules) + 1] = r
        /\ \A k \in 1 .. Len(rules) : rules'[k] = rules[k]
    BY <1>2, <2>1
  <2>5. AddedOK(parsed, symbols', is_eps_non_term_added', terms_set')
    <3>1. AddedOK(parsed, symbols', TRUE, terms_set)
      BY <1>2, <1>3, <2>2, AddedGrows
    <3> QED BY <1>1, <1>5, <3>1
  <2>6. \A k \in 1 .. Len(parsed.rules) : RuleKept(parsed, symbols', rules'[k], parsed.rules[k])
    BY <1>2, <1>3, <2>2, <2>4, RuleKeptStays
  <2>7. TailOK(parsed, symbols', rules', is_eps_non_term_added', terms_set', 0)
    <3>1. IsEps(parsed, symbols', at)
      BY <2>2 DEF IsEps
    <3>2. EpsRules(is_eps_non_term_added') = 1
      BY <1>1, <1>5 DEF EpsRules
    <3> QED BY <1>2, <2>3, <2>4, <3>1, <3>2 DEF TailOK
  <2> QED BY <1>1, <1>3, <1>4, <2>5, <2>6, <2>7 DEF LanguageInv
<1>6. CASE is_eps_non_term_added = FALSE
  <2>1. symbols' = symbols /\ rules' = rules
    BY <1>6 DEF AddEpsRule
  <2>2. TailOK(parsed, symbols', rules', is_eps_non_term_added', terms_set', 0)
    BY <1>1, <1>2, <1>6, <2>1 DEF TailOK, EpsRules
  <2> QED BY <1>1, <1>3, <1>4, <2>1, <2>2 DEF LanguageInv
<1> QED BY <1>3, <1>5, <1>6

\* After the loop: T -> t for an entry t of terms_set and its helper T.
LEMMA LanguageHelper ==
  ASSUME ConversionInv, LanguageInv, NoClash, AddHelperRule
  PROVE  LanguageInv'
<1> DEFINE term == terms_set[i]
           helper == HelperLabel(symbols[term].label)
           at == AddedIndex(symbols, helper)
           r == NewRule(at, term)
           before == Len(parsed.rules) + EpsRules(is_eps_non_term_added)
<1>1. /\ pc = "helpers" /\ i <= Len(terms_set) /\ parsed' = parsed /\ pc' = "helpers" /\ i' = i + 1
      /\ terms_set' = terms_set /\ is_eps_non_term_added' = is_eps_non_term_added
      /\ symbols' = symbol_list_add_str(symbols, helper, TRUE)
      /\ rules' = Append(rules, r)
  BY DEF AddHelperRule
<1>2. /\ parsed \in ParserResults /\ Grown(parsed.symbols, symbols)
      /\ symbols \in Seq(Symbol(LabelRecord))
      /\ rules \in Seq(Rule) /\ Len(rules) \in Nat /\ i \in Nat /\ i >= 1
      /\ terms_set \in Seq(Nat) /\ Len(terms_set) \in Nat /\ i \in 1 .. Len(terms_set)
  BY <1>1 DEF ConversionInv, TableInv, TableOf, RulesInv, TermsInv, Grown
<1>3. /\ is_eps_non_term_added \in BOOLEAN
      /\ AddedOK(parsed, symbols, is_eps_non_term_added, terms_set)
      /\ \A k \in 1 .. Len(parsed.rules) : RuleKept(parsed, symbols, rules[k], parsed.rules[k])
      /\ TailOK(parsed, symbols, rules, is_eps_non_term_added, terms_set, i - 1)
  <2>1. HelpersDone = i - 1
    BY <1>1 DEF HelpersDone
  <2> QED BY <1>1, <2>1 DEF LanguageInv
<1>4. HelpersDone' = i /\ i' <= Len(terms_set') + 1
  BY <1>1, <1>2 DEF HelpersDone
<1>5. InputTerm(parsed, term)
  BY <1>1, <1>2 DEF ConversionInv, TermsInv
<1> HIDE DEF term
<1>6. /\ symbols[term].label = parsed.symbols[term].label /\ symbols[term].label \in LabelRecord
      /\ Len(parsed.symbols) \in Nat /\ Len(parsed.rules) \in Nat
  <2>1. /\ parsed.symbols \in Seq(Symbol(LabelRecord)) /\ term \in 1 .. Len(parsed.symbols)
        /\ Len(parsed.symbols) \in Nat /\ Len(parsed.rules) \in Nat
    BY <1>2, <1>5, ParsedFacts DEF InputTerm
  <2>2. symbols[term].label = parsed.symbols[term].label
    BY <1>2, <2>1 DEF Grown
  <2>3. parsed.symbols[term] \in Symbol(LabelRecord)
    BY <2>1
  <2> QED BY <2>1, <2>2, <2>3 DEF Symbol
<1>7. helper \in LabelRecord /\ helper = HelperLabel(parsed.symbols[term].label)
  BY <1>6, MadeUpLabels
<1>8. \A n \in 1 .. Len(parsed.symbols) : parsed.symbols[n].label # helper
  BY <1>2, <1>5, <1>7, CleanLabels DEF InputTerm
<1> HIDE DEF helper
<1>9. /\ Grown(symbols, symbols') /\ at \in 1 .. Len(symbols') /\ at > Len(parsed.symbols)
      /\ symbols'[at].label = helper
      /\ \A n \in 1 .. Len(symbols') : n > Len(symbols) => symbols'[n].label = helper
  <2>1. LET new == symbol_list_add_str(symbols, helper, TRUE)
        IN /\ Grown(symbols, new)
           /\ at \in 1 .. Len(new) /\ at > Len(parsed.symbols) /\ new[at].label = helper
           /\ \A n \in 1 .. Len(new) : n > Len(symbols) => new[n].label = helper
    <3>1. /\ parsed \in ParserResults /\ Grown(parsed.symbols, symbols) /\ helper \in LabelRecord
          /\ \A n \in 1 .. Len(parsed.symbols) : parsed.symbols[n].label # helper
      BY <1>2, <1>7, <1>8
    <3> QED BY ONLY <3>1, AddMadeUp
  <2> QED BY <1>1, <2>1
<1> HIDE DEF at
<1>10. r.first = at /\ r.second = term /\ r.third = NoSymbol
  BY DEF NewRule
<1> HIDE DEF r
<1>11. /\ Len(rules') = Len(rules) + 1 /\ rules'[Len(rules) + 1] = r
       /\ \A k \in 1 .. Len(rules) : rules'[k] = rules[k]
  BY <1>1, <1>2
<1>12. AddedOK(parsed, symbols', is_eps_non_term_added', terms_set')
  <2>1. ASSUME NEW n \in 1 .. Len(symbols'), n > Len(symbols)
        PROVE  \E m \in 1 .. Len(terms_set) :
                 symbols'[n].label = HelperLabel(parsed.symbols[terms_set[m]].label)
    BY <1>2, <1>7, <1>9, <2>1 DEF term
  <2>2. AddedOK(parsed, symbols', is_eps_non_term_added, terms_set)
    BY <1>2, <1>3, <1>9, <2>1, AddedGrows
  <2> QED BY <1>1, <2>2
<1>13. TailOK(parsed, symbols', rules, is_eps_non_term_added, terms_set, i - 1)
  BY <1>2, <1>3, <1>9, TailStays
<1>14. Len(rules) = before + (i - 1) /\ before \in Nat /\ before >= Len(parsed.rules)
  <2>1. Len(rules) = Len(parsed.rules) + EpsRules(is_eps_non_term_added) + (i - 1)
    BY <1>13 DEF TailOK
  <2>2. EpsRules(is_eps_non_term_added) \in Nat
    BY DEF EpsRules
  <2>3. Len(parsed.rules) \in Nat /\ i - 1 \in Nat
    BY <1>2, <1>6
  <2> QED BY ONLY <2>1, <2>2, <2>3
<1>15. \A k \in 1 .. Len(parsed.rules) : RuleKept(parsed, symbols', rules'[k], parsed.rules[k])
  <2>1. ASSUME NEW k \in 1 .. Len(parsed.rules)
        PROVE  RuleKept(parsed, symbols', rules'[k], parsed.rules[k])
    <3>1. k \in 1 .. Len(rules)
      BY <1>2, <1>6, <1>14
    <3>2. rules'[k] = rules[k]
      BY <1>11, <3>1
    <3> QED BY <1>2, <1>3, <1>9, <3>2, RuleKeptStays
  <2> QED BY <2>1
<1>16. TailOK(parsed, symbols', rules', is_eps_non_term_added, terms_set, i)
  <2>1. IsHelper(parsed, symbols', at, term)
    BY <1>5, <1>7, <1>9 DEF IsHelper
  <2>2. ASSUME NEW q \in 1 .. i
        PROVE  /\ IsHelper(parsed, symbols', rules'[before + q].first, terms_set[q])
               /\ rules'[before + q].second = terms_set[q]
               /\ rules'[before + q].third = NoSymbol
    <3>1. CASE q = i
      <4>1. before + q = Len(rules) + 1
        BY <1>2, <1>14, <3>1
      <4>2. rules'[before + q] = r
        BY <1>11, <4>1
      <4> QED BY <1>10, <2>1, <3>1, <4>2 DEF term
    <3>2. CASE q # i
      <4>1. q \in 1 .. i - 1 /\ before + q \in 1 .. Len(rules)
        BY <1>2, <1>14, <3>2, SMTT(30)
      <4>2. rules'[before + q] = rules[before + q]
        BY <1>11, <4>1
      <4> QED BY <1>13, <4>1, <4>2 DEF TailOK
    <3> QED BY <3>1, <3>2
  <2>3. is_eps_non_term_added = TRUE =>
          /\ IsEps(parsed, symbols', rules'[Len(parsed.rules) + 1].first)
          /\ rules'[Len(parsed.rules) + 1].second = NoSymbol
          /\ rules'[Len(parsed.rules) + 1].third = NoSymbol
    <3>1. ASSUME is_eps_non_term_added = TRUE
          PROVE  rules'[Len(parsed.rules) + 1] = rules[Len(parsed.rules) + 1]
      <4>1. before = Len(parsed.rules) + 1
        BY <3>1 DEF EpsRules
      <4>2. Len(parsed.rules) + 1 \in 1 .. Len(rules)
        BY <1>2, <1>6, <1>14, <4>1, SMTT(30)
      <4> QED BY <1>11, <4>2
    <3> QED BY <1>13, <3>1 DEF TailOK
  <2>4. Len(rules') = before + i
    BY <1>2, <1>11, <1>14
  <2> QED BY <2>2, <2>3, <2>4 DEF TailOK
<1> HIDE DEF before
<1> QED BY <1>1, <1>3, <1>4, <1>12, <1>15, <1>16 DEF LanguageInv

\* After the conversion nothing is looked at again until the rules are split.
LEMMA LanguageLater ==
  ASSUME ConversionInv, LanguageInv, parsed' = parsed, symbols' = symbols, terms_set' = terms_set,
         is_eps_non_term_added' = is_eps_non_term_added,
         \/ pc' \notin {"wcnf", "helpers", "split"}
         \/ pc = "helpers" /\ i > Len(terms_set) /\ pc' = "split" /\ rules' = rules
         \/ pc = "split" /\ pc' = "split" /\ rules' = rules
  PROVE  LanguageInv'
<1>1. ASSUME NoClash', pc' \notin {"wcnf", "helpers", "split"} PROVE LanguageInv'
  BY <1>1, NoClashFixed DEF LanguageInv
<1>2. ASSUME pc = "helpers", i > Len(terms_set), pc' = "split", rules' = rules PROVE LanguageInv'
  <2>1. i \in Nat /\ Len(terms_set) \in Nat
    BY <1>2 DEF ConversionInv, RulesInv, TermsInv
  <2>2. NoClash => HelpersDone' = HelpersDone
    BY <1>2, <2>1 DEF HelpersDone, LanguageInv
  <2> QED BY <1>2, <2>2, NoClashFixed DEF LanguageInv
<1>3. ASSUME pc = "split", pc' = "split", rules' = rules PROVE LanguageInv'
  <2>1. HelpersDone' = HelpersDone
    BY <1>3 DEF HelpersDone
  <2> QED BY <1>3, <2>1, NoClashFixed DEF LanguageInv
<1> QED BY <1>1, <1>2, <1>3 DEF LanguageInv

LEMMA LanguageInit == ASSUME Init PROVE LanguageInv
<1>1. /\ parsed \in ParserResults /\ pc = "wcnf" /\ i = 1 /\ symbols = parsed.symbols
      /\ rules = parsed.rules /\ is_eps_non_term_added = FALSE
  BY DEF Init, WCNFInit
<1>2. Len(parsed.symbols) \in Nat /\ Len(parsed.rules) \in Nat
  BY <1>1, ParsedFacts
<1>3. AddedOK(parsed, symbols, is_eps_non_term_added, terms_set)
  BY <1>1, <1>2 DEF AddedOK
<1>4. \A k \in 1 .. Len(rules) : ~(k < i)
  BY <1>1, <1>2
<1> QED BY <1>1, <1>3, <1>4 DEF LanguageInv

LEMMA LanguageNext ==
  ASSUME ConversionInv, LanguageInv, [Next]_vars
  PROVE  LanguageInv'
<1>1. CASE ConvertGrammar /\ ~WCNFReturn
  <2>1. NoClash' = NoClash
    BY <1>1, ConvertFrame, NoClashFixed
  <2>2. CASE ~NoClash
    BY <2>1, <2>2 DEF LanguageInv
  <2>3. CASE NoClash
    <3>1. \/ KeepRule \/ UnitRule \/ TwoTermsRule \/ OneTermRule \/ AddEpsRule \/ AddHelperRule
      BY <1>1 DEF ConvertGrammar, WCNFNext
    <3> QED BY <2>3, <3>1, LanguageKeep, LanguageUnit, LanguageTwoTerms, LanguageOneTerm,
               LanguageEps, LanguageHelper
  <2> QED BY <2>2, <2>3
<1>2. CASE WCNFReturn
  BY <1>2, LanguageLater DEF WCNFReturn
<1>3. CASE SplitSymbol
  BY <1>3, LanguageLater DEF SplitSymbol, wcnfRest
<1>4. CASE SplitReturn
  BY <1>4, LanguageLater DEF SplitReturn, wcnfRest
<1>5. CASE ExplodeTerm
  BY <1>5, LanguageLater DEF ExplodeTerm, wcnfRest
<1>6. CASE ExplodeNonterm
  BY <1>6, LanguageLater DEF ExplodeNonterm, wcnfRest
<1>7. CASE ExplodeTableEnd
  BY <1>7, LanguageLater DEF ExplodeTableEnd, wcnfRest
<1>8. CASE ExplodeRule
  BY <1>8, LanguageLater DEF ExplodeRule, wcnfRest
<1>9. CASE ExplodeRulesEnd
  BY <1>9, LanguageLater DEF ExplodeRulesEnd, wcnfRest
<1>10. CASE BuildMatrices
  BY <1>10, LanguageLater DEF BuildMatrices, wcnfRest
<1>11. CASE UNCHANGED vars
  <2>1. NoClash' = NoClash /\ HelpersDone' = HelpersDone
    BY <1>11, NoClashFixed DEF HelpersDone, vars, wcnfVars
  <2> QED BY <1>11, <2>1 DEF LanguageInv, vars, wcnfVars
<1> QED BY <1>1, <1>2, <1>3, <1>4, <1>5, <1>6, <1>7, <1>8, <1>9, <1>10, <1>11
           DEF Next, Step, Prepared

(***************************************************************************)
(* What the converted grammar owes to the file's, at every step.           *)
(***************************************************************************)
THEOREM LanguageInvariant == Spec => []LanguageInv
<1>1. Init => ConversionInv /\ LanguageInv
  BY ConversionInit, LanguageInit
<1>2. ConversionInv /\ LanguageInv /\ [Next]_vars => (ConversionInv /\ LanguageInv)'
  BY ConversionNext, LanguageNext
<1> QED BY <1>1, <1>2, PTL DEF Spec

\* The label of a helper tells the terminal's.
LEMMA HelperInjective ==
  ASSUME NEW a \in LabelRecord, NEW b \in LabelRecord, HelperLabel(a) = HelperLabel(b)
  PROVE  a = b
<1>1. \A c \in LabelRecord :
        /\ HelperLabel(c).pre = c.pre + 1 /\ c.pre \in Nat
        /\ HelperLabel(c).stem = c.stem /\ HelperLabel(c).suf = c.suf
        /\ c = [pre |-> c.pre, stem |-> c.stem, suf |-> c.suf]
  BY DEF HelperLabel, LabelRecord
<1>2. a.pre + 1 = b.pre + 1 /\ a.stem = b.stem /\ a.suf = b.suf
  BY <1>1
<1>3. a.pre \in Nat /\ b.pre \in Nat
  BY <1>1
<1>4. a.pre = b.pre
  BY <1>2, <1>3
<1> QED BY <1>1, <1>2, <1>4

\* Helpers of different terminals, and EPS, are different symbols.
LEMMA MadeUpApart ==
  ASSUME ConversionInv, NamesInv, NoClash
  PROVE  /\ \A n, m : IsEps(parsed, symbols, n) /\ IsEps(parsed, symbols, m) => n = m
         /\ \A n, t : ~(IsEps(parsed, symbols, n) /\ IsHelper(parsed, symbols, n, t))
         /\ \A n, m, t, u : IsHelper(parsed, symbols, n, t) /\ IsHelper(parsed, symbols, m, u) =>
              (n = m <=> t = u)
<1>1. /\ parsed \in ParserResults /\ parsed.symbols \in Seq(Symbol(LabelRecord))
      /\ DOMAIN parsed.symbols = 1 .. Len(parsed.symbols)
      /\ symbols \in Seq(Symbol(LabelRecord)) /\ DOMAIN symbols = 1 .. Len(symbols)
  <2>1. parsed \in ParserResults /\ symbols \in Seq(Symbol(LabelRecord))
    BY DEF ConversionInv, TableInv, TableOf, Grown
  <2>2. parsed.symbols \in Seq(Symbol(LabelRecord))
    BY <2>1, ParsedFacts
  <2> QED BY <2>1, <2>2
<1>2. DistinctLabels(symbols) /\ DistinctLabels(parsed.symbols)
  BY <1>1, WCNFAssumption DEF NamesInv, NamesOf, ParserPromise
<1>3. ASSUME NEW n, NEW t, IsEps(parsed, symbols, n), IsHelper(parsed, symbols, n, t) PROVE FALSE
  <2>1. t \in DOMAIN parsed.symbols /\ ~parsed.symbols[t].is_nonterm
    BY <1>1, <1>3 DEF IsHelper, InputTerm
  <2>2. HelperLabel(parsed.symbols[t].label) # EpsLabel
    BY <2>1 DEF NoClash
  <2> QED BY <1>3, <2>2 DEF IsEps, IsHelper
<1>4. ASSUME NEW n, NEW m, NEW t, NEW u,
             IsHelper(parsed, symbols, n, t), IsHelper(parsed, symbols, m, u)
      PROVE  n = m <=> t = u
  <2>1. /\ t \in 1 .. Len(parsed.symbols) /\ u \in 1 .. Len(parsed.symbols)
        /\ n \in 1 .. Len(symbols) /\ m \in 1 .. Len(symbols)
        /\ symbols[n].label = HelperLabel(parsed.symbols[t].label)
        /\ symbols[m].label = HelperLabel(parsed.symbols[u].label)
    BY <1>4 DEF IsHelper, InputTerm
  <2>2. CASE n = m
    <3>1. parsed.symbols[t].label \in LabelRecord /\ parsed.symbols[u].label \in LabelRecord
      <4>1. parsed.symbols[t] \in Symbol(LabelRecord) /\ parsed.symbols[u] \in Symbol(LabelRecord)
        BY <1>1, <2>1
      <4> QED BY <4>1 DEF Symbol
    <3>2. HelperLabel(parsed.symbols[t].label) = HelperLabel(parsed.symbols[u].label)
      BY <2>1, <2>2
    <3>3. parsed.symbols[t].label = parsed.symbols[u].label
      BY <3>1, <3>2, HelperInjective
    <3> QED BY <1>1, <1>2, <2>1, <2>2, <3>3 DEF DistinctLabels
  <2>3. CASE t = u
    BY <1>1, <1>2, <2>1, <2>3 DEF DistinctLabels
  <2> QED BY <2>2, <2>3
<1>5. ASSUME NEW n, NEW m, IsEps(parsed, symbols, n), IsEps(parsed, symbols, m) PROVE n = m
  BY <1>1, <1>2, <1>5 DEF IsEps, DistinctLabels
<1> QED BY <1>3, <1>4, <1>5

\* Which rules the added symbols have.
LEMMA AddedRules ==
  ASSUME ConversionInv, NamesInv, LanguageInv, NoClash, pc = "split"
  PROVE  /\ \A n : IsEps(parsed, symbols, n) => Bodies(n) = {<<NoSymbol, NoSymbol>>}
         /\ \A n, t : IsHelper(parsed, symbols, n, t) => Bodies(n) = {<<t, NoSymbol>>}
         /\ \A n \in Added : IsEps(parsed, symbols, n) \/ \E t : IsHelper(parsed, symbols, n, t)
         /\ Len(parsed.rules) <= Len(rules)
         /\ \A k \in 1 .. Len(rules) : k > Len(parsed.rules) => rules[k].first \in Added
<1> DEFINE R == Len(parsed.rules)
           L == Len(parsed.symbols)
           E == EpsRules(is_eps_non_term_added)
           T == Len(terms_set)
<1>1. /\ parsed \in ParserResults /\ symbols \in Seq(Symbol(LabelRecord)) /\ Grown(parsed.symbols, symbols)
      /\ rules \in Seq(Rule) /\ terms_set \in Seq(Nat)
      /\ \A k \in 1 .. T : InputTerm(parsed, terms_set[k])
  BY DEF ConversionInv, TableInv, TableOf, Grown, RulesInv, TermsInv
<1>2. /\ R \in Nat /\ L \in Nat /\ T \in Nat /\ E \in {0, 1}
      /\ DOMAIN rules = 1 .. Len(rules) /\ DOMAIN symbols = 1 .. Len(symbols)
      /\ DOMAIN parsed.symbols = 1 .. L /\ Len(symbols) \in Nat /\ Len(rules) \in Nat
      /\ \A k \in 1 .. R : parsed.rules[k].first \in 1 .. L
  <2>1. /\ R \in Nat /\ L \in Nat /\ parsed.symbols \in Seq(Symbol(LabelRecord))
        /\ \A k \in 1 .. R : parsed.rules[k].first \in 1 .. L
    BY <1>1, ParsedFacts
  <2>2. E \in {0, 1}
    BY DEF EpsRules
  <2> QED BY <1>1, <2>1, <2>2
<1>3. /\ is_eps_non_term_added \in BOOLEAN
      /\ AddedOK(parsed, symbols, is_eps_non_term_added, terms_set)
      /\ \A k \in 1 .. R : RuleKept(parsed, symbols, rules[k], parsed.rules[k])
      /\ TailOK(parsed, symbols, rules, is_eps_non_term_added, terms_set, T)
  <2>1. HelpersDone = T
    BY DEF HelpersDone
  <2> QED BY <2>1 DEF LanguageInv
<1>4. Len(rules) = R + E + T
  BY <1>3 DEF TailOK
\* A rule is the file's, the empty word's or a helper's.
<1>5. ASSUME NEW k \in 1 .. Len(rules)
      PROVE  \/ k <= R /\ rules[k].first \in 1 .. L
             \/ /\ k = R + 1 /\ is_eps_non_term_added = TRUE /\ IsEps(parsed, symbols, rules[k].first)
                /\ rules[k].second = NoSymbol /\ rules[k].third = NoSymbol
             \/ \E q \in 1 .. T :
                  /\ IsHelper(parsed, symbols, rules[k].first, terms_set[q])
                  /\ rules[k].second = terms_set[q] /\ rules[k].third = NoSymbol
  <2>1. CASE k <= R
    BY <1>2, <1>3, <2>1 DEF RuleKept
  <2>2. CASE k > R /\ k <= R + E
    <3>1. k = R + 1 /\ E = 1
      BY <1>2, <2>2
    <3>2. is_eps_non_term_added = TRUE
      BY <3>1 DEF EpsRules
    <3> QED BY <1>3, <3>1, <3>2 DEF TailOK
  <2>3. CASE k > R + E
    <3>1. PICK q \in 1 .. T : k = R + E + q
      <4>1. k - (R + E) \in 1 .. T /\ k = R + E + (k - (R + E))
        BY <1>2, <1>4, <2>3, SMTT(30)
      <4> QED BY <4>1
    <3> QED BY <1>3, <3>1 DEF TailOK
  <2>4. k <= R \/ (k > R /\ k <= R + E) \/ k > R + E
    BY <1>2
  <2> QED BY <2>1, <2>2, <2>3, <2>4
<1>6. /\ \A n : IsEps(parsed, symbols, n) => is_eps_non_term_added = TRUE
      /\ \A n, t : IsHelper(parsed, symbols, n, t) => \E q \in 1 .. T : terms_set[q] = t
      /\ \A n \in Added : IsEps(parsed, symbols, n) \/ \E t : IsHelper(parsed, symbols, n, t)
  <2>1. ASSUME NEW n \in 1 .. Len(symbols), n > L
        PROVE  \/ is_eps_non_term_added = TRUE /\ IsEps(parsed, symbols, n)
               \/ \E q \in 1 .. T : IsHelper(parsed, symbols, n, terms_set[q])
    BY <1>1, <1>3, <2>1 DEF AddedOK, IsEps, IsHelper
  <2>2. ASSUME NEW n, IsEps(parsed, symbols, n) PROVE is_eps_non_term_added = TRUE
    <3>1. n \in 1 .. Len(symbols) /\ n > L
      BY <2>2 DEF IsEps
    <3> QED BY <2>1, <2>2, <3>1, MadeUpApart
  <2>3. ASSUME NEW n, NEW t, IsHelper(parsed, symbols, n, t)
        PROVE  \E q \in 1 .. T : terms_set[q] = t
    <3>1. n \in 1 .. Len(symbols) /\ n > L
      BY <2>3 DEF IsHelper
    <3>2. PICK q \in 1 .. T : IsHelper(parsed, symbols, n, terms_set[q])
      BY <2>1, <2>3, <3>1, MadeUpApart
    <3> QED BY <2>3, <3>2, MadeUpApart
  <2>4. ASSUME NEW n \in Added
        PROVE  IsEps(parsed, symbols, n) \/ \E t : IsHelper(parsed, symbols, n, t)
    <3>1. n \in 1 .. Len(symbols) /\ n > L
      BY <1>2, <2>4 DEF Added
    <3> QED BY <2>1, <3>1
  <2> QED BY <2>2, <2>3, <2>4
<1>7. ASSUME NEW n, IsEps(parsed, symbols, n)
      PROVE  Bodies(n) = {<<NoSymbol, NoSymbol>>}
  <2>1. \A k \in DOMAIN rules : rules[k].first = n =>
          rules[k].second = NoSymbol /\ rules[k].third = NoSymbol
    <3>1. ASSUME NEW k \in 1 .. Len(rules), rules[k].first = n
          PROVE  rules[k].second = NoSymbol /\ rules[k].third = NoSymbol
      <4>1. n > L
        BY <1>7 DEF IsEps
      <4>2. ~(n \in 1 .. L)
        BY <1>2, <4>1
      <4> QED BY <1>5, <1>7, <3>1, <4>2, MadeUpApart
    <3> QED BY <1>2, <3>1
  <2>2. R + 1 \in DOMAIN rules /\ rules[R + 1].first = n
    <3>1. is_eps_non_term_added = TRUE
      BY <1>6, <1>7
    <3>2. E = 1
      BY <3>1 DEF EpsRules
    <3>3. R + 1 \in 1 .. Len(rules)
      BY <1>2, <1>4, <3>2
    <3>4. IsEps(parsed, symbols, rules[R + 1].first)
      BY <1>3, <3>1 DEF TailOK
    <3> QED BY <1>2, <1>7, <3>3, <3>4, MadeUpApart
  <2> HIDE DEF R
  <2> QED BY <2>1, <2>2 DEF Bodies
<1>8. ASSUME NEW n, NEW t, IsHelper(parsed, symbols, n, t)
      PROVE  Bodies(n) = {<<t, NoSymbol>>}
  <2>1. \A k \in DOMAIN rules : rules[k].first = n =>
          rules[k].second = t /\ rules[k].third = NoSymbol
    <3>1. ASSUME NEW k \in 1 .. Len(rules), rules[k].first = n
          PROVE  rules[k].second = t /\ rules[k].third = NoSymbol
      <4>1. n > L
        BY <1>8 DEF IsHelper
      <4>2. ~(n \in 1 .. L)
        BY <1>2, <4>1
      <4>3. PICK q \in 1 .. T :
              /\ IsHelper(parsed, symbols, rules[k].first, terms_set[q])
              /\ rules[k].second = terms_set[q] /\ rules[k].third = NoSymbol
        BY <1>5, <1>8, <3>1, <4>2, MadeUpApart
      <4>4. terms_set[q] = t
        BY <1>8, <3>1, <4>3, MadeUpApart
      <4> QED BY <4>3, <4>4
    <3> QED BY <1>2, <3>1
  <2>2. PICK q \in 1 .. T : terms_set[q] = t
    BY <1>6, <1>8
  <2>3. R + E + q \in DOMAIN rules /\ rules[R + E + q].first = n
    <3>1. R + E + q \in 1 .. Len(rules)
      BY <1>2, <1>4, SMTT(30)
    <3>2. IsHelper(parsed, symbols, rules[R + E + q].first, terms_set[q])
      BY <1>3 DEF TailOK
    <3> QED BY <1>2, <1>8, <2>2, <3>1, <3>2, MadeUpApart
  <2> HIDE DEF R, E
  <2> QED BY <2>1, <2>3 DEF Bodies
<1>9. ASSUME NEW k \in 1 .. Len(rules), k > R PROVE rules[k].first \in Added
  <2>1. \/ IsEps(parsed, symbols, rules[k].first)
        \/ \E t : IsHelper(parsed, symbols, rules[k].first, t)
    <3>1. ~(k <= R)
      BY <1>2, <1>9
    <3> HIDE DEF R
    <3> QED BY <1>5, <3>1
  <2>2. rules[k].first \in 1 .. Len(symbols) /\ rules[k].first > L
    BY <2>1 DEF IsEps, IsHelper
  <2> QED BY <1>2, <2>2 DEF Added
<1>10. R <= Len(rules)
  BY <1>2, <1>4
<1> QED BY <1>6, <1>7, <1>8, <1>9, <1>10

\* What a symbol unfolds to.
LEMMA UnfoldIs ==
  ASSUME ConversionInv, NamesInv, LanguageInv, NoClash, pc = "split"
  PROVE  /\ Unfold(NoSymbol) = <<>>
         /\ \A n \in 1 .. Len(parsed.symbols) : Unfold(n) = <<n>>
         /\ \A n : IsEps(parsed, symbols, n) => Unfold(n) = <<>>
         /\ \A n, t : IsHelper(parsed, symbols, n, t) => Unfold(n) = <<t>>
<1>1. /\ DOMAIN parsed.symbols = 1 .. Len(parsed.symbols) /\ Len(parsed.symbols) \in Nat
      /\ NoSymbol \notin DOMAIN parsed.symbols
  <2>1. parsed.symbols \in Seq(Symbol(LabelRecord))
    BY ParsedFacts DEF ConversionInv, TableInv
  <2> QED BY <2>1 DEF NoSymbol
<1>2. Unfold(NoSymbol) = <<>>
  BY <1>1 DEF Unfold
<1>3. ASSUME NEW n \in 1 .. Len(parsed.symbols) PROVE Unfold(n) = <<n>>
  <2>1. n \in DOMAIN parsed.symbols /\ n # NoSymbol
    BY <1>1
  <2> QED BY <2>1 DEF Unfold
<1>4. ASSUME NEW n, n \in 1 .. Len(symbols), n > Len(parsed.symbols)
      PROVE  Unfold(n) = IF Bodies(n) = {<<NoSymbol, NoSymbol>>} THEN <<>>
                         ELSE <<(CHOOSE b \in Bodies(n) : TRUE)[1]>>
  <2>1. n \notin DOMAIN parsed.symbols /\ n # NoSymbol
    BY <1>1, <1>4 DEF NoSymbol
  <2> QED BY <2>1 DEF Unfold
<1>5. ASSUME NEW n, IsEps(parsed, symbols, n) PROVE Unfold(n) = <<>>
  <2>1. n \in 1 .. Len(symbols) /\ n > Len(parsed.symbols)
    BY <1>5 DEF IsEps
  <2>2. Bodies(n) = {<<NoSymbol, NoSymbol>>}
    BY <1>5, AddedRules
  <2> QED BY <1>4, <2>1, <2>2
<1>6. ASSUME NEW n, NEW t, IsHelper(parsed, symbols, n, t) PROVE Unfold(n) = <<t>>
  <2>1. n \in 1 .. Len(symbols) /\ n > Len(parsed.symbols) /\ t # NoSymbol
    BY <1>1, <1>6 DEF IsHelper, InputTerm
  <2>2. Bodies(n) = {<<t, NoSymbol>>}
    BY <1>6, AddedRules
  <2>3. Bodies(n) # {<<NoSymbol, NoSymbol>>}
    <3>1. <<t, NoSymbol>> # <<NoSymbol, NoSymbol>>
      BY <2>1
    <3> QED BY <2>2, <3>1
  <2>4. (CHOOSE b \in Bodies(n) : TRUE) = <<t, NoSymbol>>
    BY <2>2
  <2> QED BY <1>4, <2>1, <2>3, <2>4
<1> QED BY <1>2, <1>3, <1>5, <1>6

(***************************************************************************)
(* grammar_to_WCNF keeps the language of every grammar whose labels do not *)
(* collide with the names it makes up: when it returns, an added symbol    *)
(* has just one body, and unfolding the added symbols gives back each rule *)
(* of the grammar file.                                                    *)
(***************************************************************************)
THEOREM LanguageStaysUnlessClash == Spec => []LanguageKeptUnlessClash
<1>1. ASSUME PrepareInv, LanguageInv, NoClash, pc = "split" PROVE LanguageKept
  <2>1. ConversionInv /\ NamesInv
    BY <1>1 DEF PrepareInv
  <2>2. /\ parsed \in ParserResults /\ DOMAIN rules = 1 .. Len(rules)
        /\ DOMAIN symbols = 1 .. Len(symbols) /\ DOMAIN parsed.symbols = 1 .. Len(parsed.symbols)
        /\ DOMAIN parsed.rules = 1 .. Len(parsed.rules)
        /\ Len(parsed.symbols) \in Nat /\ Len(parsed.rules) \in Nat /\ Len(rules) \in Nat
        /\ Grown(parsed.symbols, symbols)
    <3>1. /\ parsed \in ParserResults /\ symbols \in Seq(Symbol(LabelRecord)) /\ rules \in Seq(Rule)
          /\ Grown(parsed.symbols, symbols)
      BY <1>1, <2>1 DEF ConversionInv, TableInv, TableOf, Grown, RulesInv
    <3>2. parsed.symbols \in Seq(Symbol(LabelRecord)) /\ parsed.rules \in Seq(Rule)
      BY <3>1, ParsedFacts
    <3> QED BY <3>1, <3>2
  <2>3. ASSUME NEW n \in Added
        PROVE  /\ Cardinality(Bodies(n)) = 1
               /\ \A b \in Bodies(n) :
                    b[2] = NoSymbol /\ (b[1] # NoSymbol => IsTerm(b[1]) /\ b[1] \notin Added)
    <3>1. CASE IsEps(parsed, symbols, n)
      <4>1. Bodies(n) = {<<NoSymbol, NoSymbol>>}
        BY <1>1, <2>1, <3>1, AddedRules
      <4>2. Cardinality(Bodies(n)) = 1
        BY <4>1, FS_Singleton
      <4>3. \A b \in Bodies(n) : b[1] = NoSymbol /\ b[2] = NoSymbol
        BY <4>1
      <4> QED BY <4>2, <4>3
    <3>2. CASE \E t : IsHelper(parsed, symbols, n, t)
      <4>1. PICK t : IsHelper(parsed, symbols, n, t)
        BY <3>2
      <4>2. Bodies(n) = {<<t, NoSymbol>>}
        BY <1>1, <2>1, <4>1, AddedRules
      <4>3. t \in 1 .. Len(parsed.symbols) /\ parsed.symbols[t].is_nonterm = FALSE
        BY <4>1 DEF IsHelper, InputTerm
      <4>4. symbols[t] = parsed.symbols[t]
        BY <1>1, <2>1, <4>3 DEF ConversionInv, TableInv, TableOf, SameUpTo
      <4>5. IsTerm(t) /\ t \notin Added
        <5>1. t # NoSymbol /\ t \in DOMAIN parsed.symbols
          BY <2>2, <4>3 DEF NoSymbol
        <5>2. symbols[t].is_nonterm = FALSE
          BY <4>3, <4>4
        <5> QED BY <5>1, <5>2 DEF IsTerm, Added
      <4>6. Cardinality(Bodies(n)) = 1
        BY <4>2, FS_Singleton
      <4>7. \A b \in Bodies(n) : b[1] = t /\ b[2] = NoSymbol
        BY <4>2
      <4> QED BY <4>5, <4>6, <4>7
    <3> QED BY <1>1, <2>1, <3>1, <3>2, AddedRules
  <2>4. ASSUME NEW k \in 1 .. Len(parsed.rules)
        PROVE  /\ rules[k].first = parsed.rules[k].first
               /\ Unfold(rules[k].second) \o Unfold(rules[k].third)
                    = Unfold(parsed.rules[k].second) \o Unfold(parsed.rules[k].third)
    <3>1. RuleKept(parsed, symbols, rules[k], parsed.rules[k])
      BY <1>1 DEF LanguageInv
    <3>2. ASSUME NEW n, NEW s, Stands(parsed, symbols, n, s) PROVE Unfold(n) = Unfold(s)
      <4>1. CASE IsHelper(parsed, symbols, n, s)
        <5>1. s \in 1 .. Len(parsed.symbols)
          BY <4>1 DEF IsHelper, InputTerm
        <5> QED BY <1>1, <2>1, <4>1, <5>1, UnfoldIs
      <4> QED BY <3>2, <4>1 DEF Stands
    <3>3. Unfold(rules[k].second) = Unfold(parsed.rules[k].second)
      BY <3>1, <3>2 DEF RuleKept
    <3>4. Unfold(rules[k].third) = Unfold(parsed.rules[k].third)
      <4>1. CASE Stands(parsed, symbols, rules[k].third, parsed.rules[k].third)
        BY <3>2, <4>1
      <4>2. CASE parsed.rules[k].third = NoSymbol /\ IsEps(parsed, symbols, rules[k].third)
        BY <1>1, <2>1, <4>2, UnfoldIs
      <4> QED BY <3>1, <4>1, <4>2 DEF RuleKept
    <3> QED BY <3>1, <3>3, <3>4 DEF RuleKept
  <2>5. \A k \in DOMAIN rules \ DOMAIN parsed.rules : rules[k].first \in Added
    BY <1>1, <2>1, <2>2, AddedRules
  <2> QED BY <2>2, <2>3, <2>4, <2>5 DEF LanguageKept
<1>2. PrepareInv /\ LanguageInv => LanguageKeptUnlessClash
  BY <1>1 DEF LanguageKeptUnlessClash, LanguageKept
<1> QED BY <1>2, PrepareInvariant, LanguageInvariant, PTL

-----------------------------------------------------------------------------
(* minimize_graph                                                           *)

\* The vertices below n among those of a set.
Below(used, n) == {m \in used : m < n}

\* The ranks of a finite set of numbers are the numbers from 0 on, in order.
LEMMA RanksAreAnInterval ==
  ASSUME NEW used \in SUBSET Nat, IsFiniteSet(used)
  PROVE  /\ Cardinality(used) \in Nat
         /\ {Cardinality(Below(used, n)) : n \in used} = 0 .. Cardinality(used) - 1
         /\ \A m, n \in used : m < n => Cardinality(Below(used, m)) < Cardinality(Below(used, n))
<1> DEFINE rank(n) == Cardinality(Below(used, n))
           last == Cardinality(used) - 1
           f == [n \in used |-> rank(n)]
<1>1. Cardinality(used) \in Nat
  BY FS_CardinalityType
<1>2. ASSUME NEW n \in used PROVE IsFiniteSet(Below(used, n)) /\ rank(n) \in Nat
  <2>1. Below(used, n) \in SUBSET used
    BY DEF Below
  <2>2. IsFiniteSet(Below(used, n))
    BY <2>1, FS_Subset
  <2> QED BY <2>2, FS_CardinalityType
<1>3. ASSUME NEW n \in used PROVE rank(n) \in 0 .. last
  <2>1. Below(used, n) \in SUBSET used /\ n \notin Below(used, n)
    BY DEF Below
  <2>2. rank(n) <= Cardinality(used) /\ (Cardinality(used) = rank(n) => used = Below(used, n))
    BY <2>1, FS_Subset
  <2>3. rank(n) # Cardinality(used)
    BY <2>1, <2>2
  <2> HIDE DEF rank
  <2> QED BY <1>1, <1>2, <2>2, <2>3
<1>4. ASSUME NEW m \in used, NEW n \in used, m < n PROVE rank(m) < rank(n)
  <2>1. Below(used, m) \in SUBSET Below(used, n) /\ m \in Below(used, n) /\ m \notin Below(used, m)
    <3>1. m \in Nat /\ n \in Nat
      OBVIOUS
    <3>2. \A x \in used : x < m => x < n
      BY <1>4, <3>1
    <3>3. Below(used, m) \in SUBSET Below(used, n)
      BY <3>2 DEF Below
    <3>4. ~(m < m)
      BY <3>1
    <3> QED BY <1>4, <3>3, <3>4 DEF Below
  <2>2. IsFiniteSet(Below(used, n))
    BY <1>2
  <2>3. rank(m) <= rank(n) /\ (rank(n) = rank(m) => Below(used, n) = Below(used, m))
    BY <2>1, <2>2, FS_Subset
  <2>4. rank(m) # rank(n)
    BY <2>1, <2>3
  <2>5. rank(m) \in Nat /\ rank(n) \in Nat
    BY <1>2
  <2> HIDE DEF rank
  <2> QED BY <2>3, <2>4, <2>5
<1> HIDE DEF rank
<1>5. f \in Injection(used, 0 .. last)
  <2>1. f \in [used -> 0 .. last]
    BY <1>3
  <2>2. ASSUME NEW m \in used, NEW n \in used, f[m] = f[n] PROVE m = n
    <3>1. rank(m) = rank(n) /\ rank(m) \in Nat /\ rank(n) \in Nat
      BY <1>2, <2>2
    <3>2. m \in Nat /\ n \in Nat
      OBVIOUS
    <3>3. ~(m < n) /\ ~(n < m)
      BY <1>4, <3>1
    <3> QED BY <3>2, <3>3
  <2> QED BY <2>1, <2>2 DEF Injection, IsInjective
<1>6. IsFiniteSet(0 .. last) /\ Cardinality(0 .. last) = Cardinality(used)
  <2>1. last \in Int
    BY <1>1
  <2>2. IsFiniteSet(0 .. last) /\ Cardinality(0 .. last) = IF 0 > last THEN 0 ELSE last - 0 + 1
    BY <2>1, FS_Interval
  <2> QED BY <1>1, <2>2
<1>7. f \in Surjection(used, 0 .. last)
  BY <1>5, <1>6, FS_Injection
<1>8. {rank(n) : n \in used} = 0 .. last
  <2>1. \A x \in 0 .. last : \E n \in used : f[n] = x
    BY <1>7 DEF Surjection
  <2> QED BY <1>3, <2>1
<1> QED BY <1>1, <1>4, <1>8 DEF rank

\* The vertices with an edge are vertices of the graph; a finite number of them.
LEMMA UsedNodesInRange ==
  ASSUME parsed \in ParserResults
  PROVE  LET used == UsedNodes(ParsedGraph)
         IN /\ used \in SUBSET Nat /\ IsFiniteSet(used)
            /\ \A n \in used : n \in 0 .. old_node_count(ParsedGraph) - 1
            /\ \A k \in DOMAIN parsed.edges : parsed.edges[k].u \in used /\ parsed.edges[k].v \in used
<1> DEFINE used == UsedNodes(ParsedGraph)
           counts == {parsed.node_count} \cup {n + 1 : n \in used}
<1>1. parsed \in ParserResult /\ ParserPromise(parsed)
  BY WCNFAssumption
<1>2. parsed.node_count \in Nat /\ parsed.edges \in Seq(Edge)
  BY <1>1 DEF ParserResult
<1>3. ASSUME NEW k \in DOMAIN parsed.edges
      PROVE  /\ parsed.edges[k].u \in Nat /\ parsed.edges[k].v \in Nat
             /\ parsed.edges[k].u < parsed.node_count /\ parsed.edges[k].v < parsed.node_count
  <2>1. parsed.edges[k] \in Edge
    BY <1>2
  <2> QED BY <1>1, <2>1 DEF Edge, ParserPromise
<1>4. used = UNION {{parsed.edges[k].u, parsed.edges[k].v} : k \in DOMAIN parsed.edges}
  BY DEF UsedNodes, ParsedGraph
<1>5. \A k \in DOMAIN parsed.edges : parsed.edges[k].u \in used /\ parsed.edges[k].v \in used
  BY <1>4
<1>6. ASSUME NEW n \in used PROVE n \in Nat /\ n < parsed.node_count
  <2>1. PICK k \in DOMAIN parsed.edges : n \in {parsed.edges[k].u, parsed.edges[k].v}
    BY <1>4
  <2> QED BY <1>3, <2>1
<1> HIDE DEF used
<1>7. IsFiniteSet(used) /\ used \in SUBSET Nat
  <2>1. used \in SUBSET (0 .. parsed.node_count - 1)
    BY <1>2, <1>6
  <2>2. IsFiniteSet(0 .. parsed.node_count - 1)
    BY <1>2, FS_Interval
  <2> QED BY <1>6, <2>1, <2>2, FS_Subset
<1>8. old_node_count(ParsedGraph) \in counts /\ \A x \in counts : old_node_count(ParsedGraph) >= x
  <2>1. old_node_count(ParsedGraph) = CHOOSE x \in counts : \A y \in counts : x >= y
    BY DEF old_node_count, Max, ParsedGraph, used
  <2>2. parsed.node_count \in counts /\ \A y \in counts : parsed.node_count >= y
    BY <1>2, <1>6
  <2> HIDE DEF counts
  <2> QED BY <2>1, <2>2
<1>9. ASSUME NEW n \in used PROVE n \in 0 .. old_node_count(ParsedGraph) - 1
  <2>1. n \in Nat /\ n + 1 \in counts
    BY <1>6
  <2>2. old_node_count(ParsedGraph) \in Nat
    BY <1>2, <1>6, <1>8
  <2>3. old_node_count(ParsedGraph) >= n + 1
    BY <1>8, <2>1
  <2> QED BY <2>1, <2>2, <2>3
<1> QED BY <1>5, <1>7, <1>9 DEF used

(***************************************************************************)
(* minimize_graph renumbers the vertices that have an edge from 0 on, in   *)
(* their order, and the matrices of the small graph are those of the graph *)
(* seen through that map, for every graph the parser may return.           *)
(***************************************************************************)
THEOREM MinimizedGraphIsomorphic == Spec => []MinimizedIsomorphic
<1>1. ASSUME parsed \in ParserResults PROVE MinimizedIsomorphic
  <2> DEFINE graph == ParsedGraph
             small == minimize_graph(graph)
             view == get_grb_matrices_from_graph(graph, parsed.symbols)
             smallView == get_grb_matrices_from_graph(small, parsed.symbols)
             map == NodeMap(graph)
             used == UsedNodes(graph)
             renamed == [k \in DOMAIN graph.edges |-> MinimizedEdge(graph, graph.edges[k])]
  <2>1. /\ used \in SUBSET Nat /\ IsFiniteSet(used)
        /\ \A n \in used : n \in 0 .. old_node_count(graph) - 1
        /\ \A k \in DOMAIN parsed.edges : parsed.edges[k].u \in used /\ parsed.edges[k].v \in used
    BY <1>1, UsedNodesInRange
  <2>2. \A n \in used : map[n] = Cardinality(Below(used, n))
    BY <2>1 DEF NodeMap, Below
  <2>3. /\ {map[n] : n \in used} = 0 .. Cardinality(used) - 1
        /\ \A m, n \in used : m < n => map[m] < map[n]
    BY <2>1, <2>2, RanksAreAnInterval
  <2>4. graph.edges = parsed.edges /\ graph.block_count = parsed.block_count
    BY DEF ParsedGraph
  <2>5. /\ small.node_count = Cardinality(used) /\ small.block_count = graph.block_count
        /\ small.edges = renamed
    <3>1. graph = [edges |-> parsed.edges, node_count |-> parsed.node_count,
                   block_count |-> parsed.block_count]
      BY DEF ParsedGraph
    <3>2. small = [graph EXCEPT !.edges = renamed, !.node_count = Cardinality(used)]
      BY DEF minimize_graph
    <3> HIDE DEF small, renamed, used, graph
    <3> QED BY <3>1, <3>2
  <2>6. ASSUME NEW k \in DOMAIN parsed.edges
        PROVE  /\ small.edges[k].u = map[parsed.edges[k].u]
               /\ small.edges[k].v = map[parsed.edges[k].v]
               /\ small.edges[k].term_index = parsed.edges[k].term_index
               /\ small.edges[k].index = parsed.edges[k].index
    <3>1. parsed.edges[k] \in Edge
      BY <1>1, WCNFAssumption DEF ParserResult
    <3> DEFINE edge == parsed.edges[k]
    <3>2. small.edges[k] = [edge EXCEPT !.u = map[@], !.v = map[@]]
      BY <2>4, <2>5 DEF MinimizedEdge
    <3> HIDE DEF small, map, graph, renamed
    <3> QED BY <3>1, <3>2 DEF Edge
  <2>7. DOMAIN small.edges = DOMAIN parsed.edges
    BY <2>4, <2>5
  <2> HIDE DEF map, small, graph, used, renamed
  <2> DEFINE indices == explode_indices(parsed.symbols, parsed.block_count)
             EdgesOf(m) == {k \in DOMAIN parsed.edges :
                  MatrixOfEdge(parsed.symbols, parsed.block_count, parsed.edges[k]) = m}
  <2>8. /\ view.matrix_symbols = indices
        /\ view.matrices = [m \in DOMAIN indices |->
                              {<<parsed.edges[k].u, parsed.edges[k].v>> : k \in EdgesOf(m)}]
    BY <2>4 DEF get_grb_matrices_from_graph
  <2>9. \A k \in DOMAIN parsed.edges :
          MatrixOfEdge(parsed.symbols, parsed.block_count, small.edges[k])
            = MatrixOfEdge(parsed.symbols, parsed.block_count, parsed.edges[k])
    BY <2>6 DEF MatrixOfEdge
  <2>10. /\ smallView.matrix_symbols = indices
         /\ smallView.matrices = [m \in DOMAIN indices |->
              {<<small.edges[k].u, small.edges[k].v>> : k \in EdgesOf(m)}]
    <3>1. small.block_count = parsed.block_count
      BY <2>4, <2>5
    <3>2. \A m : {k \in DOMAIN small.edges :
                    MatrixOfEdge(parsed.symbols, small.block_count, small.edges[k]) = m} = EdgesOf(m)
      BY <2>7, <2>9, <3>1
    <3> HIDE DEF EdgesOf
    <3> QED BY <3>1, <3>2 DEF get_grb_matrices_from_graph
  <2> HIDE DEF view, smallView
  <2>11. ASSUME NEW m \in DOMAIN view.matrices
         PROVE  smallView.matrices[m] = {<<map[e[1]], map[e[2]]>> : e \in view.matrices[m]}
    <3>1. /\ view.matrices[m] = {<<parsed.edges[k].u, parsed.edges[k].v>> : k \in EdgesOf(m)}
          /\ smallView.matrices[m] = {<<small.edges[k].u, small.edges[k].v>> : k \in EdgesOf(m)}
      BY <2>8, <2>10
    <3>2. \A k \in EdgesOf(m) :
            /\ small.edges[k].u = map[parsed.edges[k].u]
            /\ small.edges[k].v = map[parsed.edges[k].v]
      BY <2>6
    <3> HIDE DEF EdgesOf
    <3>3. {<<map[e[1]], map[e[2]]>> : e \in view.matrices[m]}
            = {<<map[parsed.edges[k].u], map[parsed.edges[k].v]>> : k \in EdgesOf(m)}
      <4> DEFINE images == {<<map[e[1]], map[e[2]]>> : e \in view.matrices[m]}
                 ends == {<<map[parsed.edges[k].u], map[parsed.edges[k].v]>> : k \in EdgesOf(m)}
      <4>1. ASSUME NEW x \in images PROVE x \in ends
        <5>1. PICK e \in view.matrices[m] : x = <<map[e[1]], map[e[2]]>>
          BY <4>1
        <5>2. PICK k \in EdgesOf(m) : e = <<parsed.edges[k].u, parsed.edges[k].v>>
          BY <3>1
        <5> QED BY <5>1, <5>2
      <4>2. ASSUME NEW x \in ends PROVE x \in images
        <5>1. PICK k \in EdgesOf(m) : x = <<map[parsed.edges[k].u], map[parsed.edges[k].v]>>
          BY <4>2
        <5>2. <<parsed.edges[k].u, parsed.edges[k].v>> \in view.matrices[m]
          BY <3>1
        <5> QED BY <5>1, <5>2
      <4> HIDE DEF images, ends
      <4>3. images = ends
        BY <4>1, <4>2
      <4> QED BY <4>3 DEF images, ends
    <3>4. smallView.matrices[m]
            = {<<map[parsed.edges[k].u], map[parsed.edges[k].v]>> : k \in EdgesOf(m)}
      BY <3>1, <3>2
    <3> QED BY <3>3, <3>4
  <2>12. smallView.matrix_symbols = view.matrix_symbols
    BY <2>8, <2>10
  <2> QED BY <2>3, <2>5, <2>11, <2>12
          DEF MinimizedIsomorphic, graph, small, view, smallView, map, used
<1>2. PrepareInv => parsed \in ParserResults
  BY DEF PrepareInv, ConversionInv, TableInv
<1> QED BY <1>1, <1>2, PrepareInvariant, PTL

-----------------------------------------------------------------------------
(* adapter_CFL_adv_prepare                                                  *)

\* The number of slots of a symbol.
Width(sym) == IF Adv!Idx(sym) THEN parsed.block_count ELSE 1

\* The slots of symbol s end before slot n.
EndsBefore(s, n) == adv_map[s] + Width(s) <= n

InSlotsOf(s, slot) == adv_map[s] <= slot /\ slot < adv_map[s] + Width(s)

AdvTypes ==
  /\ parsed \in ParserResults
  /\ adv_i \in Nat /\ adv_i >= 1 /\ adv_offset \in Nat /\ adv_map \in Seq(Nat)
  /\ Len(adv_map) = adv_i - 1 /\ adv_i <= Len(parsed.symbols) + 1

\* i + offset is the next slot: the slots before it are taken in the order of
\* the symbols, and every one is taken.
Tiled ==
  /\ \A s \in DOMAIN adv_map : 1 <= adv_map[s] /\ EndsBefore(s, adv_i + adv_offset)
  /\ \A s, t \in DOMAIN adv_map : s < t => EndsBefore(s, adv_map[t])
  /\ \A slot \in Nat : 1 <= slot /\ slot < adv_i + adv_offset =>
       \E s \in DOMAIN adv_map : InSlotsOf(s, slot)

AdvInv ==
  /\ AdvTypes /\ Tiled
  /\ adv_pc # "map" => adv_symbols_amount = Len(adv_map) + adv_offset

\* The state CFL_adv starts from and, freed, the next adapter like it.
LEMMA AdvFresh ==
  ASSUME parsed \in ParserResults, adv_pc = "map", adv_i = 1, adv_offset = 0, adv_map = <<>>
  PROVE  AdvInv
<1>1. AdvTypes
  BY ParsedFacts DEF AdvTypes
<1>2. DOMAIN adv_map = {} /\ adv_i + adv_offset = 1
  OBVIOUS
<1>3. Tiled
  BY <1>2 DEF Tiled
<1> QED
  BY <1>1, <1>3 DEF AdvInv

\* A number is appended to the map.
LEMMA AppendNat ==
  ASSUME NEW m \in Seq(Nat), NEW x \in Nat
  PROVE  /\ Append(m, x) \in Seq(Nat) /\ Len(Append(m, x)) = Len(m) + 1
         /\ DOMAIN m = 1 .. Len(m) /\ DOMAIN Append(m, x) = 1 .. Len(m) + 1
         /\ \A k \in 1 .. Len(m) : Append(m, x)[k] = m[k] /\ m[k] \in Nat
         /\ Append(m, x)[Len(m) + 1] = x
  OBVIOUS

\* Every symbol has a slot.
LEMMA WidthNat ==
  ASSUME parsed \in ParserResults, NEW s
  PROVE  Width(s) \in Nat /\ Width(s) >= 1
<1>1. parsed.block_count \in Nat /\ parsed.block_count >= 1
  BY ParsedFacts
<1> QED
  BY <1>1 DEF Width

\* The next symbol gets the next slots.
LEMMA MapSymbolStep == ASSUME AdvInv, Adv!MapSymbol PROVE AdvInv'
<1>1. Tiled /\ adv_pc = "map" /\ adv_pc' = "map" /\ parsed' = parsed
  BY DEF AdvInv, Adv!MapSymbol
<1>2. /\ parsed \in ParserResults
      /\ parsed.symbols \in Seq(Symbol(LabelRecord))
      /\ parsed.block_count \in Nat /\ parsed.block_count >= 1
      /\ adv_i \in Nat /\ adv_i >= 1 /\ adv_offset \in Nat /\ adv_map \in Seq(Nat)
      /\ Len(adv_map) = adv_i - 1
  BY ParsedFacts DEF AdvInv, AdvTypes
<1>3. /\ adv_map' = Append(adv_map, adv_i + adv_offset) /\ adv_i' = adv_i + 1
      /\ adv_i <= Len(parsed.symbols)
  BY DEF Adv!MapSymbol
<1>4. /\ adv_map' \in Seq(Nat) /\ Len(adv_map') = adv_i /\ DOMAIN adv_map = 1 .. adv_i - 1
      /\ DOMAIN adv_map' = 1 .. adv_i
      /\ \A s \in 1 .. adv_i - 1 : adv_map'[s] = adv_map[s] /\ adv_map[s] \in Nat
      /\ adv_map'[adv_i] = adv_i + adv_offset
  <2>1. adv_i + adv_offset \in Nat /\ Len(adv_map) + 1 = adv_i
    BY <1>2
  <2> QED
    BY <2>1, <1>2, <1>3, AppendNat
<1>5. /\ Width(adv_i) \in Nat /\ Width(adv_i) >= 1
      /\ adv_offset' = adv_offset + Width(adv_i) - 1
  BY <1>2 DEF Adv!MapSymbol, Width
<1>6. AdvTypes'
  BY <1>1, <1>2, <1>3, <1>4, <1>5 DEF AdvTypes
<1>7. \A s : Width(s)' = Width(s) /\ Width(s) \in Nat /\ Width(s) >= 1
  BY <1>1, <1>2, WidthNat DEF Width, Adv!Idx
<1>8. adv_i' + adv_offset' = adv_i + adv_offset + Width(adv_i)
  BY <1>2, <1>3, <1>5
<1>9. Tiled'
  <2>1. PICK next \in Nat : next = adv_i + adv_offset /\ next >= 1
    BY <1>2
  <2>2. PICK end \in Nat : end = adv_i' + adv_offset' /\ end = next + Width(adv_i)
    BY <2>1, <1>2, <1>5, <1>8
  <2>3. \A s \in DOMAIN adv_map : 1 <= adv_map[s] /\ adv_map[s] + Width(s) <= next
    BY <2>1, <1>1 DEF Tiled, EndsBefore
  <2>4. \A s, t \in DOMAIN adv_map : s < t => adv_map[s] + Width(s) <= adv_map[t]
    BY <1>1 DEF Tiled, EndsBefore
  <2>5. \A slot \in Nat : 1 <= slot /\ slot < next =>
          \E s \in DOMAIN adv_map : adv_map[s] <= slot /\ slot < adv_map[s] + Width(s)
    BY <2>1, <1>1 DEF Tiled, InSlotsOf
  <2>6. adv_map'[adv_i] = next /\ adv_i \in DOMAIN adv_map'
    BY <2>1, <1>2, <1>4
  <2>7. \A s \in DOMAIN adv_map' : s \in DOMAIN adv_map \/ s = adv_i
    BY <1>2, <1>4
  <2>8. \A s \in DOMAIN adv_map :
          s \in DOMAIN adv_map' /\ adv_map'[s] = adv_map[s] /\ adv_map[s] \in Nat /\ s < adv_i
    BY <1>2, <1>4
  <2>9. \A s \in DOMAIN adv_map' : 1 <= adv_map'[s] /\ adv_map'[s] + Width(s) <= end
    <3> SUFFICES ASSUME NEW s \in DOMAIN adv_map'
                 PROVE  1 <= adv_map'[s] /\ adv_map'[s] + Width(s) <= end
      OBVIOUS
    <3>1. CASE s \in DOMAIN adv_map
      <4>1. 1 <= adv_map[s] /\ adv_map[s] + Width(s) <= next /\ adv_map'[s] = adv_map[s] /\ adv_map[s] \in Nat
        BY <3>1, <2>3, <2>8
      <4>2. next <= end /\ Width(s) \in Nat
        BY <2>2, <1>5, <1>7
      <4> QED
        BY <4>1, <4>2
    <3>2. CASE s = adv_i
      BY <3>2, <2>1, <2>2, <2>6, <1>5
    <3> QED
      BY <3>1, <3>2, <2>7
  <2>10. \A s, t \in DOMAIN adv_map' : s < t => adv_map'[s] + Width(s) <= adv_map'[t]
    <3> SUFFICES ASSUME NEW s \in DOMAIN adv_map', NEW t \in DOMAIN adv_map', s < t
                 PROVE  adv_map'[s] + Width(s) <= adv_map'[t]
      OBVIOUS
    <3>1. s \in DOMAIN adv_map
      <4>1. s # adv_i
        BY <1>2, <1>4
      <4> QED
        BY <4>1, <2>7
    <3>2. CASE t \in DOMAIN adv_map
      BY <3>1, <3>2, <2>4, <2>8
    <3>3. CASE t = adv_i
      BY <3>1, <3>3, <2>3, <2>6, <2>8
    <3> QED
      BY <3>2, <3>3, <2>7
  <2>11. ASSUME NEW slot \in Nat, 1 <= slot, slot < end
         PROVE  \E s \in DOMAIN adv_map' : adv_map'[s] <= slot /\ slot < adv_map'[s] + Width(s)
    <3>1. CASE slot < next
      <4>1. PICK s \in DOMAIN adv_map : adv_map[s] <= slot /\ slot < adv_map[s] + Width(s)
        BY <3>1, <2>1, <2>5, <2>11
      <4> QED
        BY <4>1, <2>8
    <3>2. CASE slot >= next
      <4>1. slot < next + Width(adv_i)
        BY <2>1, <2>2, <1>5, <2>11
      <4> QED
        BY <3>2, <4>1, <2>6
    <3> QED
      BY <3>1, <3>2, <2>1
  <2> QED
    BY <2>2, <2>9, <2>10, <2>11, <1>7, SMTT(30) DEF Tiled, EndsBefore, InSlotsOf
<1> QED
  BY <1>1, <1>6, <1>9 DEF AdvInv

\* The later steps of the preparation, and those of the other adapters, keep the map.
LEMMA MapKept ==
  ASSUME AdvInv, UNCHANGED <<parsed, adv_i, adv_offset, adv_map>>,
         adv_pc' # "map" => adv_symbols_amount' = Len(adv_map) + adv_offset
  PROVE  AdvInv'
  BY DEF AdvInv, AdvTypes, Tiled, EndsBefore, InSlotsOf, Width, Adv!Idx

LEMMA AdvStep == ASSUME AdvInv, Adv!Step PROVE AdvInv'
<1>1. CASE Adv!MapSymbol
  BY <1>1, MapSymbolStep
<1>2. CASE Adv!MapEnd
  <2>1. Len(parsed.symbols) = Len(adv_map)
    BY <1>2, ParsedFacts DEF AdvInv, AdvTypes, Adv!MapEnd
  <2> QED
    BY <1>2, <2>1, MapKept DEF Adv!MapEnd
<1>3. CASE Adv!get_matrices_from_graph
  BY <1>3, MapKept DEF AdvInv, Adv!get_matrices_from_graph
<1>4. CASE Adv!BuildRules
  BY <1>4, MapKept DEF AdvInv, Adv!BuildRules
<1> QED
  BY <1>1, <1>2, <1>3, <1>4 DEF Adv!Step

\* Nothing changes what the parser has found.
LEMMA ParsedKept == ASSUME Step PROVE parsed' = parsed
  BY DEF Step, ConvertGrammar, WCNFNext, KeepRule, UnitRule, TwoTermsRule, OneTermRule,
         AddEpsRule, AddHelperRule, WCNFReturn, SplitSymbol, SplitReturn, ExplodeTerm,
         ExplodeNonterm, ExplodeTableEnd, ExplodeRule, ExplodeRulesEnd, BuildMatrices,
         wcnfRest

LEMMA AdvNext == ASSUME AdvInv, [AllNext]_allVars PROVE AdvInv'
<1>1. CASE Adv!Step
  BY <1>1, AdvStep
<1>2. CASE AdvCleanup
  <2>1. /\ parsed' \in ParserResults /\ adv_pc' = "map" /\ adv_i' = 1 /\ adv_offset' = 0
        /\ adv_map' = <<>>
    BY <1>2 DEF AdvCleanup, vars, wcnfVars, AdvInv, AdvTypes
  <2>2. AdvTypes' /\ Tiled'
    <3>1. DOMAIN adv_map' = {} /\ adv_i' + adv_offset' = 1
      BY <2>1
    <3>2. AdvTypes'
      BY <2>1, ParsedFacts DEF AdvTypes
    <3> QED
      BY <3>1, <3>2 DEF Tiled
  <2> QED
    BY <2>1, <2>2 DEF AdvInv
<1>3. CASE UNCHANGED <<parsed, advVars>>
  BY <1>3, MapKept DEF AdvInv, advVars
<1>4. CASE Prepare
  BY <1>4, <1>3, ParsedKept DEF Prepare
<1>5. CASE AdvRun \/ Run \/ AllPathAdvRun \/ MultsrcAdvRun \/ Compared \/ UNCHANGED allVars
  BY <1>5, <1>3 DEF AdvRun, Run, AllPathAdvRun, MultsrcAdvRun, Compared, allVars, vars, wcnfVars
<1>6. CASE AdvPrepare \/ AllPathAdvPrepare \/ MultsrcAdvPrepare
  <2>1. Adv!Step
    BY <1>6 DEF AdvPrepare, AllPathAdvPrepare, MultsrcAdvPrepare, TestedAdvPrepare,
                AllPathAdvGetMatrices, MultsrcAdvGetMatrices, Adv!Step
  <2> QED
    BY <2>1, <1>1
<1> QED
  BY <1>2, <1>4, <1>5, <1>6 DEF AllNext, AllStep

THEOREM AdvInvariant == AllSpec => []AdvInv
<1>1. AllInit => AdvInv
  BY AdvFresh DEF AllInit, Init, WCNFInit, Adv!Zeroed
<1> QED
  BY <1>1, AdvNext, PTL DEF AllSpec

\* A symbol's blocks are as many as its slots.
LEMMA BlocksAreWidth ==
  ASSUME AdvTypes, NEW s \in DOMAIN adv_map
  PROVE  Adv!BlocksOf(s) = 0 .. Width(s) - 1 /\ Width(s) \in Nat /\ Width(s) >= 1 /\ adv_map[s] \in Nat
<1>1. Adv!BlocksOf(s) = 0 .. Width(s) - 1
  BY DEF Adv!BlocksOf, Width, AdvTypes
<1>2. Width(s) \in Nat /\ Width(s) >= 1 /\ adv_map[s] \in Nat
  BY WidthNat DEF AdvTypes
<1> QED
  BY <1>1, <1>2

THEOREM AdvSlotsTileAlways == AllSpec => []AdvSlotsTile
<1>1. ASSUME AdvInv PROVE Adv!SlotsTile
  <2> DEFINE Slots == UNION {{<<s, n>> : n \in Adv!BlocksOf(s)} : s \in DOMAIN adv_map}
  <2>1. /\ adv_i \in Nat /\ adv_i >= 1 /\ adv_offset \in Nat /\ Len(adv_map) = adv_i - 1
        /\ DOMAIN adv_map \subseteq Nat
        /\ \A s \in DOMAIN adv_map : adv_map[s] \in Nat /\ Width(s) \in Nat /\ Width(s) >= 1
        /\ \A s \in DOMAIN adv_map : Adv!BlocksOf(s) = 0 .. Width(s) - 1
    BY <1>1, BlocksAreWidth DEF AdvInv, AdvTypes
  <2> PICK next \in Nat : next = adv_i + adv_offset
    BY <2>1
  <2>2. Len(adv_map) + adv_offset = next - 1 /\ Tiled
    BY <1>1, <2>1 DEF AdvInv
  <2>3. \A s \in DOMAIN adv_map : 1 <= adv_map[s] /\ adv_map[s] + Width(s) <= next
    BY <2>2 DEF Tiled, EndsBefore
  <2>4. \A s, t \in DOMAIN adv_map : s < t => adv_map[s] + Width(s) <= adv_map[t]
    BY <2>2 DEF Tiled, EndsBefore
  <2>5. \A slot \in Nat : 1 <= slot /\ slot < next =>
          \E s \in DOMAIN adv_map : adv_map[s] <= slot /\ slot < adv_map[s] + Width(s)
    BY <2>2 DEF Tiled, InSlotsOf
  <2>6. \A p \in Slots : \E s \in DOMAIN adv_map, m \in Nat : m < Width(s) /\ p = <<s, m>>
    BY <2>1
  <2>7. \A p, q \in Slots : adv_map[p[1]] + p[2] = adv_map[q[1]] + q[2] => p = q
    <3> SUFFICES ASSUME NEW p \in Slots, NEW q \in Slots,
                        adv_map[p[1]] + p[2] = adv_map[q[1]] + q[2]
                 PROVE  p = q
      OBVIOUS
    <3>1. PICK s \in DOMAIN adv_map, m \in Nat : m < Width(s) /\ p = <<s, m>>
      BY <2>6
    <3>2. PICK t \in DOMAIN adv_map, n \in Nat : n < Width(t) /\ q = <<t, n>>
      BY <2>6
    <3>3. adv_map[s] + m = adv_map[t] + n
      BY <3>1, <3>2
    <3>4. s \in Nat /\ t \in Nat /\ adv_map[s] \in Nat /\ adv_map[t] \in Nat
          /\ Width(s) \in Nat /\ Width(t) \in Nat
      BY <2>1
    <3>5. ~(s < t)
      BY <3>1, <3>2, <3>3, <3>4, <2>4
    <3>6. ~(t < s)
      BY <3>1, <3>2, <3>3, <3>4, <2>4
    <3>7. s = t
      BY <3>4, <3>5, <3>6
    <3>8. m = n
      BY <3>3, <3>4, <3>7
    <3> QED
      BY <3>1, <3>2, <3>7, <3>8
  <2>8. {adv_map[p[1]] + p[2] : p \in Slots} = 1 .. Len(adv_map) + adv_offset
    <3>1. ASSUME NEW p \in Slots PROVE adv_map[p[1]] + p[2] \in 1 .. next - 1
      <4>1. PICK s \in DOMAIN adv_map, m \in Nat : m < Width(s) /\ p = <<s, m>>
        BY <2>6
      <4>2. adv_map[s] + m \in 1 .. next - 1
        BY <4>1, <2>1, <2>3
      <4> QED
        BY <4>1, <4>2
    <3>2. ASSUME NEW slot \in 1 .. next - 1
          PROVE  \E p \in Slots : adv_map[p[1]] + p[2] = slot
      <4> slot \in Nat /\ 1 <= slot /\ slot < next
        BY <3>2
      <4>1. PICK s \in DOMAIN adv_map : adv_map[s] <= slot /\ slot < adv_map[s] + Width(s)
        BY <2>5
      <4>2. PICK n \in 0 .. Width(s) - 1 : n = slot - adv_map[s]
        BY <4>1, <2>1
      <4>3. <<s, n>> \in Slots
        BY <2>1
      <4>4. adv_map[s] + n = slot
        BY <4>2, <2>1
      <4> QED
        BY <4>3, <4>4
    <3> HIDE DEF Slots
    <3> QED
      BY <3>1, <3>2, <2>2
  <2>9. adv_pc # "map" => adv_symbols_amount = Len(adv_map) + adv_offset
    BY <1>1 DEF AdvInv
  <2> QED
    BY <2>7, <2>8, <2>9 DEF Adv!SlotsTile
<1>2. AdvInv => AdvSlotsTile
  BY <1>1 DEF AdvSlotsTile
<1> QED
  BY <1>2, AdvInvariant, PTL


-----------------------------------------------------------------------------
(* The public view of the matrices                                          *)

SlotMatrices ==
  [slot \in 1 .. adv_symbols_amount |->
     {<<parsed.edges[k].u, parsed.edges[k].v>> :
        k \in {n \in DOMAIN parsed.edges : Adv!EdgeSlot(parsed.edges[n]) = slot}}]

SlotRules == [k \in DOMAIN parsed.rules |-> Adv!EWCNFRule(parsed.rules[k])]

\* Where the algorithm of CFL_adv, or of an adapter like it, runs.
OnSlots == phase \in {"adv_run", "adv_done"} \/ (phase \in {"run", "compare"} /\ tested # "CFL")

\* It runs on a complete map, the matrices of the edges and all rules.
SlotsInv ==
  /\ adv_pc # "map" => adv_i = Len(parsed.symbols) + 1
  /\ adv_pc \in {"rules", "prepared"} => adv_matrices = SlotMatrices
  /\ adv_pc = "prepared" => adv_rules = SlotRules
  /\ OnSlots => adv_pc = "prepared"

LEMMA SlotRulesKept == ASSUME UNCHANGED <<parsed, adv_map>> PROVE SlotRules' = SlotRules
BY DEF SlotRules, Adv!EWCNFRule, Adv!Slot, Adv!Idx

LEMMA SlotsStep ==
  ASSUME AdvInv, SlotsInv, Adv!Step
  PROVE  /\ adv_pc' # "map" => adv_i' = Len(parsed'.symbols) + 1
         /\ adv_pc' \in {"rules", "prepared"} => adv_matrices' = SlotMatrices'
         /\ adv_pc' = "prepared" => adv_rules' = SlotRules'
<1>1. CASE Adv!MapSymbol
  BY <1>1 DEF Adv!MapSymbol
<1>2. CASE Adv!MapEnd
  <2>1. adv_i = Len(parsed.symbols) + 1
    BY <1>2, ParsedFacts DEF Adv!MapEnd, AdvInv, AdvTypes
  <2> QED
    BY <1>2, <2>1 DEF Adv!MapEnd
<1>3. CASE Adv!get_matrices_from_graph
  BY <1>3 DEF Adv!get_matrices_from_graph, SlotsInv, SlotMatrices, Adv!EdgeSlot
<1>4. CASE Adv!BuildRules
  <2>1. /\ UNCHANGED <<parsed, adv_i, adv_map, adv_symbols_amount, adv_matrices>>
        /\ adv_pc = "rules" /\ adv_rules' = SlotRules
    BY <1>4 DEF Adv!BuildRules, SlotRules
  <2>2. SlotMatrices' = SlotMatrices
    BY <2>1 DEF SlotMatrices, Adv!EdgeSlot
  <2>3. SlotRules' = SlotRules
    BY <2>1, SlotRulesKept
  <2> QED
    BY <2>1, <2>2, <2>3 DEF SlotsInv
<1> QED
  BY <1>1, <1>2, <1>3, <1>4 DEF Adv!Step

LEMMA SlotsNext == ASSUME AdvInv, SlotsInv, [AllNext]_allVars PROVE SlotsInv'
<1>1. CASE AdvPrepare \/ AllPathAdvPrepare \/ MultsrcAdvPrepare
  <2>1. Adv!Step
    BY <1>1 DEF AdvPrepare, AllPathAdvPrepare, MultsrcAdvPrepare, TestedAdvPrepare,
                AllPathAdvGetMatrices, MultsrcAdvGetMatrices, Adv!Step
  <2>2. OnSlots' => adv_pc' = "prepared"
    BY <1>1 DEF AdvPrepare, AllPathAdvPrepare, MultsrcAdvPrepare, TestedAdvPrepare, OnSlots
  <2> QED
    BY <2>1, <2>2, SlotsStep DEF SlotsInv
<1>2. CASE AdvCleanup
  BY <1>2 DEF AdvCleanup, SlotsInv, OnSlots
<1>3. ASSUME UNCHANGED <<parsed, advVars>>, OnSlots' => OnSlots PROVE SlotsInv'
  <2>1. SlotRules' = SlotRules
    BY <1>3, SlotRulesKept DEF advVars
  <2> QED
    BY <1>3, <2>1 DEF SlotsInv, SlotMatrices, Adv!EdgeSlot, advVars
<1>4. CASE Prepare
  BY <1>3, <1>4, ParsedKept DEF Prepare, OnSlots
<1>5. CASE AdvRun \/ Run \/ AllPathAdvRun \/ MultsrcAdvRun \/ Compared \/ UNCHANGED allVars
  BY <1>3, <1>5 DEF AdvRun, Run, AllPathAdvRun, MultsrcAdvRun, Compared, allVars, vars, wcnfVars,
                    OnSlots
<1> QED
  BY <1>1, <1>2, <1>4, <1>5 DEF AllNext, AllStep

(***************************************************************************)
(* CFL_adv runs on the matrices of the edges, one per slot of a map of all *)
(* symbols; what the adapters do afterwards does not disturb them.         *)
(***************************************************************************)
THEOREM SlotsInvariant == AllSpec => [](AdvInv /\ SlotsInv)
<1>1. AllInit => AdvInv /\ SlotsInv
  <2>1. AllInit => SlotsInv
    BY DEF AllInit, Adv!Zeroed, SlotsInv, OnSlots
  <2>2. AllInit => AdvInv
    BY AdvFresh DEF AllInit, Init, WCNFInit, Adv!Zeroed
  <2> QED
    BY <2>1, <2>2
<1>2. AdvInv /\ SlotsInv /\ [AllNext]_allVars => (AdvInv /\ SlotsInv)'
  BY AdvNext, SlotsNext
<1> QED
  BY <1>1, <1>2, PTL DEF AllSpec

\* The slots of a symbol begin where those of the symbol before end: nothing is
\* shared and nothing left out.
LEMMA MapRuns ==
  ASSUME AdvInv, NEW N \in Nat, N = Len(adv_map), N >= 1
  PROVE  /\ DOMAIN adv_map = 1 .. N
         /\ \A s \in 1 .. N : adv_map[s] \in Nat /\ Width(s) \in Nat /\ Width(s) >= 1
         /\ adv_map[1] = 1
         /\ \A s \in 1 .. N - 1 : adv_map[s + 1] = adv_map[s] + Width(s)
         /\ adv_map[N] + Width(N) = N + 1 + adv_offset
<1>1. /\ DOMAIN adv_map = 1 .. N /\ adv_offset \in Nat /\ adv_i = N + 1
      /\ \A s \in 1 .. N : adv_map[s] \in Nat
  BY DEF AdvInv, AdvTypes
<1>2. \A s \in 1 .. N : Width(s) \in Nat /\ Width(s) >= 1
  BY WidthNat DEF AdvInv, AdvTypes
<1>3. PICK next \in Nat : next = N + 1 + adv_offset
  BY <1>1
<1>4. /\ \A s \in 1 .. N : 1 <= adv_map[s] /\ adv_map[s] + Width(s) <= next
      /\ \A s, t \in 1 .. N : s < t => adv_map[s] + Width(s) <= adv_map[t]
      /\ \A slot \in Nat : 1 <= slot /\ slot < next =>
           \E s \in 1 .. N : adv_map[s] <= slot /\ slot < adv_map[s] + Width(s)
  BY <1>1, <1>3 DEF AdvInv, Tiled, EndsBefore, InSlotsOf
<1>5. adv_map[1] = 1
  <2>1. 1 \in 1 .. N /\ 1 < next
    BY <1>1, <1>3
  <2>2. PICK t \in 1 .. N : adv_map[t] <= 1 /\ 1 < adv_map[t] + Width(t)
    BY <1>4, <2>1
  <2>3. CASE t = 1
    BY <1>1, <1>4, <2>1, <2>2, <2>3
  <2>4. CASE 1 < t
    <3>1. adv_map[1] + Width(1) <= adv_map[t]
      BY <1>4, <2>1, <2>4
    <3>2. adv_map[1] \in Nat /\ adv_map[t] \in Nat /\ Width(1) \in Nat /\ Width(1) >= 1
          /\ 1 <= adv_map[1]
      BY <1>1, <1>2, <1>4, <2>1
    <3> QED
      BY <2>2, <3>1, <3>2
  <2> QED
    BY <2>3, <2>4
<1>6. ASSUME NEW s \in 1 .. N - 1 PROVE adv_map[s + 1] = adv_map[s] + Width(s)
  <2>1. s \in 1 .. N /\ s + 1 \in 1 .. N /\ s < s + 1
    OBVIOUS
  <2>2. PICK slot \in Nat : slot = adv_map[s] + Width(s)
    BY <1>1, <1>2, <2>1
  <2>3. /\ adv_map[s] \in Nat /\ adv_map[s + 1] \in Nat /\ Width(s) \in Nat
        /\ Width(s + 1) \in Nat /\ Width(s + 1) >= 1 /\ 1 <= adv_map[s]
        /\ slot <= adv_map[s + 1] /\ adv_map[s + 1] + Width(s + 1) <= next
    BY <1>1, <1>2, <1>4, <2>1, <2>2
  <2> SUFFICES ASSUME slot < adv_map[s + 1] PROVE FALSE
    BY <2>2, <2>3
  <2>4. 1 <= slot /\ slot < next
    BY <2>2, <2>3
  <2>5. PICK t \in 1 .. N : adv_map[t] <= slot /\ slot < adv_map[t] + Width(t)
    BY <1>4, <2>4
  <2>6. adv_map[t] \in Nat /\ Width(t) \in Nat
    BY <1>1, <1>2
  <2>7. CASE t < s
    <3>1. adv_map[t] + Width(t) <= adv_map[s]
      BY <1>4, <2>1, <2>7
    <3> QED
      BY <2>2, <2>3, <2>5, <2>6, <3>1
  <2>8. CASE t = s
    BY <2>2, <2>5, <2>8
  <2>9. CASE t = s + 1
    BY <2>3, <2>5, <2>9
  <2>10. CASE s + 1 < t
    <3>1. adv_map[s + 1] + Width(s + 1) <= adv_map[t]
      BY <1>4, <2>1, <2>10
    <3> QED
      BY <2>3, <2>5, <2>6, <3>1
  <2>11. t < s \/ t = s \/ t = s + 1 \/ s + 1 < t
    OBVIOUS
  <2> QED
    BY <2>7, <2>8, <2>9, <2>10, <2>11
<1>7. adv_map[N] + Width(N) = next
  <2>1. N \in 1 .. N
    OBVIOUS
  <2>2. PICK slot \in Nat : slot = adv_map[N] + Width(N)
    BY <1>1, <1>2, <2>1
  <2>3. adv_map[N] \in Nat /\ Width(N) \in Nat /\ 1 <= adv_map[N] /\ slot <= next
    BY <1>1, <1>2, <1>4, <2>1, <2>2
  <2> SUFFICES ASSUME slot < next PROVE FALSE
    BY <2>2, <2>3
  <2>4. PICK t \in 1 .. N : adv_map[t] <= slot /\ slot < adv_map[t] + Width(t)
    BY <1>4, <2>2, <2>3
  <2>5. adv_map[t] \in Nat /\ Width(t) \in Nat
    BY <1>1, <1>2
  <2>6. CASE t < N
    <3>1. adv_map[t] + Width(t) <= adv_map[N]
      BY <1>4, <2>1, <2>6
    <3> QED
      BY <2>2, <2>3, <2>4, <2>5, <3>1
  <2>7. CASE t = N
    BY <2>2, <2>4, <2>7
  <2>8. t < N \/ t = N
    OBVIOUS
  <2> QED
    BY <2>6, <2>7, <2>8
<1> QED
  BY <1>1, <1>2, <1>3, <1>5, <1>6, <1>7

\* An indexed symbol takes a slot per block, any other one slot.
LEMMA WidthOf ==
  ASSUME NEW s \in Nat, s >= 1
  PROVE  Width(s) = IF IsIndexed(parsed.symbols[s].label) THEN parsed.block_count ELSE 1
<1>1. s # Adv!NoSymbol
  BY DEF Adv!NoSymbol
<1>2. Adv!IsIndexed(parsed.symbols[s].label) = IsIndexed(parsed.symbols[s].label)
  BY DEF Adv!IsIndexed, IsIndexed, Adv!Indexed, Indexed
<1> QED
  BY <1>1, <1>2 DEF Width, Adv!Idx

\* What CFL_adv runs on.
LEMMA AtAdvRun ==
  ASSUME AdvInv, SlotsInv, adv_pc = "prepared", NEW N, N = Len(parsed.symbols)
  PROVE  /\ parsed \in ParserResults /\ N \in Nat /\ N >= 1 /\ Len(adv_map) = N
         /\ DOMAIN parsed.symbols = 1 .. N
         /\ adv_offset \in Nat /\ adv_symbols_amount = N + adv_offset
         /\ adv_matrices = SlotMatrices
         /\ \A s \in 1 .. N : MatricesOf(parsed.symbols, s, parsed.block_count) = Width(s)
<1>1. /\ parsed \in ParserResults /\ adv_pc = "prepared" /\ adv_i = N + 1
      /\ adv_matrices = SlotMatrices
  BY DEF AdvInv, AdvTypes, SlotsInv
<1>2. parsed.symbols \in Seq(Symbol(LabelRecord)) /\ N \in Nat
      /\ parsed.block_count \in Nat /\ parsed.block_count >= 1
  BY <1>1, ParsedFacts
<1>3. N >= 1
  BY <1>1, <1>2, WCNFAssumption DEF ParserPromise
<1>4. Len(adv_map) = N /\ adv_offset \in Nat /\ adv_symbols_amount = Len(adv_map) + adv_offset
  BY <1>1, <1>2 DEF AdvInv, AdvTypes
<1>5. \A s \in 1 .. N : MatricesOf(parsed.symbols, s, parsed.block_count) = Width(s)
  BY <1>2, WidthOf DEF MatricesOf, BlockCountOf
<1> QED
  BY <1>1, <1>2, <1>3, <1>4, <1>5

\* The two ways to number the matrices.
LEMMA FirstIsMap ==
  ASSUME AdvInv, SlotsInv, adv_pc = "prepared"
  PROVE  first_matrix_by_symbol(parsed.symbols, parsed.block_count) = adv_map
<1> DEFINE N == Len(parsed.symbols)
           W(s) == MatricesOf(parsed.symbols, s, parsed.block_count)
           Runs(f) == f = [s \in 1 .. N |-> IF s = 1 THEN 1 ELSE f[s - 1] + W(s - 1)]
           first == CHOOSE f : Runs(f)
<1>1. /\ N \in Nat /\ N >= 1 /\ N = Len(adv_map) /\ DOMAIN parsed.symbols = 1 .. N
      /\ \A s \in 1 .. N : W(s) = Width(s)
  BY AtAdvRun
<1>2. first_matrix_by_symbol(parsed.symbols, parsed.block_count) = first
  BY <1>1 DEF first_matrix_by_symbol
<1>3. /\ DOMAIN adv_map = 1 .. N /\ adv_map[1] = 1
      /\ \A s \in 1 .. N - 1 : adv_map[s + 1] = adv_map[s] + Width(s)
  <2> HIDE DEF N
  <2> QED
    BY <1>1, MapRuns
<1> HIDE DEF N, W
<1>4. Runs(adv_map)
  <2>1. adv_map = [s \in 1 .. N |-> adv_map[s]]
    <3>1. adv_map \in Seq(Nat) /\ Len(adv_map) = N /\ N \in Nat
      BY <1>1 DEF AdvInv, AdvTypes
    <3>2. adv_map \in [1 .. N -> Nat]
      BY <3>1
    <3> QED
      BY <3>2
  <2>2. ASSUME NEW s \in 1 .. N
        PROVE  adv_map[s] = IF s = 1 THEN 1 ELSE adv_map[s - 1] + W(s - 1)
    <3>1. CASE s = 1
      BY <1>3, <3>1
    <3>2. CASE s # 1
      <4>1. s - 1 \in 1 .. N - 1 /\ s - 1 \in 1 .. N /\ (s - 1) + 1 = s
        BY <1>1, <3>2
      <4>2. adv_map[(s - 1) + 1] = adv_map[s - 1] + Width(s - 1) /\ W(s - 1) = Width(s - 1)
        BY <1>1, <1>3, <4>1
      <4> QED
        BY <3>2, <4>1, <4>2
    <3> QED
      BY <3>1, <3>2
  <2> QED
    BY <2>1, <2>2
<1>5. Runs(first)
  <2>1. \E f : Runs(f)
    BY <1>4
  <2> HIDE DEF Runs
  <2> QED
    BY <2>1
<1> HIDE DEF first
<1> DEFINE S == {s \in Nat : s = 0 \/ first[s] = adv_map[s]}
<1>6. \A s \in 0 .. N - 1 : s \in S => s + 1 \in S
  <2> SUFFICES ASSUME NEW s \in 0 .. N - 1, s \in S PROVE first[s + 1] = adv_map[s + 1]
    BY <1>1
  <2>1. s + 1 \in 1 .. N /\ (s + 1) - 1 = s /\ s \in Nat
    BY <1>1
  <2>2. /\ first[s + 1] = IF s + 1 = 1 THEN 1 ELSE first[s] + W(s)
        /\ adv_map[s + 1] = IF s + 1 = 1 THEN 1 ELSE adv_map[s] + W(s)
    <3>1. \A k \in 1 .. N : first[k] = IF k = 1 THEN 1 ELSE first[k - 1] + W(k - 1)
      BY <1>5
    <3>2. \A k \in 1 .. N : adv_map[k] = IF k = 1 THEN 1 ELSE adv_map[k - 1] + W(k - 1)
      BY <1>4
    <3> QED
      BY <2>1, <3>1, <3>2
  <2>3. s = 0 \/ first[s] = adv_map[s]
    OBVIOUS
  <2> QED
    BY <2>1, <2>2, <2>3
<1>7. \A s \in 0 .. N : s \in S
  <2>1. 0 \in S
    OBVIOUS
  <2> HIDE DEF S
  <2> QED
    BY <1>1, <1>6, <2>1, Induction
<1>8. first = adv_map
  <2>1. first = [s \in 1 .. N |-> first[s]] /\ adv_map = [s \in 1 .. N |-> adv_map[s]]
    BY <1>4, <1>5
  <2>2. \A s \in 1 .. N : s \in 0 .. N /\ s # 0
    BY <1>1
  <2>3. \A s \in 1 .. N : first[s] = adv_map[s]
    BY <1>7, <2>2
  <2> QED
    BY <2>1, <2>3
<1> QED
  BY <1>2, <1>8

\* The list of the matrices names the symbol and the block of each slot.
LEMMA IndicesLaidOut ==
  ASSUME AdvInv, SlotsInv, adv_pc = "prepared",
         NEW indices, indices = explode_indices(parsed.symbols, parsed.block_count)
  PROVE  /\ DOMAIN indices = 1 .. adv_symbols_amount
         /\ \A s \in 1 .. Len(parsed.symbols) : \A n \in 0 .. Width(s) - 1 :
              indices[adv_map[s] + n] = [symbol_index |-> s, block_index |-> n]
<1> DEFINE T == [symbol_index : Nat, block_index : Nat]
           Of(s) == [n \in 1 .. MatricesOf(parsed.symbols, s, parsed.block_count) |->
                       [symbol_index |-> s, block_index |-> n - 1]]
           seqs == [s \in DOMAIN parsed.symbols |-> Of(s)]
           N == Len(parsed.symbols)
           at == [s \in 1 .. N + 1 |-> IF s = N + 1 THEN N + adv_offset ELSE adv_map[s] - 1]
<1>1. /\ N \in Nat /\ N >= 1 /\ Len(adv_map) = N /\ DOMAIN parsed.symbols = 1 .. N
      /\ adv_offset \in Nat /\ adv_symbols_amount = N + adv_offset
      /\ \A s \in 1 .. N : MatricesOf(parsed.symbols, s, parsed.block_count) = Width(s)
  BY AtAdvRun
<1>2. indices = FlattenSeq(seqs)
  BY DEF explode_indices
<1> HIDE DEF N
<1>3. /\ \A s \in 1 .. N : adv_map[s] \in Nat /\ Width(s) \in Nat /\ Width(s) >= 1
      /\ adv_map[1] = 1
      /\ \A s \in 1 .. N - 1 : adv_map[s + 1] = adv_map[s] + Width(s)
      /\ adv_map[N] + Width(N) = N + 1 + adv_offset
  BY <1>1, MapRuns
<1>4. ASSUME NEW s \in 1 .. N
      PROVE  /\ seqs[s] \in Seq(T) /\ Len(seqs[s]) = Width(s)
             /\ \A n \in 1 .. Width(s) : seqs[s][n] = [symbol_index |-> s, block_index |-> n - 1]
  <2>1. seqs[s] = [n \in 1 .. Width(s) |-> [symbol_index |-> s, block_index |-> n - 1]]
    BY <1>1
  <2>2. \A n \in 1 .. Width(s) : [symbol_index |-> s, block_index |-> n - 1] \in T
    BY <1>1, <1>3
  <2>3. Width(s) \in Nat
    BY <1>3
  <2> HIDE DEF T, seqs
  <2> QED
    BY <2>1, <2>2, <2>3
<1>5. Len(seqs) = N
  BY <1>1
<1>6. at[1] = 0
  BY <1>1, <1>3
<1>7. ASSUME NEW s \in 1 .. N PROVE at[s + 1] = at[s] + Len(seqs[s])
  <2>1. s \in 1 .. N + 1 /\ s + 1 \in 1 .. N + 1 /\ s # N + 1
    BY <1>1
  <2>2. at[s] = adv_map[s] - 1 /\ Len(seqs[s]) = Width(s)
    BY <1>4, <2>1
  <2> HIDE DEF seqs
  <2>3. CASE s = N
    <3>1. at[s + 1] = N + adv_offset
      BY <2>1, <2>3
    <3>2. adv_map[s] \in Nat /\ Width(s) \in Nat /\ adv_map[s] + Width(s) = N + 1 + adv_offset
      BY <1>3, <2>3
    <3> QED
      BY <1>1, <2>2, <3>1, <3>2
  <2>4. CASE s # N
    <3>1. s \in 1 .. N - 1 /\ s + 1 # N + 1
      BY <1>1, <2>4
    <3>2. at[s + 1] = adv_map[s + 1] - 1
      BY <2>1, <3>1
    <3>3. adv_map[s] \in Nat /\ Width(s) \in Nat /\ adv_map[s + 1] = adv_map[s] + Width(s)
      BY <1>3, <3>1
    <3> QED
      BY <2>2, <3>2, <3>3
  <2> QED
    BY <2>3, <2>4
<1>8. at[N + 1] = N + adv_offset /\ \A s \in 1 .. N : at[s] = adv_map[s] - 1
  BY <1>1
<1> HIDE DEF T, Of, seqs, at
<1>9. LaidOut(T, seqs, at, indices, N)
  BY <1>1, <1>2, <1>4, <1>5, <1>6, <1>7, FlattenLaysOut
<1>10. DOMAIN indices = 1 .. adv_symbols_amount
  <2>1. indices \in Seq(T) /\ Len(indices) = N + adv_offset
    BY <1>8, <1>9 DEF LaidOut
  <2> QED
    BY <1>1, <2>1
<1>11. ASSUME NEW s \in 1 .. N, NEW n \in 0 .. Width(s) - 1
       PROVE  indices[adv_map[s] + n] = [symbol_index |-> s, block_index |-> n]
  <2>1. adv_map[s] \in Nat /\ Width(s) \in Nat /\ Len(seqs[s]) = Width(s)
    BY <1>3, <1>4
  <2>2. n + 1 \in 1 .. Len(seqs[s]) /\ (n + 1) - 1 = n
    BY <2>1
  <2>3. indices[at[s] + (n + 1)] = seqs[s][n + 1]
    BY <1>9, <2>2 DEF LaidOut
  <2>4. at[s] + (n + 1) = adv_map[s] + n
    BY <1>8, <2>1
  <2>5. seqs[s][n + 1] = [symbol_index |-> s, block_index |-> (n + 1) - 1]
    BY <1>4, <2>1, <2>2
  <2> QED
    BY <2>2, <2>3, <2>4, <2>5
<1> QED
  BY <1>10, <1>11 DEF N

\* A slot is the slot of one symbol and block only.
LEMMA SlotOfOne ==
  ASSUME AdvInv, NEW s \in DOMAIN adv_map, NEW t \in DOMAIN adv_map,
         NEW m \in 0 .. Width(s) - 1, NEW n \in 0 .. Width(t) - 1,
         adv_map[s] + m = adv_map[t] + n
  PROVE  s = t /\ m = n
<1>1. /\ adv_map[s] \in Nat /\ adv_map[t] \in Nat /\ Width(s) \in Nat /\ Width(t) \in Nat
      /\ s \in Nat /\ t \in Nat
  <2>1. parsed \in ParserResults /\ adv_map \in Seq(Nat)
    BY DEF AdvInv, AdvTypes
  <2>2. /\ adv_map[s] \in Nat /\ adv_map[t] \in Nat /\ s \in Nat /\ t \in Nat
    BY <2>1
  <2>3. Width(s) \in Nat /\ Width(t) \in Nat
    BY <2>1, WidthNat
  <2> QED
    BY <2>2, <2>3
<1>2. m <= Width(s) - 1 /\ n <= Width(t) - 1 /\ m \in Nat /\ n \in Nat
  BY <1>1
<1>3. CASE s < t
  <2>1. adv_map[s] + Width(s) <= adv_map[t]
    BY <1>3 DEF AdvInv, Tiled, EndsBefore
  <2> QED
    BY <1>1, <1>2, <2>1
<1>4. CASE t < s
  <2>1. adv_map[t] + Width(t) <= adv_map[s]
    BY <1>4 DEF AdvInv, Tiled, EndsBefore
  <2> QED
    BY <1>1, <1>2, <2>1
<1>5. CASE s = t
  BY <1>1, <1>2, <1>5
<1> QED
  BY <1>1, <1>3, <1>4, <1>5

\* An edge of the graph: its symbol, and a block the symbol has.
LEMMA EdgeFacts ==
  ASSUME AdvInv, SlotsInv, adv_pc = "prepared", NEW k \in DOMAIN parsed.edges,
         NEW e, e = parsed.edges[k]
  PROVE  /\ e.term_index \in 1 .. Len(parsed.symbols) /\ e.index \in Nat
         /\ EdgeAccepted(parsed.symbols, parsed.block_count, e)
         /\ IsIndexed(parsed.symbols[e.term_index].label) =>
              e.index \in 0 .. Width(e.term_index) - 1
         /\ 0 \in 0 .. Width(e.term_index) - 1
<1>1. /\ parsed \in ParserResults /\ Len(parsed.symbols) \in Nat
      /\ DOMAIN parsed.symbols = 1 .. Len(parsed.symbols)
  BY AtAdvRun
<1>2. parsed.block_count \in Nat /\ parsed.block_count >= 1
  BY <1>1, ParsedFacts
<1>3. /\ e.term_index \in 1 .. Len(parsed.symbols)
      /\ e.index \in Nat /\ e.index < parsed.block_count
  <2>1. parsed.edges \in Seq(Edge) /\ Len(parsed.edges) \in Nat
    BY <1>1, ParsedEdges
  <2>2. k \in 1 .. Len(parsed.edges)
    BY <2>1
  <2> QED
    BY <1>1, <2>2, ParsedEdges
<1>4. EdgeAccepted(parsed.symbols, parsed.block_count, e)
  BY <1>1, <1>2, <1>3 DEF EdgeAccepted, BlockCountOf
<1>5. IsIndexed(parsed.symbols[e.term_index].label) => Width(e.term_index) = parsed.block_count
  BY <1>1, <1>3, WidthOf
<1>6. Width(e.term_index) \in Nat /\ Width(e.term_index) >= 1
  BY <1>1, WidthNat
<1> QED
  BY <1>2, <1>3, <1>4, <1>5, <1>6

\* The block of an edge of a symbol that is not indexed does not count.
BlockOf(e) == IF IsIndexed(parsed.symbols[e.term_index].label) THEN e.index ELSE 0

Names(info, e) ==
  /\ e.term_index = info.symbol_index
  /\ IsIndexed(parsed.symbols[e.term_index].label) => e.index = info.block_index

\* An edge is in a matrix exactly if the list says so.
LEMMA InItsMatrix ==
  ASSUME AdvInv, SlotsInv, adv_pc = "prepared", NEW k \in DOMAIN parsed.edges,
         NEW e, e = parsed.edges[k], NEW m \in 1 .. adv_symbols_amount,
         NEW indices, indices = explode_indices(parsed.symbols, parsed.block_count)
  PROVE  (MatrixOfEdge(parsed.symbols, parsed.block_count, e) = m) <=> Names(indices[m], e)
<1> DEFINE N == Len(parsed.symbols)
<1>1. /\ N \in Nat /\ N >= 1 /\ Len(adv_map) = N /\ DOMAIN adv_map = 1 .. N
      /\ adv_offset \in Nat /\ adv_symbols_amount = N + adv_offset
  <2>1. adv_map \in Seq(Nat)
    BY DEF AdvInv, AdvTypes
  <2>2. /\ N \in Nat /\ N >= 1 /\ Len(adv_map) = N
        /\ adv_offset \in Nat /\ adv_symbols_amount = N + adv_offset
    BY AtAdvRun
  <2> HIDE DEF N
  <2> QED
    BY <2>1, <2>2
<1>2. /\ e.term_index \in 1 .. N /\ e.index \in Nat
      /\ BlockOf(e) \in 0 .. Width(e.term_index) - 1
  BY EdgeFacts DEF BlockOf
<1>3. MatrixOfEdge(parsed.symbols, parsed.block_count, e) = adv_map[e.term_index] + BlockOf(e)
  BY FirstIsMap DEF MatrixOfEdge, BlockOf
<1>4. PICK s \in 1 .. N : InSlotsOf(s, m)
  <2>1. adv_i = N + 1 /\ m \in Nat /\ 1 <= m /\ m < adv_i + adv_offset
    BY <1>1 DEF AdvInv, AdvTypes
  <2> QED
    BY <1>1, <2>1 DEF AdvInv, Tiled
<1>5. adv_map[s] \in Nat /\ Width(s) \in Nat /\ m \in Nat
  BY <1>1, WidthNat, SMTT(30) DEF AdvInv, AdvTypes
<1>6. PICK n \in 0 .. Width(s) - 1 : m = adv_map[s] + n
  <2>1. adv_map[s] <= m /\ m < adv_map[s] + Width(s)
    BY <1>4 DEF InSlotsOf
  <2>2. m - adv_map[s] \in 0 .. Width(s) - 1 /\ m = adv_map[s] + (m - adv_map[s])
    BY <1>5, <2>1
  <2> QED
    BY <2>2
<1>7. indices[m].symbol_index = s /\ indices[m].block_index = n
  <2>1. indices[m] = [symbol_index |-> s, block_index |-> n]
    BY <1>6, IndicesLaidOut
  <2> QED
    BY <2>1
<1>8. ASSUME adv_map[e.term_index] + BlockOf(e) = m PROVE Names(indices[m], e)
  <2>1. e.term_index = s /\ BlockOf(e) = n
    BY <1>1, <1>2, <1>6, <1>8, SlotOfOne, SMTT(30)
  <2> QED
    BY <1>7, <2>1 DEF Names, BlockOf
<1>9. ASSUME Names(indices[m], e) PROVE adv_map[e.term_index] + BlockOf(e) = m
  <2>1. e.term_index = s /\ (IsIndexed(parsed.symbols[s].label) => e.index = n)
    BY <1>7, <1>9 DEF Names
  <2>2. CASE IsIndexed(parsed.symbols[s].label)
    BY <1>6, <2>1, <2>2 DEF BlockOf
  <2>3. CASE ~IsIndexed(parsed.symbols[s].label)
    <3>1. Width(s) = 1
      BY <1>1, <2>3, WidthOf
    <3>2. n = 0
      BY <1>6, <3>1
    <3> QED
      BY <1>6, <2>1, <2>3, <3>2 DEF BlockOf
  <2> QED
    BY <2>2, <2>3
<1> QED
  BY <1>3, <1>8, <1>9

(***************************************************************************)
(* parser.h:67-77: the matrices a library user gets are, in their order,   *)
(* those CFL_adv builds for itself; each holds the edges of the label and  *)
(* the block its entry names, and every edge the parser makes is accepted. *)
(***************************************************************************)
THEOREM ViewIsSlots == AllSpec => []ViewIsTheSlots
<1>1. ASSUME AdvInv, SlotsInv PROVE ViewIsTheSlots
  <2> SUFFICES ASSUME phase = "adv_run", adv_pc = "prepared" PROVE ViewIsTheSlots
    BY <1>1 DEF ViewIsTheSlots, SlotsInv, OnSlots
  <2> DEFINE view == get_grb_matrices_from_graph(ParsedGraph, parsed.symbols)
             indices == explode_indices(parsed.symbols, parsed.block_count)
             InMatrix(m) == {k \in DOMAIN parsed.edges :
                  MatrixOfEdge(parsed.symbols, parsed.block_count, parsed.edges[k]) = m}
             Pairs(ks) == {<<parsed.edges[k].u, parsed.edges[k].v>> : k \in ks}
  <2>1. \A k \in DOMAIN parsed.edges :
          EdgeAccepted(parsed.symbols, parsed.block_count, parsed.edges[k])
    BY <1>1, EdgeFacts
  <2>2. first_matrix_by_symbol(parsed.symbols, parsed.block_count) = adv_map
    BY <1>1, FirstIsMap
  <2>3. /\ view.matrix_symbols = indices
        /\ view.matrices = [m \in DOMAIN indices |-> Pairs(InMatrix(m))]
    BY DEF get_grb_matrices_from_graph, ParsedGraph
  <2>4. DOMAIN indices = 1 .. adv_symbols_amount
    BY <1>1, IndicesLaidOut
  <2>5. ASSUME IndexOnlyOnIndexed PROVE view.matrices = adv_matrices
    <3>1. adv_matrices = [slot \in 1 .. adv_symbols_amount |->
             Pairs({n \in DOMAIN parsed.edges : Adv!EdgeSlot(parsed.edges[n]) = slot})]
      BY <1>1, AtAdvRun DEF SlotMatrices
    <3>2. ASSUME NEW k \in DOMAIN parsed.edges
          PROVE  MatrixOfEdge(parsed.symbols, parsed.block_count, parsed.edges[k])
                   = Adv!EdgeSlot(parsed.edges[k])
      <4>1. parsed.edges[k].index \in Nat
        BY <1>1, EdgeFacts
      <4>2. ~IsIndexed(parsed.symbols[parsed.edges[k].term_index].label) =>
              parsed.edges[k].index = 0
        BY <2>5, <4>1 DEF IndexOnlyOnIndexed
      <4> QED
        BY <2>2, <4>2 DEF MatrixOfEdge, Adv!EdgeSlot
    <3>3. \A m : InMatrix(m) = {n \in DOMAIN parsed.edges : Adv!EdgeSlot(parsed.edges[n]) = m}
      BY <3>2
    <3> HIDE DEF InMatrix, indices, view, Pairs
    <3> QED
      BY <2>3, <2>4, <3>1, <3>3
  <2>6. ASSUME NEW m \in DOMAIN view.matrix_symbols
        PROVE  view.matrices[m] =
                 Pairs({n \in DOMAIN parsed.edges : Names(view.matrix_symbols[m], parsed.edges[n])})
    <3>1. m \in 1 .. adv_symbols_amount /\ view.matrices[m] = Pairs(InMatrix(m))
      BY <2>3, <2>4
    <3>2. \A n \in DOMAIN parsed.edges :
            (MatrixOfEdge(parsed.symbols, parsed.block_count, parsed.edges[n]) = m)
              <=> Names(indices[m], parsed.edges[n])
      BY <1>1, <3>1, InItsMatrix
    <3>3. InMatrix(m) = {n \in DOMAIN parsed.edges : Names(indices[m], parsed.edges[n])}
      BY <3>2
    <3> HIDE DEF InMatrix, indices, view, Pairs
    <3> QED
      BY <2>3, <3>1, <3>3
  <2> QED
    BY <2>1, <2>2, <2>5, <2>6 DEF ViewIsTheSlots, Names
<1>2. AdvInv /\ SlotsInv => ViewIsTheSlots
  BY <1>1
<1> QED
  BY <1>2, SlotsInvariant, PTL

-----------------------------------------------------------------------------
(***************************************************************************)
(* The results.  Each algorithm stops at the least relations closed under  *)
(* its rules that contain its matrices, so two adapters agree if whatever  *)
(* is closed for the one is closed for the other.                          *)
(***************************************************************************)

\* BodyOf is the operator Body for relations in a function.
BodyOf(Q, A, B) ==
  CASE A = NoSymbol -> Identity
    [] A # NoSymbol /\ B = NoSymbol -> Q[A]
    [] OTHER -> Compose(Q[A], Q[B])

\* The slot of block n of a symbol, by the list of the public view.
FirstSlot == first_matrix_by_symbol(parsed.symbols, parsed.block_count)

SlotAt(s, n) ==
  IF s = NoSymbol THEN NoSymbol
  ELSE IF IsIndexed(parsed.symbols[s].label) THEN FirstSlot[s] + n ELSE FirstSlot[s]

SlotCount ==
  FirstSlot[Len(parsed.symbols)]
    + MatricesOf(parsed.symbols, Len(parsed.symbols), parsed.block_count) - 1

SlotEdges(slot) ==
  {<<parsed.edges[k].u, parsed.edges[k].v>> :
     k \in {n \in DOMAIN parsed.edges :
              FirstSlot[parsed.edges[n].term_index] + parsed.edges[n].index = slot}}

\* One rule of the file for one block, on the slots.
SlotRule(r, n) == <<SlotAt(r.first, n), SlotAt(r.second, n), SlotAt(r.third, n)>>

\* Relations on the slots that hold the edges and are closed under the rules.
SlotClosed(Q) ==
  /\ \A slot \in 1 .. SlotCount : SlotEdges(slot) \subseteq Q[slot]
  /\ \A k \in 1 .. Len(parsed.rules) : \A n \in 0 .. parsed.block_count - 1 :
       LET c == SlotRule(parsed.rules[k], n) IN BodyOf(Q, c[2], c[3]) \subseteq Q[c[1]]

LEMMA InCompose ==
  ASSUME NEW R, NEW Q, NEW x
  PROVE  x \in Compose(R, Q) <=> \E a \in R : \E b \in Q : a[2] = b[1] /\ x = <<a[1], b[2]>>
<1>1. ASSUME x \in Compose(R, Q) PROVE \E a \in R : \E b \in Q : a[2] = b[1] /\ x = <<a[1], b[2]>>
  <2>1. PICK y \in R \X Q : y[1][2] = y[2][1] /\ x = <<y[1][1], y[2][2]>>
    BY <1>1 DEF Compose
  <2> QED
    BY <2>1
<1>2. ASSUME NEW a \in R, NEW b \in Q, a[2] = b[1], x = <<a[1], b[2]>> PROVE x \in Compose(R, Q)
  <2> DEFINE y == <<a, b>>
  <2>1. y \in R \X Q /\ y[1] = a /\ y[2] = b
    OBVIOUS
  <2> HIDE DEF y
  <2>2. y \in {z \in R \X Q : z[1][2] = z[2][1]} /\ x = <<y[1][1], y[2][2]>>
    BY <1>2, <2>1
  <2> QED
    BY <2>2 DEF Compose
<1> QED
  BY <1>1, <1>2

LEMMA ComposeGrows ==
  ASSUME NEW R, NEW Q, NEW R2, NEW Q2, R \subseteq R2, Q \subseteq Q2
  PROVE  Compose(R, Q) \subseteq Compose(R2, Q2)
BY InCompose

\* A rule gives no less on larger relations.
LEMMA BodyGrows ==
  ASSUME NEW Q, NEW Q2, NEW A, NEW B, A # NoSymbol => Q[A] \subseteq Q2[A],
         B # NoSymbol => Q[B] \subseteq Q2[B]
  PROVE  BodyOf(Q, A, B) \subseteq BodyOf(Q2, A, B)
<1>1. CASE A = NoSymbol
  BY <1>1 DEF BodyOf
<1>2. CASE A # NoSymbol /\ B = NoSymbol
  BY <1>2 DEF BodyOf
<1>3. CASE A # NoSymbol /\ B # NoSymbol
  <2>1. Compose(Q[A], Q[B]) \subseteq Compose(Q2[A], Q2[B])
    BY <1>3, ComposeGrows
  <2> QED
    BY <1>3, <2>1 DEF BodyOf
<1> QED
  BY <1>1, <1>2, <1>3

AdvRuleCopies == UNION {AdvCopies(adv_rules[k]) : k \in DOMAIN adv_rules}

\* A step of CFL_adv's algorithm.
LEMMA AdvStepIs ==
  LAGraph_CFL_reachability_adv =
    [s \in DOMAIN outputs |->
       outputs[s] \cup UNION {BodyOf(outputs, c[2], c[3]) : c \in {d \in AdvRuleCopies : d[1] = s}}]
BY DEF LAGraph_CFL_reachability_adv, AdvRuleCopies, BodyOf, Body

\* The algorithm of CFL and the relation of a symbol of its rules.
CflPairs(r) ==
  IF r.third = NoSymbol
    THEN IF r.second = NoSymbol THEN Identity ELSE adj_matrices[r.second]
    ELSE IF r.second = NoSymbol THEN Identity ELSE Compose(outputs[r.second], outputs[r.third])

LEMMA CflStepIs ==
  LAGraph_CFL_reachability =
    [n \in DOMAIN outputs |->
       outputs[n] \cup UNION {CflPairs(rules[k]) : k \in {l \in DOMAIN rules : rules[l].first = n}}]
<1> DEFINE Nonterm(n) == outputs[n]
           Term(t) == adj_matrices[t]
           Pairs(rule) == IF rule.third = NoSymbol THEN Body(Term, rule.second, NoSymbol)
                          ELSE Body(Nonterm, rule.second, rule.third)
<1>1. \A r : Pairs(r) = CflPairs(r)
  BY DEF Body, CflPairs
<1>2. LAGraph_CFL_reachability =
        [n \in DOMAIN outputs |->
           outputs[n] \cup UNION {Pairs(rules[k]) : k \in {l \in DOMAIN rules : rules[l].first = n}}]
  BY DEF LAGraph_CFL_reachability
<1> HIDE DEF Pairs
<1> QED
  BY <1>1, <1>2


-----------------------------------------------------------------------------
(* CFL_adv and the adapters like it: the slots                              *)

BlockNumbers == 0 .. parsed.block_count - 1
SymbolNumbers == 1 .. Len(parsed.symbols)

\* Symbols and blocks have slots of their own, the start the first.
SlotLayout ==
  /\ FirstSlot[1] = 1
  /\ \A s \in SymbolNumbers : \A n \in BlockNumbers : SlotAt(s, n) \in 1 .. SlotCount
  /\ \A s, t \in SymbolNumbers : \A n, q \in BlockNumbers :
       SlotAt(s, n) = SlotAt(t, q) =>
         s = t /\ (IsIndexed(parsed.symbols[s].label) => n = q)

LEMMA SlotsLaidOut ==
  ASSUME AdvInv, SlotsInv, adv_pc = "prepared"
  PROVE  FirstSlot = adv_map /\ SlotCount = adv_symbols_amount /\ SlotLayout
<1> DEFINE N == Len(parsed.symbols)
<1>1. /\ parsed \in ParserResults /\ N \in Nat /\ N >= 1 /\ Len(adv_map) = N
      /\ adv_offset \in Nat /\ adv_symbols_amount = N + adv_offset
      /\ \A s \in 1 .. N : MatricesOf(parsed.symbols, s, parsed.block_count) = Width(s)
  BY AtAdvRun
<1>2. FirstSlot = adv_map
  BY FirstIsMap DEF FirstSlot
<1>3. parsed.block_count \in Nat /\ parsed.block_count >= 1
  BY <1>1, ParsedFacts
<1> HIDE DEF N
<1>4. /\ DOMAIN adv_map = 1 .. N
      /\ \A s \in 1 .. N : adv_map[s] \in Nat /\ Width(s) \in Nat /\ Width(s) >= 1
      /\ adv_map[1] = 1 /\ adv_map[N] + Width(N) = N + 1 + adv_offset
  BY <1>1, MapRuns
<1>5. SlotCount = adv_symbols_amount
  <2>1. N \in 1 .. N
    BY <1>1
  <2>2. SlotCount = adv_map[N] + Width(N) - 1
    BY <1>1, <1>2, <2>1 DEF SlotCount, N
  <2>3. adv_map[N] \in Nat /\ Width(N) \in Nat
    BY <1>4, <2>1
  <2>4. adv_map[N] + Width(N) = N + 1 + adv_offset /\ adv_symbols_amount = N + adv_offset
        /\ N \in Nat /\ adv_offset \in Nat
    BY <1>1, <1>4
  <2> QED
    BY <2>2, <2>3, <2>4
\* A slot as the map has it.
<1>6. ASSUME NEW s \in 1 .. N, NEW n \in BlockNumbers
      PROVE  \E m \in 0 .. Width(s) - 1 :
               SlotAt(s, n) = adv_map[s] + m /\ (IsIndexed(parsed.symbols[s].label) => m = n)
  <2>1. s \in Nat /\ s >= 1 /\ s # NoSymbol
    BY <1>1 DEF NoSymbol
  <2>2. Width(s) = IF IsIndexed(parsed.symbols[s].label) THEN parsed.block_count ELSE 1
    BY <2>1, WidthOf
  <2>3. adv_map[s] \in Nat /\ adv_map[s] + 0 = adv_map[s]
    BY <1>4
  <2>4. CASE IsIndexed(parsed.symbols[s].label)
    <3>1. SlotAt(s, n) = adv_map[s] + n
      BY <1>2, <2>1, <2>4 DEF SlotAt
    <3>2. n \in 0 .. Width(s) - 1
      BY <2>2, <2>4 DEF BlockNumbers
    <3> QED
      BY <3>1, <3>2
  <2>5. CASE ~IsIndexed(parsed.symbols[s].label)
    <3>1. SlotAt(s, n) = adv_map[s] + 0
      BY <1>2, <2>1, <2>3, <2>5 DEF SlotAt
    <3>2. 0 \in 0 .. Width(s) - 1
      BY <2>2, <2>5
    <3> QED
      BY <2>5, <3>1, <3>2
  <2> QED
    BY <2>4, <2>5
<1>7. ASSUME NEW s \in 1 .. N, NEW n \in BlockNumbers PROVE SlotAt(s, n) \in 1 .. SlotCount
  <2>1. PICK m \in 0 .. Width(s) - 1 : SlotAt(s, n) = adv_map[s] + m
    BY <1>6
  <2>2. adv_i = N + 1
    BY <1>1 DEF AdvInv, AdvTypes, N
  <2>3. 1 <= adv_map[s] /\ adv_map[s] + Width(s) <= adv_i + adv_offset
    BY <1>4 DEF AdvInv, Tiled, EndsBefore
  <2>4. adv_map[s] \in Nat /\ Width(s) \in Nat
    BY <1>4
  <2>5. m \in Nat /\ m <= Width(s) - 1
    BY <2>4
  <2> QED
    BY <1>1, <1>5, <2>1, <2>2, <2>3, <2>4, <2>5
<1>8. ASSUME NEW s \in 1 .. N, NEW t \in 1 .. N, NEW n \in BlockNumbers, NEW q \in BlockNumbers,
             SlotAt(s, n) = SlotAt(t, q)
      PROVE  s = t /\ (IsIndexed(parsed.symbols[s].label) => n = q)
  <2>1. PICK m1 \in 0 .. Width(s) - 1 :
          SlotAt(s, n) = adv_map[s] + m1 /\ (IsIndexed(parsed.symbols[s].label) => m1 = n)
    BY <1>6
  <2>2. PICK m2 \in 0 .. Width(t) - 1 :
          SlotAt(t, q) = adv_map[t] + m2 /\ (IsIndexed(parsed.symbols[t].label) => m2 = q)
    BY <1>6
  <2>3. s = t /\ m1 = m2
    <3>1. s \in DOMAIN adv_map /\ t \in DOMAIN adv_map /\ adv_map[s] + m1 = adv_map[t] + m2
      BY <1>4, <1>8, <2>1, <2>2
    <3> QED
      BY <3>1, SlotOfOne
  <2> QED
    BY <2>1, <2>2, <2>3
<1> QED
  BY <1>2, <1>4, <1>5, <1>7, <1>8 DEF SlotLayout, SymbolNumbers, N

\* The copy of a rule of the file for a block.
LEMMA CopyIs ==
  ASSUME AdvInv, SlotsInv, adv_pc = "prepared", NEW r, NEW n \in Nat,
         NEW rule, rule = Adv!EWCNFRule(r),
         {r.first, r.second, r.third} \subseteq 0 .. Len(parsed.symbols)
  PROVE  <<CopySlot(rule, "first", rule.nonterm, n), CopySlot(rule, "second", rule.prod_A, n),
           CopySlot(rule, "third", rule.prod_B, n)>> = SlotRule(r, n)
<1>1. FirstSlot = adv_map
  BY SlotsLaidOut
<1>2. ASSUME NEW s PROVE Adv!Idx(s) = (s # NoSymbol /\ IsIndexed(parsed.symbols[s].label))
  BY DEF Adv!Idx, NoSymbol, Adv!NoSymbol, IsIndexed, Adv!IsIndexed, Indexed, Adv!Indexed
<1>3. ASSUME NEW s PROVE Adv!Slot(s) = IF s = NoSymbol THEN NoSymbol ELSE adv_map[s]
  BY DEF Adv!Slot, NoSymbol, Adv!NoSymbol
<1>4. ASSUME NEW s
      PROVE  (IF Adv!Idx(s) THEN Adv!Slot(s) + n ELSE Adv!Slot(s)) = SlotAt(s, n)
  BY <1>1, <1>2, <1>3 DEF SlotAt
<1>5. /\ rule.nonterm = Adv!Slot(r.first) /\ rule.prod_A = Adv!Slot(r.second)
      /\ rule.prod_B = Adv!Slot(r.third)
      /\ rule.indexed = {f \in {"first", "second", "third"} : Adv!Idx(r[f])}
  BY DEF Adv!EWCNFRule
<1>6. /\ "first" \in rule.indexed <=> Adv!Idx(r.first)
      /\ "second" \in rule.indexed <=> Adv!Idx(r.second)
      /\ "third" \in rule.indexed <=> Adv!Idx(r.third)
  BY <1>5
<1>7. CopySlot(rule, "first", rule.nonterm, n) = SlotAt(r.first, n)
  BY <1>4, <1>5, <1>6 DEF CopySlot
<1>8. CopySlot(rule, "second", rule.prod_A, n) = SlotAt(r.second, n)
  BY <1>4, <1>5, <1>6 DEF CopySlot
<1>9. CopySlot(rule, "third", rule.prod_B, n) = SlotAt(r.third, n)
  BY <1>4, <1>5, <1>6 DEF CopySlot
<1> QED
  BY <1>7, <1>8, <1>9 DEF SlotRule

LEMMA RuleSymbols ==
  ASSUME NEW p \in ParserResults, NEW k \in 1 .. Len(p.rules)
  PROVE  /\ p.rules[k] \in Rule /\ p.rules[k].first \in 1 .. Len(p.symbols)
         /\ p.symbols[p.rules[k].first].is_nonterm = TRUE
         /\ p.rules[k].second \in 0 .. Len(p.symbols) /\ p.rules[k].third \in 0 .. Len(p.symbols)
         /\ p.rules[k].second = NoSymbol => p.rules[k].third = NoSymbol
<1>1. /\ p.rules \in Seq(Rule) /\ Len(p.symbols) \in Nat
      /\ p.rules[k].first \in 1 .. Len(p.symbols)
      /\ p.symbols[p.rules[k].first].is_nonterm = TRUE
      /\ p.rules[k].second = NoSymbol \/ p.rules[k].second \in 1 .. Len(p.symbols)
  BY ParsedFacts
<1>2. p.symbols \in Seq(Symbol(LabelRecord)) /\ k \in DOMAIN p.rules /\ ParserPromise(p)
  <2>1. ParserPromise(p)
    BY WCNFAssumption
  <2>2. p.symbols \in Seq(Symbol(LabelRecord))
    BY ParsedFacts
  <2> QED
    BY <1>1, <2>1, <2>2
<1>3. /\ {p.rules[k].second, p.rules[k].third} \subseteq DOMAIN p.symbols \cup {NoSymbol}
      /\ p.rules[k].second = NoSymbol => p.rules[k].third = NoSymbol
  BY <1>2 DEF ParserPromise
<1>4. DOMAIN p.symbols \cup {NoSymbol} \subseteq 0 .. Len(p.symbols)
  BY <1>1, <1>2 DEF NoSymbol
<1> QED
  BY <1>1, <1>3, <1>4

\* The rules CFL_adv applies are those of the file, once per block.
LEMMA CopiesAre ==
  ASSUME AdvInv, SlotsInv, adv_pc = "prepared", NEW x
  PROVE  x \in AdvRuleCopies <=>
           \E k \in 1 .. Len(parsed.rules) : \E n \in BlockNumbers :
             x = SlotRule(parsed.rules[k], n)
<1>1. /\ parsed \in ParserResults /\ parsed.block_count \in Nat /\ parsed.block_count >= 1
      /\ DOMAIN parsed.rules = 1 .. Len(parsed.rules)
  <2>1. parsed \in ParserResults
    BY AtAdvRun
  <2>2. parsed.rules \in Seq(Rule) /\ parsed.block_count \in Nat /\ parsed.block_count >= 1
    BY <2>1, ParsedFacts
  <2> QED
    BY <2>1, <2>2
<1>2. adv_rules = [k \in 1 .. Len(parsed.rules) |-> Adv!EWCNFRule(parsed.rules[k])]
  BY <1>1 DEF SlotsInv, SlotRules
<1> DEFINE C(k) == AdvCopies(adv_rules[k])
<1>3. ASSUME NEW k \in 1 .. Len(parsed.rules)
      PROVE  \A y : y \in C(k) <=> \E n \in BlockNumbers : y = SlotRule(parsed.rules[k], n)
  <2> DEFINE r == parsed.rules[k]
             rule == adv_rules[k]
             flags == {f \in {"first", "second", "third"} : Adv!Idx(r[f])}
             Copy(n) == <<CopySlot(rule, "first", rule.nonterm, n),
                          CopySlot(rule, "second", rule.prod_A, n),
                          CopySlot(rule, "third", rule.prod_B, n)>>
             last == IF rule.indexed = {} THEN 0 ELSE rule.indexed_count - 1
  <2>1. rule = Adv!EWCNFRule(r)
    BY <1>2
  <2>2. {r.first, r.second, r.third} \subseteq 0 .. Len(parsed.symbols)
    <3>1. Len(parsed.symbols) \in Nat
      BY <1>1, ParsedFacts
    <3>2. /\ r.first \in 1 .. Len(parsed.symbols) /\ r.second \in 0 .. Len(parsed.symbols)
          /\ r.third \in 0 .. Len(parsed.symbols)
      BY <1>1, RuleSymbols
    <3> HIDE DEF r
    <3> QED
      BY <3>1, <3>2
  <2> HIDE DEF r, rule
  <2>3. \A n \in Nat : Copy(n) = SlotRule(r, n)
    BY <2>1, <2>2, CopyIs
  <2>4. rule.indexed = flags /\ rule.indexed_count = IF flags = {} THEN 0 ELSE parsed.block_count
    BY <2>1 DEF Adv!EWCNFRule
  <2>5. AdvCopies(rule) = {Copy(n) : n \in 0 .. last}
    BY DEF AdvCopies
  <2> HIDE DEF Copy
  <2>6. CASE flags # {}
    <3>1. 0 .. last = BlockNumbers /\ BlockNumbers \subseteq Nat
      BY <1>1, <2>4, <2>6 DEF BlockNumbers
    <3> HIDE DEF last
    <3> QED
      BY <2>3, <2>5, <3>1 DEF r, rule
  <2>7. CASE flags = {}
    <3>1. 0 .. last = {0} /\ 0 \in BlockNumbers
      BY <1>1, <2>4, <2>7 DEF BlockNumbers
    <3> HIDE DEF last
    <3>2. \A n : SlotRule(r, n) = SlotRule(r, 0)
      <4>1. ~Adv!Idx(r.first) /\ ~Adv!Idx(r.second) /\ ~Adv!Idx(r.third)
        BY <2>7
      <4>2. \A s : Adv!Idx(s) = (s # NoSymbol /\ IsIndexed(parsed.symbols[s].label))
        BY DEF Adv!Idx, NoSymbol, Adv!NoSymbol, IsIndexed, Adv!IsIndexed, Indexed, Adv!Indexed
      <4> QED
        BY <4>1, <4>2 DEF SlotRule, SlotAt
    <3>3. AdvCopies(rule) = {SlotRule(r, 0)}
      BY <2>3, <2>5, <3>1
    <3> QED
      BY <3>1, <3>2, <3>3 DEF r, rule
  <2> QED
    BY <2>6, <2>7
<1>4. AdvRuleCopies = UNION {C(k) : k \in 1 .. Len(parsed.rules)}
  BY <1>2 DEF AdvRuleCopies
<1> HIDE DEF C
<1> QED
  BY <1>3, <1>4


\* Relations that hold the edges and nothing that is not in all closed ones.
SlotOutputs(Q) ==
  /\ DOMAIN Q = 1 .. SlotCount
  /\ \A slot \in 1 .. SlotCount : SlotEdges(slot) \subseteq Q[slot]
  /\ \A Q2 : SlotClosed(Q2) => \A slot \in 1 .. SlotCount : Q[slot] \subseteq Q2[slot]

\* The algorithm starts with the edges.
LEMMA StartsWithEdges ==
  ASSUME AdvInv, SlotsInv, adv_pc = "prepared"
  PROVE  SlotOutputs(adv_matrices)
<1>1. FirstSlot = adv_map /\ SlotCount = adv_symbols_amount /\ adv_matrices = SlotMatrices
  BY SlotsLaidOut DEF SlotsInv
<1>2. /\ DOMAIN adv_matrices = 1 .. SlotCount
      /\ \A slot \in 1 .. SlotCount : adv_matrices[slot] = SlotEdges(slot)
  BY <1>1 DEF SlotMatrices, SlotEdges, Adv!EdgeSlot
<1> QED
  BY <1>2 DEF SlotOutputs, SlotClosed

\* A rule of the file on the slots, in closed relations.
LEMMA ClosedRule ==
  ASSUME NEW Q, SlotClosed(Q), NEW k \in 1 .. Len(parsed.rules), NEW n \in BlockNumbers,
         NEW c, c = SlotRule(parsed.rules[k], n)
  PROVE  BodyOf(Q, c[2], c[3]) \subseteq Q[c[1]]
BY DEF SlotClosed, BlockNumbers

\* The slots of a rule.
LEMMA SlotsOfRule ==
  ASSUME AdvInv, SlotsInv, adv_pc = "prepared", NEW k \in 1 .. Len(parsed.rules),
         NEW n \in BlockNumbers, NEW c, c = SlotRule(parsed.rules[k], n)
  PROVE  /\ c[1] \in 1 .. SlotCount
         /\ c[2] # NoSymbol => c[2] \in 1 .. SlotCount
         /\ c[3] # NoSymbol => c[3] \in 1 .. SlotCount
<1> DEFINE r == parsed.rules[k]
<1>1. SlotLayout /\ parsed \in ParserResults
  BY SlotsLaidOut, AtAdvRun
<1>2. /\ r.first \in 1 .. Len(parsed.symbols) /\ r.second \in 0 .. Len(parsed.symbols)
      /\ r.third \in 0 .. Len(parsed.symbols)
  BY <1>1, RuleSymbols
<1>3. c[1] = SlotAt(r.first, n) /\ c[2] = SlotAt(r.second, n) /\ c[3] = SlotAt(r.third, n)
  BY DEF SlotRule
<1> HIDE DEF r
<1>4. \A s \in 0 .. Len(parsed.symbols) : s # NoSymbol => s \in 1 .. Len(parsed.symbols)
  <2>1. Len(parsed.symbols) \in Nat
    BY <1>1, ParsedFacts
  <2> QED
    BY <2>1 DEF NoSymbol
<1>5. \A s \in 1 .. Len(parsed.symbols) : SlotAt(s, n) \in 1 .. SlotCount
  BY <1>1 DEF SlotLayout, SymbolNumbers
<1>6. SlotAt(NoSymbol, n) = NoSymbol
  BY DEF SlotAt
<1> QED
  BY <1>2, <1>3, <1>4, <1>5, <1>6

\* A step keeps to the closed relations, and when nothing is added it has come to one.
LEMMA SlotOutputsStep ==
  ASSUME AdvInv, SlotsInv, adv_pc = "prepared", SlotOutputs(outputs),
         NEW next, next = LAGraph_CFL_reachability_adv
  PROVE  SlotOutputs(next) /\ (next = outputs => SlotClosed(outputs))
<1> DEFINE Adds(s) == {BodyOf(outputs, c[2], c[3]) : c \in {d \in AdvRuleCopies : d[1] = s}}
<1>1. /\ DOMAIN outputs = 1 .. SlotCount
      /\ \A slot \in 1 .. SlotCount : SlotEdges(slot) \subseteq outputs[slot]
      /\ \A Q : SlotClosed(Q) => \A slot \in 1 .. SlotCount : outputs[slot] \subseteq Q[slot]
  BY DEF SlotOutputs
<1>2. next = [s \in 1 .. SlotCount |-> outputs[s] \cup UNION Adds(s)]
  BY <1>1, AdvStepIs
<1>3. \A c \in AdvRuleCopies : BodyOf(outputs, c[2], c[3]) \in Adds(c[1])
  OBVIOUS
<1>4. \A s : \A b \in Adds(s) : \E c \in AdvRuleCopies : c[1] = s /\ b = BodyOf(outputs, c[2], c[3])
  OBVIOUS
<1> HIDE DEF Adds
<1>5. ASSUME NEW Q, SlotClosed(Q), NEW slot \in 1 .. SlotCount
      PROVE  next[slot] \subseteq Q[slot]
  <2>1. ASSUME NEW b \in Adds(slot) PROVE b \subseteq Q[slot]
    <3>1. PICK c \in AdvRuleCopies : c[1] = slot /\ b = BodyOf(outputs, c[2], c[3])
      BY <1>4
    <3>2. PICK k \in 1 .. Len(parsed.rules) : \E n \in BlockNumbers : c = SlotRule(parsed.rules[k], n)
      BY CopiesAre
    <3>3. PICK n \in BlockNumbers : c = SlotRule(parsed.rules[k], n)
      BY <3>2
    <3>4. BodyOf(Q, c[2], c[3]) \subseteq Q[c[1]]
      BY <1>5, <3>3, ClosedRule
    <3>5. /\ c[2] # NoSymbol => c[2] \in 1 .. SlotCount
          /\ c[3] # NoSymbol => c[3] \in 1 .. SlotCount
      BY <3>3, SlotsOfRule
    <3>6. /\ c[2] # NoSymbol => outputs[c[2]] \subseteq Q[c[2]]
          /\ c[3] # NoSymbol => outputs[c[3]] \subseteq Q[c[3]]
      BY <1>1, <1>5, <3>5
    <3>7. BodyOf(outputs, c[2], c[3]) \subseteq BodyOf(Q, c[2], c[3])
      BY <3>6, BodyGrows
    <3> QED
      BY <3>1, <3>4, <3>7
  <2>2. outputs[slot] \subseteq Q[slot]
    BY <1>1, <1>5
  <2>3. next[slot] = outputs[slot] \cup UNION Adds(slot)
    BY <1>2
  <2> QED
    BY <2>1, <2>2, <2>3
<1>6. SlotOutputs(next)
  BY <1>1, <1>2, <1>5 DEF SlotOutputs
<1>7. ASSUME next = outputs PROVE SlotClosed(outputs)
  <2>1. ASSUME NEW k \in 1 .. Len(parsed.rules), NEW n \in BlockNumbers,
               NEW c, c = SlotRule(parsed.rules[k], n)
        PROVE  BodyOf(outputs, c[2], c[3]) \subseteq outputs[c[1]]
    <3>1. c \in AdvRuleCopies
      BY <2>1, CopiesAre
    <3>2. BodyOf(outputs, c[2], c[3]) \in Adds(c[1])
      BY <1>3, <3>1
    <3>3. c[1] \in 1 .. SlotCount
      BY <2>1, SlotsOfRule
    <3>4. next[c[1]] = outputs[c[1]] \cup UNION Adds(c[1])
      BY <1>2, <3>3
    <3> QED
      BY <1>7, <3>2, <3>4
  <2> QED
    BY <1>1, <2>1 DEF SlotClosed, BlockNumbers
<1> QED
  BY <1>6, <1>7

\* What the relations are while CFL_adv, or an adapter like it, runs.
OutputsInv ==
  OnSlots => /\ SlotOutputs(outputs)
             /\ phase \in {"adv_done", "compare"} => SlotClosed(outputs)

\* What CFL_adv leaves behind: the relation of the start in the least closed relations.
ExpectedInv ==
  phase \in {"prepare", "run", "compare"} =>
    /\ SlotLayout
    /\ \A Q : SlotClosed(Q) => expected \subseteq Q[1]
    /\ \E Q : SlotClosed(Q) /\ expected = Q[1]

\* The slots and what is closed depend on the parser's result only.
LEMMA SlotsKept ==
  ASSUME parsed' = parsed
  PROVE  /\ SlotLayout' = SlotLayout
         /\ \A Q : SlotClosed(Q)' = SlotClosed(Q)
         /\ \A Q : SlotOutputs(Q)' = SlotOutputs(Q)
<1>1. FirstSlot' = FirstSlot /\ SlotCount' = SlotCount
  BY DEF FirstSlot, SlotCount
<1>2. \A s, n : SlotAt(s, n)' = SlotAt(s, n)
  BY <1>1 DEF SlotAt
<1>3. \A s : SlotEdges(s)' = SlotEdges(s)
  BY <1>1 DEF SlotEdges
<1>4. \A r, n : SlotRule(r, n)' = SlotRule(r, n)
  BY <1>2 DEF SlotRule
<1>5. \A Q, A, B : BodyOf(Q, A, B)' = BodyOf(Q, A, B)
  BY DEF BodyOf, Identity
<1>6. SlotLayout' = SlotLayout
  BY <1>1, <1>2 DEF SlotLayout, SymbolNumbers, BlockNumbers
<1>7. \A Q : SlotClosed(Q)' = SlotClosed(Q)
  BY <1>1, <1>3, <1>4, <1>5 DEF SlotClosed
<1>8. \A Q : SlotOutputs(Q)' = SlotOutputs(Q)
  BY <1>1, <1>3, <1>7 DEF SlotOutputs
<1> QED
  BY <1>6, <1>7, <1>8


\* The run of an algorithm on the slots.
LEMMA OnSlotsRun ==
  ASSUME AdvInv, SlotsInv, OutputsInv, OnSlots, OnSlots', UNCHANGED <<vars, advVars>>,
         outputs' = LAGraph_CFL_reachability_adv,
         phase' \in {"adv_done", "compare"} => outputs' = outputs
  PROVE  OutputsInv'
<1>1. parsed' = parsed /\ adv_pc = "prepared"
  BY DEF vars, wcnfVars, SlotsInv
<1>2. SlotOutputs(outputs') /\ (outputs' = outputs => SlotClosed(outputs))
  BY <1>1, SlotOutputsStep DEF OutputsInv
<1>3. SlotOutputs(outputs)'
  BY <1>1, <1>2, SlotsKept
<1>4. phase' \in {"adv_done", "compare"} => SlotClosed(outputs)'
  BY <1>1, <1>2, SlotsKept
<1> QED
  BY <1>3, <1>4 DEF OutputsInv

\* The outputs start as the matrices when the preparation has ended.
LEMMA OnSlotsStart ==
  ASSUME AdvInv', SlotsInv', OnSlots' => adv_pc' = "prepared" /\ outputs' = adv_matrices',
         phase' \notin {"adv_done", "compare"}
  PROVE  OutputsInv'
<1>1. (AdvInv /\ SlotsInv /\ adv_pc = "prepared" => SlotOutputs(adv_matrices))'
  BY StartsWithEdges, PTL
<1> QED
  BY <1>1 DEF OutputsInv


LEMMA OutputsNext ==
  ASSUME AdvInv, SlotsInv, OutputsInv, AdvInv', SlotsInv', [AllNext]_allVars
  PROVE  OutputsInv'
<1>1. CASE AdvPrepare \/ AllPathAdvPrepare \/ MultsrcAdvPrepare
  <2>1. /\ OnSlots' => adv_pc' = "prepared" /\ outputs' = adv_matrices'
        /\ phase' \notin {"adv_done", "compare"}
    BY <1>1 DEF AdvPrepare, AllPathAdvPrepare, MultsrcAdvPrepare, TestedAdvPrepare, OnSlots
  <2> QED
    BY <2>1, OnSlotsStart
<1>2. CASE AdvRun \/ AllPathAdvRun \/ MultsrcAdvRun
  <2>1. /\ OnSlots /\ OnSlots' /\ UNCHANGED <<vars, advVars>>
        /\ outputs' = LAGraph_CFL_reachability_adv
        /\ phase' \in {"adv_done", "compare"} => outputs' = outputs
    BY <1>2 DEF AdvRun, AllPathAdvRun, MultsrcAdvRun, OnSlots, LAGraph_CFL_AllPaths_adv,
                LAGraph_CFL_reachability_multsrc_adv
  <2> QED
    BY <2>1, OnSlotsRun
<1>3. CASE AdvCleanup \/ Prepare \/ Run
  <2>1. ~OnSlots'
    BY <1>3 DEF AdvCleanup, Prepare, Run, OnSlots
  <2> QED
    BY <2>1 DEF OutputsInv
<1>4. CASE Compared \/ UNCHANGED allVars
  <2>1. parsed' = parsed /\ outputs' = outputs /\ OnSlots' = OnSlots /\ phase' = phase
    BY <1>4 DEF Compared, allVars, vars, wcnfVars, OnSlots
  <2> QED
    BY <2>1, SlotsKept DEF OutputsInv
<1> QED
  BY <1>1, <1>2, <1>3, <1>4 DEF AllNext, AllStep

LEMMA ExpectedNext ==
  ASSUME AdvInv, SlotsInv, OutputsInv, ExpectedInv, [AllNext]_allVars
  PROVE  ExpectedInv'
<1>1. CASE AdvCleanup
  <2>1. phase = "adv_done" /\ expected' = outputs[1] /\ parsed' = parsed
    BY <1>1 DEF AdvCleanup, vars, wcnfVars
  <2>2. SlotOutputs(outputs) /\ SlotClosed(outputs) /\ adv_pc = "prepared"
    BY <2>1 DEF OutputsInv, OnSlots, SlotsInv
  <2>3. SlotLayout
    BY <2>2, SlotsLaidOut
  <2>4. 1 \in 1 .. SlotCount
    <3>1. /\ Len(parsed.symbols) \in Nat /\ Len(parsed.symbols) >= 1
          /\ parsed.block_count \in Nat /\ parsed.block_count >= 1
      BY <2>2, AtAdvRun, ParsedFacts
    <3>2. 1 \in SymbolNumbers /\ 0 \in BlockNumbers
      BY <3>1 DEF SymbolNumbers, BlockNumbers
    <3>3. SlotAt(1, 0) = 1
      BY <2>3 DEF SlotAt, NoSymbol, SlotLayout
    <3> QED
      BY <2>3, <3>2, <3>3 DEF SlotLayout
  <2>5. \A Q : SlotClosed(Q) => outputs[1] \subseteq Q[1]
    BY <2>2, <2>4 DEF SlotOutputs
  <2> QED
    BY <2>1, <2>2, <2>3, <2>5, SlotsKept DEF ExpectedInv
<1>2. ASSUME parsed' = parsed, expected' = expected,
             phase' \in {"prepare", "run", "compare"} => phase \in {"prepare", "run", "compare"}
      PROVE  ExpectedInv'
  BY <1>2, SlotsKept DEF ExpectedInv
<1>3. CASE AdvPrepare \/ AllPathAdvPrepare \/ MultsrcAdvPrepare
  BY <1>2, <1>3 DEF AdvPrepare, AllPathAdvPrepare, MultsrcAdvPrepare, TestedAdvPrepare, vars,
                    wcnfVars
<1>4. CASE AdvRun \/ AllPathAdvRun \/ MultsrcAdvRun \/ Run \/ Compared \/ UNCHANGED allVars
  BY <1>2, <1>4 DEF AdvRun, AllPathAdvRun, MultsrcAdvRun, Run, Compared, allVars, vars, wcnfVars
<1>5. CASE Prepare
  BY <1>2, <1>5, ParsedKept DEF Prepare
<1> QED
  BY <1>1, <1>3, <1>4, <1>5 DEF AllNext, AllStep


-----------------------------------------------------------------------------
(***************************************************************************)
(* CFL: the grammar the algorithm is given, by the labels of its rules.    *)
(***************************************************************************)

\* The name of a symbol of the file in a rule of two symbols.
NameIn(p, s) ==
  IF InputTerm(p, s) THEN HelperLabel(p.symbols[s].label) ELSE p.symbols[s].label

\* A rule of the file in normal form.
NormalSpell(p, r) ==
  IF r.second = NoSymbol THEN <<p.symbols[r.first].label>>
  ELSE IF r.third = NoSymbol
    THEN IF InputTerm(p, r.second)
           THEN <<p.symbols[r.first].label, p.symbols[r.second].label>>
           ELSE <<p.symbols[r.first].label, p.symbols[r.second].label, EpsLabel>>
    ELSE <<p.symbols[r.first].label, NameIn(p, r.second), NameIn(p, r.third)>>

HelperSpell(p, t) == <<HelperLabel(p.symbols[t].label), p.symbols[t].label>>

\* The rules there may be, and those there must be.
FromFile(p, sp) ==
  \/ \E k \in 1 .. Len(p.rules) : sp = NormalSpell(p, p.rules[k])
  \/ sp = <<EpsLabel>>
  \/ \E t \in 1 .. Len(p.symbols) : InputTerm(p, t) /\ sp = HelperSpell(p, t)

UnitIn(p, r) == r.second # NoSymbol /\ r.third = NoSymbol /\ ~InputTerm(p, r.second)

Helped(p, r, t) ==
  InputTerm(p, t) /\ r.second # NoSymbol /\ r.third # NoSymbol /\ (t = r.second \/ t = r.third)

Needed(p, sp) ==
  \E k \in 1 .. Len(p.rules) :
    \/ sp = NormalSpell(p, p.rules[k])
    \/ UnitIn(p, p.rules[k]) /\ sp = <<EpsLabel>>
    \/ \E t \in 1 .. Len(p.symbols) : Helped(p, p.rules[k], t) /\ sp = HelperSpell(p, t)

\* A nonterminal that stands for a symbol of the file has its name.
LEMMA StandsLabel ==
  ASSUME NEW p, NEW list, Len(p.symbols) \in Nat, SameUpTo(Len(p.symbols), p.symbols, list),
         NEW s \in 1 .. Len(p.symbols), NEW n, Stands(p, list, n, s), list[n].is_nonterm = TRUE
  PROVE  list[n].label = NameIn(p, s) /\ (InputTerm(p, s) => IsHelper(p, list, n, s))
<1>1. CASE n = s
  <2>1. list[s] = p.symbols[s]
    BY DEF SameUpTo
  <2>2. ~InputTerm(p, s)
    BY <1>1, <2>1 DEF InputTerm
  <2> QED
    BY <1>1, <2>1, <2>2 DEF NameIn
<1>2. CASE n # s
  <2>1. IsHelper(p, list, n, s)
    BY <1>2 DEF Stands
  <2> QED
    BY <2>1 DEF IsHelper, NameIn
<1> QED
  BY <1>1, <1>2

\* A rewritten rule is the rule of the file in normal form.
LEMMA KeptSpell ==
  ASSUME ConversionInv, NamesInv, LanguageInv, NoClash, pc = "split",
         NEW k \in 1 .. Len(parsed.rules)
  PROVE  /\ k \in 1 .. Len(rules)
         /\ Spell(symbols, rules[k]) = NormalSpell(parsed, parsed.rules[k])
         /\ UnitIn(parsed, parsed.rules[k]) => IsEps(parsed, symbols, rules[k].third)
         /\ \A t : Helped(parsed, parsed.rules[k], t) =>
              IsHelper(parsed, symbols, rules[k].second, t)
                \/ IsHelper(parsed, symbols, rules[k].third, t)
<1> DEFINE r == rules[k]
           old == parsed.rules[k]
           N == Len(parsed.symbols)
<1>1. /\ parsed \in ParserResults /\ Grown(parsed.symbols, symbols)
      /\ SameUpTo(N, parsed.symbols, symbols)
  BY DEF ConversionInv, TableInv, TableOf
<1>2. /\ N \in Nat /\ Len(parsed.rules) \in Nat
      /\ old.first \in 1 .. N /\ parsed.symbols[old.first].is_nonterm = TRUE
      /\ old.second = NoSymbol \/ old.second \in 1 .. N
      /\ old.third = NoSymbol \/ old.third \in 1 .. N
      /\ old.second = NoSymbol => old.third = NoSymbol
  BY <1>1, ParsedFacts
<1>3. k \in 1 .. Len(rules)
  <2>1. Len(parsed.rules) <= Len(rules) /\ Len(rules) \in Nat
    <3>1. rules \in Seq(Rule)
      BY DEF ConversionInv, RulesInv
    <3> QED
      BY <3>1, AddedRules
  <2> QED
    BY <1>2, <2>1
<1>4. NormalRule(symbols, r) /\ RuleKept(parsed, symbols, r, old)
  <2>1. NormalRule(symbols, r)
    BY <1>3 DEF ConversionInv, RulesInv
  <2>2. RuleKept(parsed, symbols, r, old)
    BY DEF LanguageInv
  <2> QED
    BY <2>1, <2>2
<1>5. \A s \in 1 .. N : symbols[s] = parsed.symbols[s] /\ s # NoSymbol
                          /\ parsed.symbols[s].is_nonterm \in BOOLEAN
  <2>1. ASSUME NEW s \in 1 .. N PROVE parsed.symbols[s].is_nonterm \in BOOLEAN
    <3>1. parsed.symbols \in Seq(Symbol(LabelRecord))
      BY <1>1, ParsedFacts
    <3>2. parsed.symbols[s] \in Symbol(LabelRecord)
      BY <3>1
    <3> QED
      BY <3>2 DEF Symbol
  <2>2. \A s \in 1 .. N : s # NoSymbol
    BY DEF NoSymbol
  <2> QED
    BY <1>1, <2>1, <2>2 DEF SameUpTo
<1>6. ~InputTerm(parsed, NoSymbol) /\ \A n : ~IsHelper(parsed, symbols, n, NoSymbol)
  BY DEF InputTerm, NoSymbol, IsHelper
<1>7. \A n : n \in 1 .. Len(symbols) /\ n > N => symbols[n].is_nonterm = TRUE
  BY <1>1 DEF Grown
<1>8. \A n, t : IsHelper(parsed, symbols, n, t) => n # NoSymbol /\ symbols[n].is_nonterm = TRUE
  <2>1. \A n \in 1 .. Len(symbols) : n # NoSymbol
    BY DEF NoSymbol
  <2> QED
    BY <1>7, <2>1 DEF IsHelper
<1>9. \A n : IsEps(parsed, symbols, n) => n # NoSymbol
  BY DEF IsEps, NoSymbol
<1>10. r.first = old.first /\ symbols[r.first].label = parsed.symbols[old.first].label
  BY <1>2, <1>4, <1>5 DEF RuleKept
<1>11. /\ Stands(parsed, symbols, r.second, old.second)
       /\ \/ Stands(parsed, symbols, r.third, old.third)
          \/ /\ old.third = NoSymbol /\ r.second = old.second
             /\ IsEps(parsed, symbols, r.third)
  BY <1>4 DEF RuleKept
<1>12. \/ r.second = NoSymbol /\ r.third = NoSymbol
       \/ /\ r.second # NoSymbol /\ symbols[r.second].is_nonterm = FALSE
          /\ r.third = NoSymbol
       \/ /\ r.second # NoSymbol /\ symbols[r.second].is_nonterm = TRUE
          /\ r.third # NoSymbol /\ symbols[r.third].is_nonterm = TRUE
  BY <1>4 DEF NormalRule, NoSymbol
<1>13. \A n, s : Stands(parsed, symbols, n, s) => n = s \/ IsHelper(parsed, symbols, n, s)
  BY DEF Stands
<1>14. \A n, t : IsHelper(parsed, symbols, n, t) => InputTerm(parsed, t)
  BY DEF IsHelper
<1> HIDE DEF r, old, N
<1>15. CASE old.second = NoSymbol
  <2>1. old.third = NoSymbol /\ r.second = NoSymbol
    BY <1>2, <1>6, <1>11, <1>13, <1>15
  <2>2. Spell(symbols, r) = <<parsed.symbols[old.first].label>>
    BY <1>10, <2>1 DEF Spell
  <2>3. Spell(symbols, r) = NormalSpell(parsed, old)
    BY <1>15, <2>2 DEF NormalSpell
  <2> QED
    BY <1>3, <1>15, <2>3 DEF r, old, UnitIn, Helped
<1>16. CASE old.second # NoSymbol /\ old.third = NoSymbol /\ InputTerm(parsed, old.second)
  <2>1. old.second \in 1 .. N /\ symbols[old.second].is_nonterm = FALSE
        /\ symbols[old.second] = parsed.symbols[old.second]
    BY <1>5, <1>16 DEF InputTerm, N
  <2>2. r.third = NoSymbol
    BY <1>6, <1>11, <1>12, <1>13, <1>16, <2>1
  <2>3. r.second = old.second
    BY <1>8, <1>11, <1>12, <1>13, <1>16, <2>2
  <2>4. Spell(symbols, r) = <<parsed.symbols[old.first].label, parsed.symbols[old.second].label>>
    BY <1>10, <1>16, <2>1, <2>2, <2>3 DEF Spell
  <2>5. Spell(symbols, r) = NormalSpell(parsed, old)
    BY <1>16, <2>4 DEF NormalSpell
  <2> QED
    BY <1>3, <1>16, <2>5 DEF r, old, UnitIn, Helped
<1>17. CASE old.second # NoSymbol /\ old.third = NoSymbol /\ ~InputTerm(parsed, old.second)
  <2>1. /\ old.second \in 1 .. N /\ symbols[old.second].is_nonterm = TRUE
        /\ symbols[old.second] = parsed.symbols[old.second]
    BY <1>2, <1>5, <1>17 DEF InputTerm, N
  <2>2. r.third # NoSymbol
    BY <1>11, <1>12, <1>13, <1>14, <1>17, <2>1
  <2>3. r.second = old.second /\ IsEps(parsed, symbols, r.third)
    BY <1>6, <1>11, <1>13, <1>17, <2>2
  <2>4. symbols[r.third].label = EpsLabel
    BY <2>3 DEF IsEps
  <2>5. Spell(symbols, r) = <<parsed.symbols[old.first].label, parsed.symbols[old.second].label,
                              EpsLabel>>
    BY <1>10, <1>17, <2>1, <2>2, <2>3, <2>4 DEF Spell
  <2>6. Spell(symbols, r) = NormalSpell(parsed, old)
    BY <1>17, <2>5 DEF NormalSpell
  <2> QED
    BY <1>3, <1>17, <2>3, <2>6 DEF r, old, Helped
<1>18. CASE old.second # NoSymbol /\ old.third # NoSymbol
  <2>1. old.second \in 1 .. N /\ old.third \in 1 .. N
    BY <1>2, <1>18
  <2>2. Stands(parsed, symbols, r.third, old.third) /\ r.third # NoSymbol
    BY <1>8, <1>11, <1>13, <1>18
  <2>3. /\ r.second # NoSymbol /\ symbols[r.second].is_nonterm = TRUE
        /\ symbols[r.third].is_nonterm = TRUE
    BY <1>12, <2>2
  <2>4. /\ symbols[r.second].label = NameIn(parsed, old.second)
        /\ InputTerm(parsed, old.second) => IsHelper(parsed, symbols, r.second, old.second)
    BY <1>1, <1>2, <1>11, <2>1, <2>3, StandsLabel DEF N
  <2>5. /\ symbols[r.third].label = NameIn(parsed, old.third)
        /\ InputTerm(parsed, old.third) => IsHelper(parsed, symbols, r.third, old.third)
    BY <1>1, <1>2, <2>1, <2>2, <2>3, StandsLabel DEF N
  <2>6. Spell(symbols, r) = <<parsed.symbols[old.first].label, NameIn(parsed, old.second),
                              NameIn(parsed, old.third)>>
    BY <1>10, <2>2, <2>3, <2>4, <2>5 DEF Spell
  <2>7. Spell(symbols, r) = NormalSpell(parsed, old)
    BY <1>18, <2>6 DEF NormalSpell
  <2>8. \A t : Helped(parsed, old, t) =>
          IsHelper(parsed, symbols, r.second, t) \/ IsHelper(parsed, symbols, r.third, t)
    BY <2>4, <2>5 DEF Helped
  <2> QED
    BY <1>3, <1>18, <2>7, <2>8 DEF r, old, UnitIn
<1> QED
  BY <1>15, <1>16, <1>17, <1>18

\* The converted grammar is that of the file in normal form, with what it needs.
LEMMA SpellsAtSplit ==
  ASSUME ConversionInv, NamesInv, LanguageInv, NoClash, pc = "split"
  PROVE  /\ \A k \in 1 .. Len(rules) : FromFile(parsed, Spell(symbols, rules[k]))
         /\ \A sp : Needed(parsed, sp) => \E k \in 1 .. Len(rules) : Spell(symbols, rules[k]) = sp
<1>1. parsed \in ParserResults /\ rules \in Seq(Rule)
  BY DEF ConversionInv, TableInv, RulesInv
<1>2. /\ Len(parsed.rules) \in Nat /\ Len(rules) \in Nat /\ DOMAIN rules = 1 .. Len(rules)
      /\ Grown(parsed.symbols, symbols) /\ DOMAIN symbols = 1 .. Len(symbols)
  <2>1. Grown(parsed.symbols, symbols)
    BY DEF ConversionInv, TableInv, TableOf
  <2>2. Len(parsed.rules) \in Nat
    BY <1>1, ParsedFacts
  <2> QED
    BY <1>1, <2>1, <2>2 DEF Grown
<1>3. \A l \in 1 .. Len(rules) : <<rules[l].second, rules[l].third>> \in Bodies(rules[l].first)
  BY <1>2 DEF Bodies
<1>4. \A n : \A b \in Bodies(n) : \E l \in 1 .. Len(rules) :
        rules[l].first = n /\ b = <<rules[l].second, rules[l].third>>
  BY <1>2 DEF Bodies
<1>5. ASSUME NEW l \in 1 .. Len(rules), IsEps(parsed, symbols, rules[l].first)
      PROVE  Spell(symbols, rules[l]) = <<EpsLabel>>
  <2>1. Bodies(rules[l].first) = {<<NoSymbol, NoSymbol>>}
    BY <1>5, AddedRules
  <2>2. rules[l].second = NoSymbol /\ symbols[rules[l].first].label = EpsLabel
    BY <1>3, <1>5, <2>1 DEF IsEps
  <2> QED
    BY <2>2 DEF Spell
<1>6. ASSUME NEW l \in 1 .. Len(rules), NEW t, IsHelper(parsed, symbols, rules[l].first, t)
      PROVE  Spell(symbols, rules[l]) = HelperSpell(parsed, t)
  <2>1. Bodies(rules[l].first) = {<<t, NoSymbol>>}
    BY <1>6, AddedRules
  <2>2. rules[l].second = t /\ rules[l].third = NoSymbol
    BY <1>3, <2>1
  <2>3. /\ t \in 1 .. Len(parsed.symbols) /\ t # NoSymbol
        /\ symbols[rules[l].first].label = HelperLabel(parsed.symbols[t].label)
    BY <1>6 DEF IsHelper, InputTerm, NoSymbol
  <2>4. symbols[t].label = parsed.symbols[t].label
    BY <1>2, <2>3 DEF Grown
  <2> QED
    BY <2>2, <2>3, <2>4 DEF Spell, HelperSpell
<1>7. ASSUME NEW k \in 1 .. Len(rules) PROVE FromFile(parsed, Spell(symbols, rules[k]))
  <2>1. CASE k \in 1 .. Len(parsed.rules)
    BY <2>1, KeptSpell DEF FromFile
  <2>2. CASE k \notin 1 .. Len(parsed.rules)
    <3>1. k > Len(parsed.rules)
      BY <1>2, <2>2
    <3>2. rules[k].first \in Added
      BY <3>1, AddedRules
    <3>3. IsEps(parsed, symbols, rules[k].first) \/ \E t : IsHelper(parsed, symbols, rules[k].first, t)
      BY <3>2, AddedRules
    <3>4. CASE IsEps(parsed, symbols, rules[k].first)
      BY <1>5, <3>4 DEF FromFile
    <3>5. ASSUME NEW t, IsHelper(parsed, symbols, rules[k].first, t)
          PROVE  FromFile(parsed, Spell(symbols, rules[k]))
      <4>1. InputTerm(parsed, t) /\ t \in 1 .. Len(parsed.symbols)
        BY <3>5 DEF IsHelper, InputTerm
      <4> QED
        BY <1>6, <3>5, <4>1 DEF FromFile
    <3> QED
      BY <3>3, <3>4, <3>5
  <2> QED
    BY <2>1, <2>2
<1>8. ASSUME NEW n, IsEps(parsed, symbols, n)
      PROVE  \E l \in 1 .. Len(rules) : Spell(symbols, rules[l]) = <<EpsLabel>>
  <2>1. <<NoSymbol, NoSymbol>> \in Bodies(n)
    BY <1>8, AddedRules
  <2>2. PICK l \in 1 .. Len(rules) : rules[l].first = n
    BY <1>4, <2>1
  <2> QED
    BY <1>5, <1>8, <2>2
<1>9. ASSUME NEW n, NEW t, IsHelper(parsed, symbols, n, t)
      PROVE  \E l \in 1 .. Len(rules) : Spell(symbols, rules[l]) = HelperSpell(parsed, t)
  <2>1. <<t, NoSymbol>> \in Bodies(n)
    BY <1>9, AddedRules
  <2>2. PICK l \in 1 .. Len(rules) : rules[l].first = n
    BY <1>4, <2>1
  <2> QED
    BY <1>6, <1>9, <2>2
<1>10. ASSUME NEW sp, Needed(parsed, sp)
       PROVE  \E l \in 1 .. Len(rules) : Spell(symbols, rules[l]) = sp
  <2>1. PICK k \in 1 .. Len(parsed.rules) :
          \/ sp = NormalSpell(parsed, parsed.rules[k])
          \/ UnitIn(parsed, parsed.rules[k]) /\ sp = <<EpsLabel>>
          \/ \E t \in 1 .. Len(parsed.symbols) :
               Helped(parsed, parsed.rules[k], t) /\ sp = HelperSpell(parsed, t)
    BY <1>10 DEF Needed
  <2>2. CASE sp = NormalSpell(parsed, parsed.rules[k])
    BY <2>2, KeptSpell
  <2>3. CASE UnitIn(parsed, parsed.rules[k]) /\ sp = <<EpsLabel>>
    BY <1>8, <2>3, KeptSpell
  <2>4. ASSUME NEW t, Helped(parsed, parsed.rules[k], t), sp = HelperSpell(parsed, t)
        PROVE  \E l \in 1 .. Len(rules) : Spell(symbols, rules[l]) = sp
    BY <1>9, <2>4, KeptSpell
  <2> QED
    BY <2>1, <2>2, <2>3, <2>4
<1> QED
  BY <1>7, <1>10


\* The labels of a rule, with a block number in the place of every index.
Numerate(sp, n) == [k \in DOMAIN sp |-> symbol_numerate(sp[k], n)]

\* The symbols of an exploded rule are in the tables.
RuleIndexed(r) ==
  /\ r.first \in 1 .. Len(new_nonterms)
  /\ \/ r.second = NoSymbol
     \/ r.second \in 1 .. Len(new_terms) /\ r.third = NoSymbol
     \/ r.second \in 1 .. Len(new_nonterms) /\ r.third \in 1 .. Len(new_nonterms)

\* The rules after the split, and after the explosion.
GrammarInv ==
  /\ NoClash /\ pc \in Exploding =>
       /\ \A k \in 1 .. Len(rules) : FromFile(parsed, SplitSpell(rules[k]))
       /\ \A sp : Needed(parsed, sp) => \E k \in 1 .. Len(rules) : SplitSpell(rules[k]) = sp
  /\ Clean /\ pc \in {"matrices", "prepared"} =>
       /\ \A q \in 1 .. Len(rules) :
            /\ RuleIndexed(rules[q])
            /\ \E sp : \E n \in BlockNumbers :
                 FromFile(parsed, sp) /\ ExplodedSpell(rules[q]) = Numerate(sp, n)
       /\ \A sp : \A n \in BlockNumbers :
            Needed(parsed, sp) => \E q \in 1 .. Len(rules) : ExplodedSpell(rules[q]) = Numerate(sp, n)

LEMMA CopyFits ==
  ASSUME CleanTables, NEW rule, SplitRuleOK(terms, nonterms, rule), NEW n \in 0 .. block_count - 1
  PROVE  RuleIndexed(ExplodedRule(rule, n))
<1> DEFINE new == ExplodedRule(rule, n)
<1>1. /\ rule.first \in 1 .. Len(nonterms)
      /\ new.first = rule_new_index(map_nonterms, nonterms, rule.first, n)
      /\ new.second = rule_new_index(BodyMap(rule), BodyList(rule), rule.second, n)
      /\ new.third = rule_new_index(map_nonterms, nonterms, rule.third, n)
  BY DEF SplitRuleOK, ExplodedRule
<1>2. \A q \in 1 .. Len(nonterms) :
        rule_new_index(map_nonterms, nonterms, q, n) \in 1 .. Len(new_nonterms)
  BY NewIndexFinds DEF CleanTables
<1>3. \A q \in 1 .. Len(terms) : rule_new_index(map_terms, terms, q, n) \in 1 .. Len(new_terms)
  BY NewIndexFinds DEF CleanTables
<1>4. 0 \notin 1 .. Len(nonterms) /\ \A map, list : rule_new_index(map, list, NoSymbol, n) = NoSymbol
  BY DEF rule_new_index
<1> HIDE DEF new
<1>5. CASE rule.second = NoSymbol
  <2>1. new.second = NoSymbol
    BY <1>1, <1>4, <1>5
  <2> QED
    BY <1>1, <1>2, <2>1 DEF RuleIndexed, new
<1>6. CASE rule.second # NoSymbol /\ rule.third = NoSymbol
  <2>1. rule.second \in 1 .. Len(terms) /\ BodyMap(rule) = map_terms /\ BodyList(rule) = terms
    <3>1. rule.second \in 0 .. Len(terms) /\ Len(terms) \in Nat
      BY <1>4, <1>6 DEF SplitRuleOK, NoSymbol, CleanTables
    <3> QED
      BY <1>6, <3>1 DEF BodyMap, BodyList, NoSymbol
  <2>2. new.second \in 1 .. Len(new_terms) /\ new.third = NoSymbol
    BY <1>1, <1>3, <1>4, <1>6, <2>1
  <2> QED
    BY <1>1, <1>2, <2>2 DEF RuleIndexed, new
<1>7. CASE rule.third # NoSymbol
  <2>1. /\ rule.second \in 1 .. Len(nonterms) /\ rule.third \in 1 .. Len(nonterms)
        /\ BodyMap(rule) = map_nonterms /\ BodyList(rule) = nonterms
    BY <1>4, <1>7 DEF SplitRuleOK, NoSymbol, BodyMap, BodyList
  <2>2. new.second \in 1 .. Len(new_nonterms) /\ new.third \in 1 .. Len(new_nonterms)
    BY <1>1, <1>2, <2>1
  <2> QED
    BY <1>1, <1>2, <2>2 DEF RuleIndexed, new
<1> QED
  BY <1>5, <1>6, <1>7

\* What is said of the labels depends on the parser's result.
LEMMA CleanFixed ==
  ASSUME parsed' = parsed
  PROVE  NoClash' = NoClash /\ Clean' = Clean /\ BlockNumbers' = BlockNumbers
BY DEF NoClash, Clean, NoNumberedLabel, BlockNumbers

LEMMA GrammarSplit ==
  ASSUME PrepareInv, LanguageInv, GrammarInv, SplitReturn
  PROVE  GrammarInv'
<1>1. /\ ConversionInv /\ NamesInv /\ PartsInv /\ parsed' = parsed /\ pc = "split"
      /\ pc' = "explode_terms" /\ UNCHANGED <<terms, nonterms>>
  BY DEF PrepareInv, SplitReturn, wcnfRest
<1>2. SUFFICES ASSUME NoClash
               PROVE  /\ \A k \in 1 .. Len(rules') : FromFile(parsed, SplitSpell(rules[k])')
                      /\ \A sp : Needed(parsed, sp) =>
                           \E k \in 1 .. Len(rules') : SplitSpell(rules[k])' = sp
  BY <1>1, CleanFixed DEF GrammarInv
<1>3. /\ Len(rules') = Len(rules)
      /\ \A k \in 1 .. Len(rules) : rules'[k] = SplitRule(rules[k])
      /\ symbols \in Seq(Symbol(LabelRecord))
      /\ Parted(symbols, terms, FALSE) /\ Parted(symbols, nonterms, TRUE)
      /\ \A s \in 1 .. Len(symbols) : Placed(symbols[s], terms, nonterms)
  BY <1>1, RulesSplit
<1>4. ASSUME NEW k \in 1 .. Len(rules) PROVE SplitSpell(rules[k])' = Spell(symbols, rules[k])
  <2>1. NormalRule(symbols, rules[k])
    BY <1>1, <1>2 DEF ConversionInv, RulesInv
  <2>2. SplitSpell(SplitRule(rules[k])) = Spell(symbols, rules[k])
    BY <1>3, <2>1, SplitSameSpelling
  <2>3. SplitSpell(rules[k])' = SplitSpell(rules'[k])
    BY <1>1 DEF SplitSpell, BodyList
  <2> QED
    BY <1>3, <2>2, <2>3
<1>5. /\ \A k \in 1 .. Len(rules) : FromFile(parsed, Spell(symbols, rules[k]))
      /\ \A sp : Needed(parsed, sp) => \E k \in 1 .. Len(rules) : Spell(symbols, rules[k]) = sp
  BY <1>1, <1>2, SpellsAtSplit
<1> QED
  BY <1>3, <1>4, <1>5

LEMMA GrammarExplode ==
  ASSUME PrepareInv, GrammarInv, ExplodeRulesEnd
  PROVE  GrammarInv'
<1>1. /\ parsed' = parsed /\ pc = "explode_rules" /\ pc' = "matrices" /\ i > Len(rules)
      /\ rules' = new_rules /\ UNCHANGED <<new_terms, new_nonterms>>
  BY DEF ExplodeRulesEnd, wcnfRest, tableVars
<1>2. SUFFICES ASSUME Clean
               PROVE  /\ \A q \in 1 .. Len(rules') :
                           /\ RuleIndexed(rules[q])'
                           /\ \E sp : \E n \in BlockNumbers :
                                FromFile(parsed, sp) /\ ExplodedSpell(rules[q])' = Numerate(sp, n)
                      /\ \A sp : \A n \in BlockNumbers : Needed(parsed, sp) =>
                           \E q \in 1 .. Len(rules') : ExplodedSpell(rules[q])' = Numerate(sp, n)
  BY <1>1, CleanFixed DEF GrammarInv, Exploding
<1>3. /\ \A k \in 1 .. Len(rules) : FromFile(parsed, SplitSpell(rules[k]))
      /\ \A sp : Needed(parsed, sp) => \E k \in 1 .. Len(rules) : SplitSpell(rules[k]) = sp
  BY <1>1, <1>2 DEF GrammarInv, Clean, Exploding
<1>4. /\ i - 1 = Len(rules) /\ new_rules \in Seq(Rule) /\ DOMAIN new_rules = 1 .. Len(new_rules)
      /\ CopiesOf(i) /\ \A k \in 1 .. Len(rules) : SplitRuleOK(terms, nonterms, rules[k])
  <2>1. /\ rules \in Seq(Rule) /\ new_rules \in Seq(Rule) /\ i \in Nat /\ i <= Len(rules) + 1
        /\ CopiesOf(i) /\ \A k \in 1 .. Len(rules) : SplitRuleOK(terms, nonterms, rules[k])
    BY <1>1 DEF PrepareInv, NewRulesInv, RulesPartsInv, Exploding
  <2> QED
    BY <1>1, <2>1
<1>5. CleanTables /\ BlockNumbers = 0 .. block_count - 1
  BY <1>1, <1>2, CleanTablesHold DEF CleanTables, BlockNumbers
<1>6. \A r, n : NumeratedSpell(r, n) = Numerate(SplitSpell(r), n)
  BY DEF NumeratedSpell, Numerate
<1>7. ASSUME NEW q \in 1 .. Len(new_rules)
      PROVE  /\ RuleIndexed(new_rules[q])
             /\ \E sp : \E n \in BlockNumbers :
                  FromFile(parsed, sp) /\ ExplodedSpell(new_rules[q]) = Numerate(sp, n)
  <2>1. PICK k \in 1 .. Len(rules) : \E n \in BlockNumbers :
          ExplodedSpell(new_rules[q]) = NumeratedSpell(rules[k], n)
    <3>1. \A m \in DOMAIN new_rules : \E k \in 1 .. i - 1 : \E n \in 0 .. block_count - 1 :
            ExplodedSpell(new_rules[m]) = NumeratedSpell(rules[k], n)
      BY <1>1, <1>2, ExplodedAsNumerated
    <3> QED
      BY ONLY <1>4, <1>5, <3>1, q \in 1 .. Len(new_rules)
  <2>2. FromFile(parsed, SplitSpell(rules[k]))
    BY <1>3
  <2>3. RuleIndexed(new_rules[q])
    <3>1. PICK l \in 1 .. Len(rules) : \E b \in 0 .. Copies(rules[l]) - 1 :
            l < i /\ new_rules[q] = ExplodedRule(rules[l], b)
      BY <1>4 DEF CopiesOf
    <3>2. PICK b \in 0 .. Copies(rules[l]) - 1 : new_rules[q] = ExplodedRule(rules[l], b)
      BY <3>1
    <3>3. b \in 0 .. block_count - 1
      <4>1. block_count \in Nat /\ block_count >= 1
        BY <1>5 DEF CleanTables
      <4>2. Copies(rules[l]) \in Nat /\ Copies(rules[l]) <= block_count
        BY <4>1, CopiesType
      <4> QED
        BY <4>1, <4>2
    <3> QED
      BY <1>4, <1>5, <3>2, <3>3, CopyFits
  <2> QED
    BY <1>6, <2>1, <2>2, <2>3
<1>8. ASSUME NEW sp, NEW n \in BlockNumbers, Needed(parsed, sp)
      PROVE  \E q \in 1 .. Len(new_rules) : ExplodedSpell(new_rules[q]) = Numerate(sp, n)
  <2>1. PICK k \in 1 .. Len(rules) : SplitSpell(rules[k]) = sp
    BY <1>3, <1>8
  <2>2. k \in 1 .. i - 1 /\ n \in 0 .. block_count - 1
    BY <1>4, <1>5
  <2>3. \E q \in DOMAIN new_rules : ExplodedSpell(new_rules[q]) = NumeratedSpell(rules[k], n)
    BY <1>1, <1>2, <2>2, ExplodedAsNumerated
  <2> QED
    BY <1>4, <1>6, <2>1, <2>3
<1>9. \A q : /\ (ExplodedSpell(rules[q]))' = ExplodedSpell(new_rules[q])
              /\ (RuleIndexed(rules[q]))' = RuleIndexed(new_rules[q])
  BY <1>1 DEF ExplodedSpell, RuleIndexed
<1> QED
  BY <1>1, <1>7, <1>8, <1>9

LEMMA GrammarNext ==
  ASSUME PrepareInv, LanguageInv, GrammarInv, [Next]_vars
  PROVE  GrammarInv'
<1>1. CASE ConvertGrammar
  <2>1. pc' \in Converting \cup {"split"}
    BY <1>1, ConvertFrame DEF Converting
  <2> QED
    BY <2>1 DEF GrammarInv, Exploding, Converting
<1>2. CASE SplitSymbol
  <2>1. pc' = "split"
    BY <1>2 DEF SplitSymbol
  <2> QED
    BY <2>1 DEF GrammarInv, Exploding
<1>3. CASE ExplodeTerm \/ ExplodeNonterm \/ ExplodeTableEnd \/ ExplodeRule
  <2>1. /\ UNCHANGED <<parsed, rules, terms, nonterms>> /\ pc \in Exploding /\ pc' \in Exploding
    BY <1>3 DEF ExplodeTerm, ExplodeNonterm, ExplodeTableEnd, ExplodeRule, wcnfRest, splitVars,
                Exploding
  <2>2. NoClash' = NoClash
    BY <2>1, CleanFixed
  <2>3. \A q : SplitSpell(rules[q])' = SplitSpell(rules[q])
    BY <2>1 DEF SplitSpell, BodyList
  <2> QED
    BY <2>1, <2>2, <2>3 DEF GrammarInv, Exploding
<1>4. CASE BuildMatrices \/ UNCHANGED vars
  <2>1. /\ UNCHANGED <<parsed, rules, terms, nonterms, new_terms, new_nonterms>>
        /\ pc' = pc \/ (pc = "matrices" /\ pc' = "prepared")
    BY <1>4 DEF BuildMatrices, wcnfRest, splitVars, tableVars, vars, wcnfVars
  <2>2. NoClash' = NoClash /\ Clean' = Clean /\ BlockNumbers' = BlockNumbers
    BY <2>1, CleanFixed
  <2>3. \A q : /\ SplitSpell(rules[q])' = SplitSpell(rules[q])
               /\ ExplodedSpell(rules[q])' = ExplodedSpell(rules[q])
               /\ RuleIndexed(rules[q])' = RuleIndexed(rules[q])
    BY <2>1 DEF SplitSpell, BodyList, ExplodedSpell, RuleIndexed
  <2> QED
    BY <2>1, <2>2, <2>3 DEF GrammarInv, Exploding
<1> QED
  BY <1>1, <1>2, <1>3, <1>4, GrammarSplit, GrammarExplode DEF Next, Step, Prepared


\* The table starts with the symbol of that label.
Starts(list, label) == Len(list) > 0 /\ list[1].label = label

StartBlock == symbol_numerate(parsed.symbols[1].label, 0)

\* Symbol 0, the start, stays the first of the nonterminals.
FirstInv ==
  /\ pc = "split" =>
       \/ i = 1 /\ nonterms = <<>>
       \/ i \in Nat /\ i > 1 /\ Starts(nonterms, parsed.symbols[1].label)
  /\ pc \notin Converting \cup {"split"} => Starts(nonterms, parsed.symbols[1].label)
  /\ pc = "explode_nonterms" =>
       (i = 1 /\ j = 0 /\ new_nonterms = <<>>) \/ Starts(new_nonterms, StartBlock)
  /\ pc \in TablesDone => Starts(new_nonterms, StartBlock)

LEMMA AddStarts ==
  ASSUME NEW list \in Seq(Symbol(LabelRecord)), NEW str, NEW b
  PROVE  /\ list = <<>> => Starts(symbol_list_add_str(list, str, b), str)
         /\ \A label : Starts(list, label) => Starts(symbol_list_add_str(list, str, b), label)
<1> DEFINE index == symbol_list_get_index_str(list, str)
           new == [label |-> str, is_nonterm |-> b]
<1>1. CASE list = <<>>
  <2>1. LabelsOf(list) = {}
    BY <1>1 DEF LabelsOf
  <2>2. symbol_list_add_str(list, str, b) = Append(list, new)
    BY <2>1 DEF symbol_list_add_str, symbol_list_get_index_str
  <2>3. Append(list, new) = <<new>>
    BY <1>1
  <2> QED
    BY <1>1, <2>2, <2>3 DEF Starts
<1>2. ASSUME NEW label, Starts(list, label)
      PROVE  Starts(symbol_list_add_str(list, str, b), label)
  <2>1. Len(list) > 0 /\ list[1].label = label /\ Len(list) \in Nat /\ 1 \in 1 .. Len(list)
    BY <1>2 DEF Starts
  <2>2. CASE index = NoSymbol
    <3>1. symbol_list_add_str(list, str, b) = Append(list, new)
      BY <2>2 DEF symbol_list_add_str
    <3>2. Len(Append(list, new)) = Len(list) + 1 /\ Append(list, new)[1] = list[1]
      BY <2>1
    <3> QED
      BY <2>1, <3>1, <3>2 DEF Starts
  <2>3. CASE index # NoSymbol /\ b
    <3>1. symbol_list_add_str(list, str, b) = [list EXCEPT ![index].is_nonterm = TRUE]
      BY <2>3 DEF symbol_list_add_str
    <3> HIDE DEF index
    <3> DEFINE up == [list EXCEPT ![index].is_nonterm = TRUE]
    <3>2. Len(up) = Len(list) /\ up[1].label = list[1].label
      <4>1. list[1] \in Symbol(LabelRecord)
        BY <2>1
      <4>2. up[1] = IF index = 1 THEN [list[1] EXCEPT !.is_nonterm = TRUE] ELSE list[1]
        <5>1. 1 \in DOMAIN list
          BY <2>1
        <5>2. CASE index = 1
          BY <5>1, <5>2
        <5>3. CASE index # 1
          BY <5>1, <5>3
        <5> QED
          BY <5>2, <5>3
      <4>3. [list[1] EXCEPT !.is_nonterm = TRUE].label = list[1].label
        BY <4>1 DEF Symbol
      <4>4. Len(up) = Len(list)
        OBVIOUS
      <4> QED
        BY <4>2, <4>3, <4>4
    <3> HIDE DEF up
    <3> QED
      BY <2>1, <3>1, <3>2 DEF Starts, up
  <2>4. CASE index # NoSymbol /\ ~b
    BY <1>2, <2>4 DEF symbol_list_add_str
  <2> QED
    BY <2>2, <2>3, <2>4
<1> QED
  BY <1>1, <1>2

LEMMA FirstNext ==
  ASSUME PrepareInv, FirstInv, [Next]_vars
  PROVE  FirstInv'
<1>1. /\ PartsInv /\ ExplodeInv /\ parsed \in ParserResults /\ symbols \in Seq(Symbol(LabelRecord))
      /\ terms \in Seq(Symbol(LabelRecord)) /\ nonterms \in Seq(Symbol(LabelRecord))
  BY DEF PrepareInv, ConversionInv, TableInv, TableOf, Grown, PartsInv, Parted
<1>2. /\ Len(symbols) \in Nat /\ Len(symbols) >= 1
      /\ symbols[1].label = parsed.symbols[1].label /\ symbols[1].is_nonterm = TRUE
  <2>1. ParserPromise(parsed) /\ parsed.symbols \in Seq(Symbol(LabelRecord))
    <3>1. ParserPromise(parsed)
      BY <1>1, WCNFAssumption
    <3> QED
      BY <1>1, <3>1, ParsedFacts
  <2>2. /\ Len(parsed.symbols) \in Nat /\ Len(parsed.symbols) >= 1
        /\ parsed.symbols[1].is_nonterm = TRUE
    <3>1. 1 \in 1 .. Len(parsed.symbols)
      BY <2>1 DEF ParserPromise
    <3>2. parsed.symbols[1] \in Symbol(LabelRecord)
      BY <2>1, <3>1
    <3> QED
      BY <2>1, <3>2 DEF ParserPromise, Symbol
  <2>3. Grown(parsed.symbols, symbols)
    BY DEF PrepareInv, ConversionInv, TableInv, TableOf
  <2>4. 1 \in 1 .. Len(parsed.symbols)
    BY <2>2
  <2> QED
    BY <1>1, <2>2, <2>3, <2>4 DEF Grown
<1>3. CASE ConvertGrammar
  <2>1. /\ pc' \in Converting \cup {"split"}
        /\ pc' = "split" => i' = 1
        /\ UNCHANGED splitVars /\ pc \in Converting
    BY <1>3, ConvertFrame DEF Converting
  <2>2. nonterms = <<>>
    BY <1>1, <2>1 DEF PartsInv
  <2>3. nonterms' = <<>>
    BY <2>1, <2>2 DEF splitVars
  <2> QED
    BY <2>1, <2>3 DEF FirstInv, Converting, TablesDone
<1>4. CASE SplitSymbol
  <2>1. /\ pc = "split" /\ pc' = "split" /\ i' = i + 1 /\ parsed' = parsed /\ i \in Nat /\ i >= 1
    BY <1>1, <1>4 DEF SplitSymbol, wcnfRest, PartsInv
  <2>2. Starts(nonterms', parsed.symbols[1].label)
    <3>1. CASE i = 1 /\ nonterms = <<>>
      <4>1. nonterms' = symbol_list_add_str(nonterms, parsed.symbols[1].label, TRUE)
        BY <1>2, <1>4, <3>1 DEF SplitSymbol
      <4> QED
        BY <1>1, <3>1, <4>1, AddStarts
    <3>2. CASE Starts(nonterms, parsed.symbols[1].label)
      <4>1. \/ nonterms' = nonterms
            \/ nonterms' = symbol_list_add_str(nonterms, symbols[i].label, TRUE)
        BY <1>4 DEF SplitSymbol
      <4>2. Starts(symbol_list_add_str(nonterms, symbols[i].label, TRUE), parsed.symbols[1].label)
        BY <1>1, <3>2, AddStarts
      <4> QED
        BY <3>2, <4>1, <4>2
    <3> QED
      BY <2>1, <3>1, <3>2 DEF FirstInv
  <2>3. i' \in Nat /\ i' > 1
    BY <2>1
  <2> QED
    BY <2>1, <2>2, <2>3 DEF FirstInv, Converting, TablesDone
<1>5. CASE SplitReturn
  <2>1. /\ pc = "split" /\ pc' = "explode_terms" /\ i > Len(symbols)
        /\ UNCHANGED <<parsed, nonterms>>
    BY <1>5 DEF SplitReturn, wcnfRest
  <2>2. i # 1
    BY <1>2, <2>1
  <2> QED
    BY <2>1, <2>2 DEF FirstInv, Converting, TablesDone
<1>6. CASE ExplodeTerm
  <2>1. /\ pc = "explode_terms" /\ pc' = "explode_terms" /\ UNCHANGED <<parsed, nonterms>>
    BY <1>6 DEF ExplodeTerm, wcnfRest, splitVars
  <2> QED
    BY <2>1 DEF FirstInv, Converting, TablesDone
<1>7. CASE ExplodeNonterm
  <2>1. /\ pc = "explode_nonterms" /\ pc' = "explode_nonterms" /\ UNCHANGED <<parsed, nonterms>>
        /\ new_nonterms' = symbol_list_add_str(new_nonterms, symbol_numerate(nonterms[i].label, j),
                                               nonterms[i].is_nonterm)
    BY <1>7 DEF ExplodeNonterm, wcnfRest, splitVars, Exploded, BlockLabel
  <2>2. new_nonterms \in Seq(Symbol(LabelRecord))
    BY <1>1, <2>1 DEF ExplodeInv, TableExploded, MapTypes
  <2>3. Starts(nonterms, parsed.symbols[1].label)
    BY <2>1 DEF FirstInv, Converting
  <2>4. Starts(new_nonterms', StartBlock)
    <3>1. CASE i = 1 /\ j = 0 /\ new_nonterms = <<>>
      <4>1. new_nonterms' = symbol_list_add_str(new_nonterms, StartBlock, nonterms[i].is_nonterm)
        BY <2>1, <2>3, <3>1 DEF Starts, StartBlock
      <4> QED
        BY <2>2, <3>1, <4>1, AddStarts
    <3>2. CASE Starts(new_nonterms, StartBlock)
      BY <2>1, <2>2, <3>2, AddStarts
    <3> QED
      BY <2>1, <3>1, <3>2 DEF FirstInv
  <2>5. StartBlock' = StartBlock
    BY <2>1 DEF StartBlock
  <2> QED
    BY <2>1, <2>3, <2>4, <2>5 DEF FirstInv, Converting, TablesDone
<1>8. CASE ExplodeTableEnd
  <2>1. /\ UNCHANGED <<parsed, nonterms, new_nonterms, j>> /\ i' = 1
        /\ \/ pc = "explode_terms" /\ i > Len(terms) /\ pc' = "explode_nonterms"
           \/ pc = "explode_nonterms" /\ i > Len(nonterms) /\ pc' = "explode_rules"
    BY <1>8 DEF ExplodeTableEnd, wcnfRest, splitVars, tableVars
  <2>2. /\ Starts(nonterms, parsed.symbols[1].label) /\ StartBlock' = StartBlock
    BY <2>1 DEF FirstInv, Converting, StartBlock
  <2>3. CASE pc = "explode_terms" /\ i > Len(terms) /\ pc' = "explode_nonterms"
    <3>1. new_nonterms = <<>> /\ i \in Nat /\ AtBlock(parsed.block_count, terms, i - 1, j)
      BY <1>1, <2>3 DEF ExplodeInv
    <3>2. j = 0
      BY <1>1, <2>3, <3>1, TableEnds
    <3> QED
      BY <2>1, <2>2, <2>3, <3>1, <3>2 DEF FirstInv, Converting, TablesDone
  <2>4. CASE pc = "explode_nonterms" /\ i > Len(nonterms) /\ pc' = "explode_rules"
    <3>1. i # 1
      BY <1>1, <2>2, <2>4 DEF Starts
    <3>2. Starts(new_nonterms, StartBlock)
      BY <2>4, <3>1 DEF FirstInv
    <3> QED
      BY <2>1, <2>2, <2>4, <3>2 DEF FirstInv, Converting, TablesDone
  <2> QED
    BY <2>1, <2>3, <2>4
<1>9. CASE ExplodeRule \/ ExplodeRulesEnd \/ BuildMatrices
  <2>1. /\ UNCHANGED <<parsed, nonterms, new_nonterms>> /\ pc \in TablesDone /\ pc' \in TablesDone
    BY <1>9 DEF ExplodeRule, ExplodeRulesEnd, BuildMatrices, wcnfRest, splitVars, tableVars,
                TablesDone
  <2>2. StartBlock' = StartBlock
    BY <2>1 DEF StartBlock
  <2> QED
    BY <2>1, <2>2 DEF FirstInv, Converting, TablesDone
<1>10. CASE UNCHANGED vars
  <2>1. UNCHANGED <<parsed, pc, i, j, nonterms, new_nonterms>>
    BY <1>10 DEF vars, wcnfVars, splitVars, tableVars
  <2>2. StartBlock' = StartBlock
    BY <2>1 DEF StartBlock
  <2> QED
    BY <2>1, <2>2 DEF FirstInv
<1> QED
  BY <1>3, <1>4, <1>5, <1>6, <1>7, <1>8, <1>9, <1>10 DEF Next, Step, Prepared


-----------------------------------------------------------------------------
(***************************************************************************)
(* What the labels of the exploded grammar denote: a label is a name of a  *)
(* symbol of the file for one block, and so stands for a slot, or it is    *)
(* the name of the empty word.                                             *)
(***************************************************************************)

\* The names of a symbol: its own and, for a terminal, its helper's.
Name(p, s, label) ==
  label = p.symbols[s].label \/ (InputTerm(p, s) /\ label = HelperLabel(p.symbols[s].label))

Denotes(label, slot) ==
  \/ label = EpsLabel /\ slot = NoSymbol
  \/ \E s \in SymbolNumbers : \E n \in BlockNumbers : \E name :
       Name(parsed, s, name) /\ label = symbol_numerate(name, n) /\ slot = SlotAt(s, n)

\* With clean labels the number tells the block, and what is left the name.
LEMMA NumbersApart ==
  ASSUME parsed \in ParserResults, Clean, NEW a, NEW b,
         {a, b} \subseteq LabelsOf(parsed.symbols) \cup MadeUp(parsed),
         NEW n \in BlockNumbers, NEW q \in BlockNumbers,
         symbol_numerate(a, n) = symbol_numerate(b, q)
  PROVE  a = b /\ (IsIndexed(a) => n = q)
<1> DEFINE labels == LabelsOf(parsed.symbols) \cup MadeUp(parsed)
<1>1. \A x, y \in labels : \A m \in BlockNumbers : IsIndexed(x) => y # symbol_numerate(x, m)
  BY DEF Clean, NoNumberedLabel, BlockNumbers
<1>2. a \in labels /\ b \in labels
  OBVIOUS
<1>3. \A x \in labels : x \in LabelRecord
  <2>1. parsed.symbols \in Seq(Symbol(LabelRecord))
    BY ParsedFacts
  <2>2. ASSUME NEW x \in LabelsOf(parsed.symbols) PROVE x \in LabelRecord
    <3>1. PICK s \in DOMAIN parsed.symbols : x = parsed.symbols[s].label
      BY <2>2 DEF LabelsOf
    <3>2. parsed.symbols[s] \in Symbol(LabelRecord)
      BY <2>1
    <3> QED
      BY <3>1, <3>2 DEF Symbol
  <2> QED
    BY <2>2, MadeUpType
<1> HIDE DEF labels
<1>4. CASE IsIndexed(a) /\ IsIndexed(b)
  BY <1>2, <1>3, <1>4, NumerateInjective
<1>5. CASE IsIndexed(a) /\ ~IsIndexed(b)
  <2>1. symbol_numerate(b, q) = b
    BY <1>5 DEF symbol_numerate
  <2> QED
    BY <1>1, <1>2, <1>5, <2>1
<1>6. CASE ~IsIndexed(a) /\ IsIndexed(b)
  <2>1. symbol_numerate(a, n) = a
    BY <1>6 DEF symbol_numerate
  <2> QED
    BY <1>1, <1>2, <1>6, <2>1
<1>7. CASE ~IsIndexed(a) /\ ~IsIndexed(b)
  BY <1>7 DEF symbol_numerate
<1> QED
  BY <1>4, <1>5, <1>6, <1>7

\* EPS is not indexed, and a helper is when its terminal is.
LEMMA NameIndexed ==
  /\ ~IsIndexed(EpsLabel) /\ \A n : symbol_numerate(EpsLabel, n) = EpsLabel
  /\ \A label \in LabelRecord : IsIndexed(HelperLabel(label)) <=> IsIndexed(label)
<1>1. ~IsIndexed(EpsLabel)
  BY DEF IsIndexed, EpsLabel, Plain, Indexed
<1>2. \A n : symbol_numerate(EpsLabel, n) = EpsLabel
  BY <1>1 DEF symbol_numerate
<1>3. ASSUME NEW label \in LabelRecord PROVE HelperLabel(label).suf = label.suf
  BY DEF HelperLabel, LabelRecord
<1> QED
  BY <1>1, <1>2, <1>3 DEF IsIndexed

\* The names of the symbols.
LEMMA NameFacts ==
  ASSUME parsed \in ParserResults, NEW s \in SymbolNumbers, NEW name, Name(parsed, s, name)
  PROVE  /\ name \in LabelsOf(parsed.symbols) \cup MadeUp(parsed)
         /\ IsIndexed(name) <=> IsIndexed(parsed.symbols[s].label)
         /\ parsed.symbols[s].label \in LabelRecord
<1>1. /\ parsed.symbols \in Seq(Symbol(LabelRecord)) /\ s \in DOMAIN parsed.symbols
      /\ s \in 1 .. Len(parsed.symbols)
  <2>1. parsed.symbols \in Seq(Symbol(LabelRecord))
    BY ParsedFacts
  <2> QED
    BY <2>1 DEF SymbolNumbers
<1>2. parsed.symbols[s].label \in LabelRecord
  <2>1. parsed.symbols[s] \in Symbol(LabelRecord)
    BY <1>1
  <2> QED
    BY <2>1 DEF Symbol
<1>3. parsed.symbols[s].label \in LabelsOf(parsed.symbols)
  BY <1>1 DEF LabelsOf
<1>4. CASE name = parsed.symbols[s].label
  BY <1>2, <1>3, <1>4
<1>5. CASE InputTerm(parsed, s) /\ name = HelperLabel(parsed.symbols[s].label)
  BY <1>2, <1>5, HelperMadeUp, NameIndexed
<1> QED
  BY <1>4, <1>5 DEF Name

\* A name is one symbol's, and none is EPS.
LEMMA NameOfOne ==
  ASSUME parsed \in ParserResults, NoClash, NEW s \in SymbolNumbers, NEW t \in SymbolNumbers,
         NEW name, Name(parsed, s, name)
  PROVE  name # EpsLabel /\ (Name(parsed, t, name) => s = t)
<1>1. /\ s \in DOMAIN parsed.symbols /\ t \in DOMAIN parsed.symbols
      /\ s \in 1 .. Len(parsed.symbols) /\ t \in 1 .. Len(parsed.symbols)
  BY ParsedFacts DEF SymbolNumbers
<1>2. DistinctLabels(parsed.symbols)
  BY WCNFAssumption DEF ParserPromise
<1>3. parsed.symbols[s].label \in LabelRecord /\ parsed.symbols[t].label \in LabelRecord
  BY NameFacts DEF Name
<1>4. \A q \in 1 .. Len(parsed.symbols) :
        /\ parsed.symbols[q].label # EpsLabel
        /\ \A u \in 1 .. Len(parsed.symbols) : InputTerm(parsed, u) =>
             parsed.symbols[q].label # HelperLabel(parsed.symbols[u].label)
  BY CleanLabels
<1>5. \A u : InputTerm(parsed, u) => HelperLabel(parsed.symbols[u].label) # EpsLabel
  <2>1. ASSUME NEW u, InputTerm(parsed, u)
        PROVE  HelperLabel(parsed.symbols[u].label) # EpsLabel
    <3>1. u \in DOMAIN parsed.symbols /\ ~parsed.symbols[u].is_nonterm
      BY <2>1, ParsedFacts DEF InputTerm
    <3> QED
      BY <3>1 DEF NoClash
  <2> QED
    BY <2>1
<1>6. name # EpsLabel
  BY <1>1, <1>4, <1>5 DEF Name
<1>7. ASSUME Name(parsed, t, name) PROVE s = t
  <2>1. parsed.symbols[s].label = parsed.symbols[t].label
    <3>1. CASE name = parsed.symbols[s].label
      BY <1>1, <1>4, <1>7, <3>1 DEF Name
    <3>2. CASE InputTerm(parsed, s) /\ name = HelperLabel(parsed.symbols[s].label)
      <4>1. HelperLabel(parsed.symbols[s].label) = HelperLabel(parsed.symbols[t].label)
        BY <1>1, <1>4, <1>7, <3>2 DEF Name
      <4> QED
        BY <1>3, <4>1, HelperInjective
    <3> QED
      BY <3>1, <3>2 DEF Name
  <2> QED
    BY <1>1, <1>2, <2>1 DEF DistinctLabels
<1> QED
  BY <1>6, <1>7

\* A label denotes one slot.
LEMMA DenotesOne ==
  ASSUME parsed \in ParserResults, Clean, NEW label, NEW a, NEW b,
         Denotes(label, a), Denotes(label, b)
  PROVE  a = b
<1>1. NoClash /\ EpsLabel \in MadeUp(parsed)
  BY EpsMadeUp DEF Clean
<1>2. ASSUME NEW s \in SymbolNumbers, NEW n \in BlockNumbers, NEW name, Name(parsed, s, name),
             symbol_numerate(name, n) = EpsLabel
      PROVE  FALSE
  <2>1. {name, EpsLabel} \subseteq LabelsOf(parsed.symbols) \cup MadeUp(parsed)
    BY <1>1, <1>2, NameFacts
  <2>2. symbol_numerate(name, n) = symbol_numerate(EpsLabel, n)
    BY <1>2, NameIndexed
  <2>3. name = EpsLabel
    BY <2>1, <2>2, NumbersApart
  <2> QED
    BY <1>1, <1>2, <2>3, NameOfOne
<1>3. ASSUME NEW s \in SymbolNumbers, NEW n \in BlockNumbers, NEW x, Name(parsed, s, x),
             NEW t \in SymbolNumbers, NEW q \in BlockNumbers, NEW y, Name(parsed, t, y),
             symbol_numerate(x, n) = symbol_numerate(y, q)
      PROVE  SlotAt(s, n) = SlotAt(t, q)
  <2>1. {x, y} \subseteq LabelsOf(parsed.symbols) \cup MadeUp(parsed)
    BY <1>3, NameFacts
  <2>2. x = y /\ (IsIndexed(x) => n = q)
    BY <1>3, <2>1, NumbersApart
  <2>3. s = t
    BY <1>1, <1>3, <2>2, NameOfOne
  <2>4. IsIndexed(x) <=> IsIndexed(parsed.symbols[s].label)
    BY <1>3, NameFacts
  <2> QED
    BY <2>2, <2>3, <2>4 DEF SlotAt
<1>4. CASE label = EpsLabel
  BY <1>2, <1>4 DEF Denotes
<1>5. CASE label # EpsLabel
  <2>1. PICK s \in SymbolNumbers : \E n \in BlockNumbers : \E name :
          Name(parsed, s, name) /\ label = symbol_numerate(name, n) /\ a = SlotAt(s, n)
    BY <1>5 DEF Denotes
  <2>2. PICK t \in SymbolNumbers : \E n \in BlockNumbers : \E name :
          Name(parsed, t, name) /\ label = symbol_numerate(name, n) /\ b = SlotAt(t, n)
    BY <1>5 DEF Denotes
  <2>3. PICK n \in BlockNumbers : \E name :
          Name(parsed, s, name) /\ label = symbol_numerate(name, n) /\ a = SlotAt(s, n)
    BY <2>1
  <2>4. PICK q \in BlockNumbers : \E name :
          Name(parsed, t, name) /\ label = symbol_numerate(name, q) /\ b = SlotAt(t, q)
    BY <2>2
  <2>5. PICK x : Name(parsed, s, x) /\ label = symbol_numerate(x, n) /\ a = SlotAt(s, n)
    BY <2>3
  <2>6. PICK y : Name(parsed, t, y) /\ label = symbol_numerate(y, q) /\ b = SlotAt(t, q)
    BY <2>4
  <2>7. symbol_numerate(x, n) = symbol_numerate(y, q)
    BY <2>5, <2>6
  <2> QED
    BY <1>3, <2>5, <2>6, <2>7
<1> QED
  BY <1>4, <1>5

\* A rule of the grammar for block n as a rule on the slots: of the file, or a is b.
Means(sp, n, a, b, d) ==
  /\ Denotes(symbol_numerate(sp[1], n), a)
  /\ \/ sp = <<sp[1]>> /\ b = NoSymbol /\ d = NoSymbol
     \/ /\ sp = <<sp[1], sp[2]>> /\ d = NoSymbol
        /\ \E t \in SymbolNumbers :
             InputTerm(parsed, t) /\ sp[2] = parsed.symbols[t].label /\ b = SlotAt(t, n)
     \/ /\ sp = <<sp[1], sp[2], sp[3]>> /\ b # NoSymbol
        /\ Denotes(symbol_numerate(sp[2], n), b) /\ Denotes(symbol_numerate(sp[3], n), d)
  /\ \/ a = b /\ d = NoSymbol
     \/ \E k \in 1 .. Len(parsed.rules) : <<a, b, d>> = SlotRule(parsed.rules[k], n)

LEMMA FromFileMeans ==
  ASSUME parsed \in ParserResults, SlotLayout, NEW n \in BlockNumbers, NEW sp,
         FromFile(parsed, sp)
  PROVE  \E a, b, d : Means(sp, n, a, b, d)
<1>1. \A s \in SymbolNumbers : SlotAt(s, n) # NoSymbol
  BY DEF SlotLayout, NoSymbol
<1>2. ASSUME NEW s \in SymbolNumbers
      PROVE  /\ Denotes(symbol_numerate(parsed.symbols[s].label, n), SlotAt(s, n))
             /\ Denotes(symbol_numerate(NameIn(parsed, s), n), SlotAt(s, n))
             /\ InputTerm(parsed, s) =>
                  Denotes(symbol_numerate(HelperLabel(parsed.symbols[s].label), n), SlotAt(s, n))
  BY DEF Denotes, Name, NameIn
<1>3. Denotes(symbol_numerate(EpsLabel, n), NoSymbol)
  BY NameIndexed DEF Denotes
<1>4. CASE sp = <<EpsLabel>>
  BY <1>3, <1>4 DEF Means
<1>5. ASSUME NEW t \in 1 .. Len(parsed.symbols), InputTerm(parsed, t), sp = HelperSpell(parsed, t)
      PROVE  Means(sp, n, SlotAt(t, n), SlotAt(t, n), NoSymbol)
  <2>1. t \in SymbolNumbers
    BY DEF SymbolNumbers
  <2>2. /\ sp[1] = HelperLabel(parsed.symbols[t].label) /\ sp[2] = parsed.symbols[t].label
        /\ sp = <<sp[1], sp[2]>>
    BY <1>5 DEF HelperSpell
  <2>3. Denotes(symbol_numerate(sp[1], n), SlotAt(t, n))
    BY <1>2, <1>5, <2>1, <2>2
  <2> QED
    BY <1>5, <2>1, <2>2, <2>3 DEF Means
<1>6. ASSUME NEW k \in 1 .. Len(parsed.rules), sp = NormalSpell(parsed, parsed.rules[k])
      PROVE  \E a, b, d : Means(sp, n, a, b, d)
  <2> DEFINE r == parsed.rules[k]
             a == SlotAt(r.first, n)
             b == SlotAt(r.second, n)
             d == SlotAt(r.third, n)
  <2>1. /\ r.first \in SymbolNumbers
        /\ r.second = NoSymbol \/ r.second \in SymbolNumbers
        /\ r.third = NoSymbol \/ r.third \in SymbolNumbers
        /\ r.second = NoSymbol => r.third = NoSymbol
    BY ParsedFacts DEF SymbolNumbers
  <2>2. SlotAt(NoSymbol, n) = NoSymbol
    BY DEF SlotAt
  <2>3. \E q \in 1 .. Len(parsed.rules) : <<a, b, d>> = SlotRule(parsed.rules[q], n)
    BY DEF SlotRule
  <2> HIDE DEF r
  <2>4. Denotes(symbol_numerate(parsed.symbols[r.first].label, n), a)
    BY <1>2, <2>1
  <2>5. sp = NormalSpell(parsed, r)
    BY <1>6 DEF r
  <2>6. CASE r.second = NoSymbol
    <3>1. sp[1] = parsed.symbols[r.first].label /\ sp = <<sp[1]>>
      BY <2>5, <2>6 DEF NormalSpell
    <3>2. b = NoSymbol /\ d = NoSymbol
      BY <2>1, <2>2, <2>6
    <3> QED
      BY <2>3, <2>4, <3>1, <3>2 DEF Means
  <2>7. CASE r.second # NoSymbol /\ r.third = NoSymbol /\ InputTerm(parsed, r.second)
    <3>1. /\ sp[1] = parsed.symbols[r.first].label /\ sp[2] = parsed.symbols[r.second].label
          /\ sp = <<sp[1], sp[2]>>
      BY <2>5, <2>7 DEF NormalSpell
    <3>2. d = NoSymbol /\ r.second \in SymbolNumbers
      BY <2>1, <2>2, <2>7
    <3>3. Means(sp, n, a, b, d)
      BY <2>3, <2>4, <2>7, <3>1, <3>2 DEF Means
    <3> QED
      BY <3>3
  <2>8. CASE r.second # NoSymbol /\ r.third = NoSymbol /\ ~InputTerm(parsed, r.second)
    <3>1. /\ sp[1] = parsed.symbols[r.first].label /\ sp[2] = parsed.symbols[r.second].label
          /\ sp[3] = EpsLabel /\ sp = <<sp[1], sp[2], sp[3]>>
      BY <2>5, <2>8 DEF NormalSpell
    <3>2. d = NoSymbol /\ r.second \in SymbolNumbers
      BY <2>1, <2>2, <2>8
    <3>3. b # NoSymbol /\ Denotes(symbol_numerate(sp[2], n), b)
      BY <1>1, <1>2, <3>1, <3>2
    <3>4. Denotes(symbol_numerate(sp[3], n), d)
      BY <1>3, <3>1, <3>2
    <3>5. Means(sp, n, a, b, d)
      BY <2>3, <2>4, <3>1, <3>3, <3>4 DEF Means
    <3> QED
      BY <3>5
  <2>9. CASE r.second # NoSymbol /\ r.third # NoSymbol
    <3>1. /\ sp[1] = parsed.symbols[r.first].label /\ sp[2] = NameIn(parsed, r.second)
          /\ sp[3] = NameIn(parsed, r.third) /\ sp = <<sp[1], sp[2], sp[3]>>
      BY <2>5, <2>9 DEF NormalSpell
    <3>2. r.second \in SymbolNumbers /\ r.third \in SymbolNumbers
      BY <2>1, <2>9
    <3>3. b # NoSymbol /\ Denotes(symbol_numerate(sp[2], n), b)
      BY <1>1, <1>2, <3>1, <3>2
    <3>4. Denotes(symbol_numerate(sp[3], n), d)
      BY <1>2, <3>1, <3>2
    <3>5. Means(sp, n, a, b, d)
      BY <2>3, <2>4, <3>1, <3>3, <3>4 DEF Means
    <3> QED
      BY <3>5
  <2> QED
    BY <2>6, <2>7, <2>8, <2>9
<1> QED
  BY <1>4, <1>5, <1>6 DEF FromFile


\* The labels of an exploded rule, case by case.
LEMMA ExplodedSpellIs ==
  ASSUME NEW r
  PROVE  /\ r.second = NoSymbol => ExplodedSpell(r) = <<new_nonterms[r.first].label>>
         /\ r.second # NoSymbol /\ r.third = NoSymbol =>
              ExplodedSpell(r) = <<new_nonterms[r.first].label, new_terms[r.second].label>>
         /\ r.second # NoSymbol /\ r.third # NoSymbol =>
              ExplodedSpell(r) = <<new_nonterms[r.first].label, new_nonterms[r.second].label,
                                   new_nonterms[r.third].label>>
<1> DEFINE a == new_nonterms[r.first].label
           b == new_terms[r.second].label
           c == new_nonterms[r.second].label
           d == new_nonterms[r.third].label
<1>1. <<a>> \o <<>> = <<a>>
  OBVIOUS
<1>2. <<a>> \o <<b>> = <<a, b>> /\ <<a>> \o <<c, d>> = <<a, c, d>>
  BY Concat2, Concat1and2
<1> QED
  BY <1>1, <1>2 DEF ExplodedSpell

\* Numerating a rule's labels keeps their number.
LEMMA NumeratedOf ==
  ASSUME NEW sp, NEW n, NEW x, NEW y, NEW z
  PROVE  /\ <<x>> = Numerate(sp, n) =>
              /\ x = symbol_numerate(sp[1], n)
              /\ sp # <<sp[1], sp[2]>> /\ sp # <<sp[1], sp[2], sp[3]>>
         /\ <<x, y>> = Numerate(sp, n) =>
              /\ x = symbol_numerate(sp[1], n) /\ y = symbol_numerate(sp[2], n)
              /\ sp # <<sp[1]>> /\ sp # <<sp[1], sp[2], sp[3]>>
         /\ <<x, y, z>> = Numerate(sp, n) =>
              /\ x = symbol_numerate(sp[1], n) /\ y = symbol_numerate(sp[2], n)
              /\ z = symbol_numerate(sp[3], n)
              /\ sp # <<sp[1]>> /\ sp # <<sp[1], sp[2]>>
<1>1. /\ DOMAIN Numerate(sp, n) = DOMAIN sp
      /\ \A k \in DOMAIN sp : Numerate(sp, n)[k] = symbol_numerate(sp[k], n)
  BY DEF Numerate
<1>2. /\ DOMAIN <<x>> = 1 .. 1 /\ DOMAIN <<x, y>> = 1 .. 2 /\ DOMAIN <<x, y, z>> = 1 .. 3
      /\ sp = <<sp[1]>> => DOMAIN sp = 1 .. 1
      /\ sp = <<sp[1], sp[2]>> => DOMAIN sp = 1 .. 2
      /\ sp = <<sp[1], sp[2], sp[3]>> => DOMAIN sp = 1 .. 3
  OBVIOUS
<1>3. 2 \notin 1 .. 1 /\ 3 \notin 1 .. 2 /\ 1 \in 1 .. 1 /\ 1 \in 1 .. 2 /\ 2 \in 1 .. 2
      /\ 1 \in 1 .. 3 /\ 2 \in 1 .. 3 /\ 3 \in 1 .. 3 /\ 3 \notin 1 .. 1
  OBVIOUS
<1>4. /\ <<x>>[1] = x /\ <<x, y>>[1] = x /\ <<x, y>>[2] = y
      /\ <<x, y, z>>[1] = x /\ <<x, y, z>>[2] = y /\ <<x, y, z>>[3] = z
  OBVIOUS
<1>5. ASSUME <<x>> = Numerate(sp, n)
      PROVE  x = symbol_numerate(sp[1], n) /\ DOMAIN sp = 1 .. 1
  BY <1>1, <1>2, <1>3, <1>4, <1>5
<1>6. ASSUME <<x, y>> = Numerate(sp, n)
      PROVE  /\ x = symbol_numerate(sp[1], n) /\ y = symbol_numerate(sp[2], n)
             /\ DOMAIN sp = 1 .. 2
  BY <1>1, <1>2, <1>3, <1>4, <1>6
<1>7. ASSUME <<x, y, z>> = Numerate(sp, n)
      PROVE  /\ x = symbol_numerate(sp[1], n) /\ y = symbol_numerate(sp[2], n)
             /\ z = symbol_numerate(sp[3], n) /\ DOMAIN sp = 1 .. 3
  BY <1>1, <1>2, <1>3, <1>4, <1>7
<1> QED
  BY <1>2, <1>3, <1>5, <1>6, <1>7

\* An exploded rule as a rule on the slots.
RuleMeans(r, n, a, b, d) ==
  /\ Denotes(new_nonterms[r.first].label, a)
  /\ \/ r.second = NoSymbol /\ b = NoSymbol /\ d = NoSymbol
     \/ /\ r.second \in 1 .. Len(new_terms) /\ r.third = NoSymbol /\ d = NoSymbol
        /\ \E t \in SymbolNumbers :
             /\ InputTerm(parsed, t) /\ b = SlotAt(t, n)
             /\ new_terms[r.second].label = symbol_numerate(parsed.symbols[t].label, n)
     \/ /\ r.second \in 1 .. Len(new_nonterms) /\ r.third \in 1 .. Len(new_nonterms)
        /\ b # NoSymbol
        /\ Denotes(new_nonterms[r.second].label, b) /\ Denotes(new_nonterms[r.third].label, d)
  /\ \/ a = b /\ d = NoSymbol
     \/ \E k \in 1 .. Len(parsed.rules) : <<a, b, d>> = SlotRule(parsed.rules[k], n)

LEMMA RuleHasMeaning ==
  ASSUME parsed \in ParserResults, SlotLayout, GrammarInv, Clean, pc = "prepared",
         NEW q \in 1 .. Len(rules)
  PROVE  \E n \in BlockNumbers : \E a, b, d : RuleMeans(rules[q], n, a, b, d)
<1> DEFINE r == rules[q]
<1>1. RuleIndexed(r)
  BY DEF GrammarInv
<1>2. PICK sp : \E n \in BlockNumbers :
        FromFile(parsed, sp) /\ ExplodedSpell(r) = Numerate(sp, n)
  BY DEF GrammarInv
<1>3. PICK n \in BlockNumbers : FromFile(parsed, sp) /\ ExplodedSpell(r) = Numerate(sp, n)
  BY <1>2
<1>4. PICK a, b, d : Means(sp, n, a, b, d)
  BY <1>3, FromFileMeans
<1>5. \A k : k \in 1 .. Len(new_terms) \/ k \in 1 .. Len(new_nonterms) => k # NoSymbol
  BY DEF NoSymbol
<1> HIDE DEF r
<1>6. CASE r.second = NoSymbol
  <2>1. <<new_nonterms[r.first].label>> = Numerate(sp, n)
    BY <1>3, <1>6, ExplodedSpellIs
  <2>2. /\ new_nonterms[r.first].label = symbol_numerate(sp[1], n)
        /\ sp # <<sp[1], sp[2]>> /\ sp # <<sp[1], sp[2], sp[3]>>
    BY <2>1, NumeratedOf
  <2>3. RuleMeans(r, n, a, b, d)
    BY <1>4, <1>6, <2>2 DEF Means, RuleMeans
  <2> QED
    BY <2>3 DEF r
<1>7. CASE r.second # NoSymbol /\ r.third = NoSymbol
  <2>1. <<new_nonterms[r.first].label, new_terms[r.second].label>> = Numerate(sp, n)
    BY <1>3, <1>7, ExplodedSpellIs
  <2>2. /\ new_nonterms[r.first].label = symbol_numerate(sp[1], n)
        /\ new_terms[r.second].label = symbol_numerate(sp[2], n)
        /\ sp # <<sp[1]>> /\ sp # <<sp[1], sp[2], sp[3]>>
    BY <2>1, NumeratedOf
  <2>3. r.second \in 1 .. Len(new_terms)
    BY <1>1, <1>5, <1>7 DEF RuleIndexed
  <2>4. RuleMeans(r, n, a, b, d)
    BY <1>4, <1>7, <2>2, <2>3 DEF Means, RuleMeans
  <2> QED
    BY <2>4 DEF r
<1>8. CASE r.second # NoSymbol /\ r.third # NoSymbol
  <2>1. <<new_nonterms[r.first].label, new_nonterms[r.second].label,
          new_nonterms[r.third].label>> = Numerate(sp, n)
    BY <1>3, <1>8, ExplodedSpellIs
  <2>2. /\ new_nonterms[r.first].label = symbol_numerate(sp[1], n)
        /\ new_nonterms[r.second].label = symbol_numerate(sp[2], n)
        /\ new_nonterms[r.third].label = symbol_numerate(sp[3], n)
        /\ sp # <<sp[1]>> /\ sp # <<sp[1], sp[2]>>
    BY <2>1, NumeratedOf
  <2>3. r.second \in 1 .. Len(new_nonterms) /\ r.third \in 1 .. Len(new_nonterms)
    BY <1>1, <1>8 DEF RuleIndexed
  <2>4. RuleMeans(r, n, a, b, d)
    BY <1>4, <2>2, <2>3 DEF Means, RuleMeans
  <2> QED
    BY <2>4 DEF r
<1> QED
  BY <1>6, <1>7, <1>8

\* Labels and slots tell the symbols and blocks apart in the same way.
LEMMA SlotOfLabel ==
  ASSUME parsed \in ParserResults, SlotLayout, Clean, NEW s \in SymbolNumbers,
         NEW t \in SymbolNumbers, NEW n \in BlockNumbers, NEW q \in BlockNumbers
  PROVE  symbol_numerate(parsed.symbols[s].label, n) = symbol_numerate(parsed.symbols[t].label, q)
           <=> SlotAt(s, n) = SlotAt(t, q)
<1>1. ASSUME symbol_numerate(parsed.symbols[s].label, n)
               = symbol_numerate(parsed.symbols[t].label, q)
      PROVE  SlotAt(s, n) = SlotAt(t, q)
  <2> DEFINE label == symbol_numerate(parsed.symbols[s].label, n)
  <2>1. Denotes(label, SlotAt(s, n)) /\ Denotes(label, SlotAt(t, q))
    BY <1>1 DEF Denotes, Name
  <2> QED
    BY <2>1, DenotesOne
<1>2. ASSUME SlotAt(s, n) = SlotAt(t, q)
      PROVE  symbol_numerate(parsed.symbols[s].label, n)
               = symbol_numerate(parsed.symbols[t].label, q)
  <2>1. s = t /\ (IsIndexed(parsed.symbols[s].label) => n = q)
    BY <1>2 DEF SlotLayout
  <2> QED
    BY <2>1 DEF symbol_numerate
<1> QED
  BY <1>1, <1>2

Nodes == 0 .. parsed.node_count - 1

LEMMA EdgeAt ==
  ASSUME parsed \in ParserResults, SlotLayout, NEW k \in DOMAIN parsed.edges
  PROVE  /\ parsed.edges[k].term_index \in SymbolNumbers
         /\ parsed.edges[k].index \in BlockNumbers
         /\ parsed.symbols[parsed.edges[k].term_index].is_nonterm = FALSE
         /\ <<parsed.edges[k].u, parsed.edges[k].v>> \in Nodes \X Nodes
         /\ IndexOnlyOnIndexed =>
              FirstSlot[parsed.edges[k].term_index] + parsed.edges[k].index
                = SlotAt(parsed.edges[k].term_index, parsed.edges[k].index)
<1> DEFINE e == parsed.edges[k]
           s == e.term_index
<1>1. parsed.edges \in Seq(Edge) /\ Len(parsed.edges) \in Nat
  BY ParsedEdges
<1>2. k \in 1 .. Len(parsed.edges)
  BY <1>1
<1>3. /\ s \in 1 .. Len(parsed.symbols) /\ e.index \in Nat /\ e.index < parsed.block_count
      /\ parsed.symbols[s].is_nonterm = FALSE
  BY <1>2, ParsedEdges
<1>4. e \in Edge /\ ParserPromise(parsed) /\ parsed \in ParserResult
  <2>1. ParserPromise(parsed) /\ parsed \in ParserResult
    BY WCNFAssumption
  <2> QED
    BY <1>1, <1>2, <2>1
<1>5. e.u \in Nat /\ e.v \in Nat /\ e.u < parsed.node_count /\ e.v < parsed.node_count
      /\ parsed.node_count \in Nat
  BY <1>4 DEF Edge, ParserPromise, ParserResult
<1>6. parsed.block_count \in Nat
  BY ParsedFacts
<1>7. s \in SymbolNumbers /\ e.index \in BlockNumbers
  BY <1>3, <1>6 DEF SymbolNumbers, BlockNumbers
<1>8. <<e.u, e.v>> \in Nodes \X Nodes
  BY <1>5 DEF Nodes
<1>9. ASSUME IndexOnlyOnIndexed PROVE FirstSlot[s] + e.index = SlotAt(s, e.index)
  <2>1. s # NoSymbol
    BY <1>3 DEF NoSymbol
  <2>2. CASE IsIndexed(parsed.symbols[s].label)
    BY <2>1, <2>2 DEF SlotAt
  <2>3. CASE ~IsIndexed(parsed.symbols[s].label)
    <3>1. e.index = 0
      BY <1>3, <1>9, <2>3 DEF IndexOnlyOnIndexed
    <3>2. SlotAt(s, e.index) = FirstSlot[s]
      BY <2>1, <2>3 DEF SlotAt
    <3>3. SlotAt(s, e.index) \in 1 .. SlotCount
      BY <1>7 DEF SlotLayout
    <3>4. FirstSlot[s] \in Int
      BY <3>2, <3>3
    <3> QED
      BY <3>1, <3>2, <3>4
  <2> QED
    BY <2>2, <2>3
<1> QED
  BY <1>3, <1>7, <1>8, <1>9

\* The matrix of an exploded terminal is that of the slot it denotes.
LEMMA TermMatrix ==
  ASSUME PrepareInv, SlotLayout, Clean, IndexOnlyOnIndexed, pc = "prepared",
         NEW q \in 1 .. Len(new_terms), NEW t \in SymbolNumbers, NEW n \in BlockNumbers,
         new_terms[q].label = symbol_numerate(parsed.symbols[t].label, n)
  PROVE  adj_matrices[q] = SlotEdges(SlotAt(t, n))
<1> DEFINE A == {m \in DOMAIN parsed.edges :
                   symbol_numerate(parsed.symbols[parsed.edges[m].term_index].label,
                                   parsed.edges[m].index) = new_terms[q].label}
           B == {m \in DOMAIN parsed.edges :
                   FirstSlot[parsed.edges[m].term_index] + parsed.edges[m].index = SlotAt(t, n)}
<1>1. parsed \in ParserResults
  BY DEF PrepareInv, ConversionInv, TableInv
<1>2. q \in DOMAIN new_terms
  <2>1. ExplodeInv
    BY DEF PrepareInv
  <2>2. new_terms \in Seq(Symbol(LabelRecord))
    BY <2>1 DEF ExplodeInv, TablesDone, TableExploded, MapTypes
  <2> QED
    BY <2>2
<1>3. adj_matrices[q] = {<<parsed.edges[k].u, parsed.edges[k].v>> : k \in A}
  BY <1>2, MatrixHolds
<1>4. SlotEdges(SlotAt(t, n)) = {<<parsed.edges[k].u, parsed.edges[k].v>> : k \in B}
  BY DEF SlotEdges
<1>5. ASSUME NEW m \in DOMAIN parsed.edges PROVE m \in A <=> m \in B
  <2>1. /\ parsed.edges[m].term_index \in SymbolNumbers
        /\ parsed.edges[m].index \in BlockNumbers
        /\ FirstSlot[parsed.edges[m].term_index] + parsed.edges[m].index
             = SlotAt(parsed.edges[m].term_index, parsed.edges[m].index)
    BY <1>1, EdgeAt
  <2>2. symbol_numerate(parsed.symbols[parsed.edges[m].term_index].label, parsed.edges[m].index)
          = symbol_numerate(parsed.symbols[t].label, n)
        <=> SlotAt(parsed.edges[m].term_index, parsed.edges[m].index) = SlotAt(t, n)
    BY <1>1, <2>1, SlotOfLabel
  <2> QED
    BY <2>1, <2>2
<1>6. A = B
  BY <1>5
<1> QED
  BY <1>3, <1>4, <1>6


\* The relation of what a label denotes; the empty word relates every vertex to itself.
RelOf(Q, slot) == IF slot = NoSymbol THEN Identity ELSE Q[slot]

\* No nonterminal relates vertices that closed relations on the slots do not.
Within(Q) ==
  \A q \in DOMAIN outputs : \A slot :
    Denotes(new_nonterms[q].label, slot) => outputs[q] \subseteq RelOf(Q, slot)

\* CFL's algorithm on the exploded grammar, until nothing is added.
CflRuns == tested = "CFL" /\ phase \in {"run", "compare"}

OverNodes == \A q \in DOMAIN outputs : outputs[q] \subseteq Nodes \X Nodes

RulesApplied ==
  \A k \in 1 .. Len(rules) : CflPairs(rules[k]) \subseteq outputs[rules[k].first]

CflInv ==
  CflRuns =>
    /\ pc = "prepared" /\ DOMAIN outputs = 1 .. Len(new_nonterms)
    /\ Clean /\ IndexOnlyOnIndexed =>
         /\ OverNodes
         /\ \A Q : SlotClosed(Q) => Within(Q)
         /\ phase = "compare" => RulesApplied

LEMMA SlotEdgesOverNodes ==
  ASSUME parsed \in ParserResults, SlotLayout, NEW slot
  PROVE  SlotEdges(slot) \subseteq Nodes \X Nodes
<1>1. ASSUME NEW x \in SlotEdges(slot) PROVE x \in Nodes \X Nodes
  <2>1. PICK k \in DOMAIN parsed.edges : x = <<parsed.edges[k].u, parsed.edges[k].v>>
    BY <1>1 DEF SlotEdges
  <2> QED
    BY <2>1, EdgeAt
<1> QED
  BY <1>1

LEMMA IdentityOverNodes == Identity \subseteq Nodes \X Nodes
BY DEF Identity, Nodes

\* The loops at the vertices add nothing when a relation is continued by them.
LEMMA ComposeIdentity ==
  ASSUME NEW R, R \subseteq Nodes \X Nodes
  PROVE  Compose(R, Identity) = R
<1>1. ASSUME NEW x \in Compose(R, Identity) PROVE x \in R
  <2>1. PICK a \in R : \E b \in Identity : a[2] = b[1] /\ x = <<a[1], b[2]>>
    BY <1>1, InCompose
  <2>2. PICK b \in Identity : a[2] = b[1] /\ x = <<a[1], b[2]>>
    BY <2>1
  <2>3. b[1] = b[2]
    BY DEF Identity
  <2>4. a = <<a[1], a[2]>>
    OBVIOUS
  <2> QED
    BY <2>2, <2>3, <2>4
<1>2. ASSUME NEW x \in R PROVE x \in Compose(R, Identity)
  <2>1. x = <<x[1], x[2]>> /\ x[2] \in Nodes
    OBVIOUS
  <2>2. <<x[2], x[2]>> \in Identity
    BY <2>1 DEF Identity, Nodes
  <2> DEFINE b == <<x[2], x[2]>>
  <2>3. b \in Identity /\ x[2] = b[1] /\ x = <<x[1], b[2]>>
    BY <2>1, <2>2
  <2> QED
    BY <2>3, InCompose
<1> QED
  BY <1>1, <1>2

LEMMA ComposeOverNodes ==
  ASSUME NEW R, NEW Q, R \subseteq Nodes \X Nodes, Q \subseteq Nodes \X Nodes
  PROVE  Compose(R, Q) \subseteq Nodes \X Nodes
<1>1. ASSUME NEW x \in Compose(R, Q) PROVE x \in Nodes \X Nodes
  <2>1. PICK a \in R : \E b \in Q : a[2] = b[1] /\ x = <<a[1], b[2]>>
    BY <1>1, InCompose
  <2>2. PICK b \in Q : x = <<a[1], b[2]>>
    BY <2>1
  <2>3. a[1] \in Nodes /\ b[2] \in Nodes
    OBVIOUS
  <2> QED
    BY <2>2, <2>3
<1> QED
  BY <1>1

\* What a rule adds is in closed relations when what it reads is.
LEMMA RulePairs ==
  ASSUME PrepareInv, SlotLayout, Clean, IndexOnlyOnIndexed, pc = "prepared",
         DOMAIN outputs = 1 .. Len(new_nonterms), OverNodes,
         NEW Q, SlotClosed(Q), Within(Q), NEW r, NEW n \in BlockNumbers, NEW a, NEW b, NEW d,
         RuleMeans(r, n, a, b, d)
  PROVE  CflPairs(r) \subseteq RelOf(Q, a) /\ CflPairs(r) \subseteq Nodes \X Nodes
<1>1. parsed \in ParserResults
  BY DEF PrepareInv, ConversionInv, TableInv
<1>2. \A k : k \in 1 .. Len(new_terms) \/ k \in 1 .. Len(new_nonterms) => k # NoSymbol
  BY DEF NoSymbol
<1>3. ASSUME NEW k \in 1 .. Len(parsed.rules), <<a, b, d>> = SlotRule(parsed.rules[k], n)
      PROVE  a # NoSymbol /\ BodyOf(Q, b, d) \subseteq Q[a]
  <2> DEFINE c == SlotRule(parsed.rules[k], n)
  <2>1. BodyOf(Q, c[2], c[3]) \subseteq Q[c[1]]
    BY ClosedRule
  <2>2. c[1] = a /\ c[2] = b /\ c[3] = d /\ c[1] = SlotAt(parsed.rules[k].first, n)
    BY <1>3 DEF SlotRule
  <2>3. parsed.rules[k].first \in SymbolNumbers
    BY <1>1, ParsedFacts DEF SymbolNumbers
  <2>4. a # NoSymbol
    BY <2>2, <2>3 DEF SlotLayout, NoSymbol
  <2> HIDE DEF c
  <2> QED
    BY <2>1, <2>2, <2>4
<1>4. BodyOf(Q, NoSymbol, NoSymbol) = Identity
  BY DEF BodyOf
<1>5. b # NoSymbol /\ d = NoSymbol => BodyOf(Q, b, d) = Q[b]
  BY DEF BodyOf
<1>6. b # NoSymbol /\ d # NoSymbol => BodyOf(Q, b, d) = Compose(Q[b], Q[d])
  BY DEF BodyOf
<1>7. \/ a = b /\ d = NoSymbol
      \/ \E k \in 1 .. Len(parsed.rules) : <<a, b, d>> = SlotRule(parsed.rules[k], n)
  BY DEF RuleMeans
<1>8. (a = b /\ d = NoSymbol) \/ (a # NoSymbol /\ BodyOf(Q, b, d) \subseteq Q[a])
  BY <1>3, <1>7
<1>9. CASE r.second = NoSymbol /\ b = NoSymbol /\ d = NoSymbol
  <2>1. CflPairs(r) = Identity
    BY <1>9 DEF CflPairs
  <2> QED
    BY <1>4, <1>8, <1>9, <2>1, IdentityOverNodes DEF RelOf
<1>10. CASE r.second \in 1 .. Len(new_terms) /\ r.third = NoSymbol /\ d = NoSymbol
  <2>1. CASE \E t \in SymbolNumbers :
             /\ InputTerm(parsed, t) /\ b = SlotAt(t, n)
             /\ new_terms[r.second].label = symbol_numerate(parsed.symbols[t].label, n)
    <3>1. PICK t \in SymbolNumbers :
             /\ b = SlotAt(t, n)
             /\ new_terms[r.second].label = symbol_numerate(parsed.symbols[t].label, n)
      BY <2>1
    <3>2. CflPairs(r) = SlotEdges(b)
      <4>1. CflPairs(r) = adj_matrices[r.second]
        BY <1>2, <1>10 DEF CflPairs
      <4> QED
        BY <1>10, <3>1, <4>1, TermMatrix
    <3>3. b \in 1 .. SlotCount /\ b # NoSymbol
      BY <3>1 DEF SlotLayout, NoSymbol
    <3>4. CflPairs(r) \subseteq Q[b]
      BY <3>2, <3>3 DEF SlotClosed
    <3>5. CflPairs(r) \subseteq RelOf(Q, a)
      BY <1>5, <1>8, <1>10, <3>3, <3>4 DEF RelOf
    <3>6. CflPairs(r) \subseteq Nodes \X Nodes
      BY <1>1, <3>2, SlotEdgesOverNodes
    <3> QED
      BY <3>5, <3>6
  <2> QED
    BY <1>2, <1>10, <2>1 DEF RuleMeans
<1>11. CASE /\ r.second \in 1 .. Len(new_nonterms) /\ r.third \in 1 .. Len(new_nonterms)
            /\ b # NoSymbol
            /\ Denotes(new_nonterms[r.second].label, b) /\ Denotes(new_nonterms[r.third].label, d)
  <2>1. CflPairs(r) = Compose(outputs[r.second], outputs[r.third])
    BY <1>2, <1>11 DEF CflPairs
  <2>2. /\ outputs[r.second] \subseteq RelOf(Q, b) /\ outputs[r.third] \subseteq RelOf(Q, d)
        /\ outputs[r.second] \subseteq Nodes \X Nodes
        /\ outputs[r.third] \subseteq Nodes \X Nodes
    BY <1>11 DEF Within, OverNodes
  <2>3. CflPairs(r) \subseteq Nodes \X Nodes
    BY <2>1, <2>2, ComposeOverNodes
  <2>4. CASE d = NoSymbol
    <3>1. Compose(outputs[r.second], outputs[r.third]) \subseteq Compose(outputs[r.second], Identity)
      BY <2>2, <2>4, ComposeGrows DEF RelOf
    <3>2. Compose(outputs[r.second], Identity) = outputs[r.second]
      BY <2>2, ComposeIdentity
    <3>3. CflPairs(r) \subseteq Q[b]
      BY <1>11, <2>1, <2>2, <3>1, <3>2 DEF RelOf
    <3>4. CflPairs(r) \subseteq RelOf(Q, a)
      BY <1>5, <1>8, <1>11, <2>4, <3>3 DEF RelOf
    <3> QED
      BY <2>3, <3>4
  <2>5. CASE d # NoSymbol
    <3>1. CflPairs(r) \subseteq Compose(Q[b], Q[d])
      BY <1>11, <2>1, <2>2, <2>5, ComposeGrows DEF RelOf
    <3>2. CflPairs(r) \subseteq RelOf(Q, a)
      BY <1>6, <1>8, <1>11, <2>5, <3>1 DEF RelOf
    <3> QED
      BY <2>3, <3>2
  <2> QED
    BY <2>4, <2>5
<1> QED
  BY <1>9, <1>10, <1>11 DEF RuleMeans


\* What a label denotes depends on the parser's result only.
LEMMA DenotesFixed ==
  ASSUME parsed' = parsed
  PROVE  /\ \A label, slot : Denotes(label, slot)' = Denotes(label, slot)
         /\ \A Q, slot : RelOf(Q, slot)' = RelOf(Q, slot)
         /\ IndexOnlyOnIndexed' = IndexOnlyOnIndexed /\ Nodes' = Nodes
<1>1. FirstSlot' = FirstSlot
  BY DEF FirstSlot
<1>2. \A s, n : SlotAt(s, n)' = SlotAt(s, n)
  BY <1>1 DEF SlotAt
<1>3. \A label, slot : Denotes(label, slot)' = Denotes(label, slot)
  BY <1>2 DEF Denotes, SymbolNumbers, BlockNumbers
<1>4. \A Q, slot : RelOf(Q, slot)' = RelOf(Q, slot)
  BY DEF RelOf, Identity
<1>5. IndexOnlyOnIndexed' = IndexOnlyOnIndexed /\ Nodes' = Nodes
  BY DEF IndexOnlyOnIndexed, Nodes
<1> QED
  BY <1>3, <1>4, <1>5

\* The algorithm starts with empty relations.
LEMMA CflStarts ==
  ASSUME PrepareInv, Prepare, pc' = "prepared"
  PROVE  CflInv'
<1>1. BuildMatrices
  BY DEF Prepare, Step, ConvertGrammar, WCNFNext, KeepRule, UnitRule, TwoTermsRule, OneTermRule,
         AddEpsRule, AddHelperRule, WCNFReturn, AtRule, SplitSymbol, SplitReturn, ExplodeTerm,
         ExplodeNonterm, ExplodeTableEnd, ExplodeRule, ExplodeRulesEnd, wcnfRest
<1>2. /\ pc = "matrices" /\ new_nonterms' = new_nonterms /\ parsed' = parsed
      /\ outputs' = [n \in DOMAIN new_nonterms |-> {}] /\ phase' = "run"
  BY <1>1 DEF Prepare, BuildMatrices, tableVars, wcnfRest
<1>3. DOMAIN new_nonterms = 1 .. Len(new_nonterms)
  <2>1. ExplodeInv
    BY DEF PrepareInv
  <2>2. new_nonterms \in Seq(Symbol(LabelRecord))
    BY <1>2, <2>1 DEF ExplodeInv, TablesDone, TableExploded, MapTypes
  <2> QED
    BY <2>2
<1>4. DOMAIN outputs' = 1 .. Len(new_nonterms') /\ \A q \in DOMAIN outputs' : outputs'[q] = {}
  BY <1>2, <1>3
<1>5. OverNodes'
  BY <1>4 DEF OverNodes
<1>6. \A Q : Within(Q)'
  BY <1>4 DEF Within
<1> QED
  BY <1>2, <1>4, <1>5, <1>6 DEF CflInv

\* What the rules add in a step of the algorithm.
LEMMA CflAdds ==
  ASSUME PrepareInv, GrammarInv, SlotLayout, Clean, IndexOnlyOnIndexed, pc = "prepared",
         DOMAIN outputs = 1 .. Len(new_nonterms), OverNodes,
         NEW Q, SlotClosed(Q), Within(Q), NEW k \in 1 .. Len(rules)
  PROVE  /\ CflPairs(rules[k]) \subseteq Nodes \X Nodes
         /\ \A slot : Denotes(new_nonterms[rules[k].first].label, slot) =>
              CflPairs(rules[k]) \subseteq RelOf(Q, slot)
<1>1. parsed \in ParserResults
  BY DEF PrepareInv, ConversionInv, TableInv
<1>2. PICK n \in BlockNumbers : \E a, b, d : RuleMeans(rules[k], n, a, b, d)
  BY <1>1, RuleHasMeaning
<1>3. PICK a, b, d : RuleMeans(rules[k], n, a, b, d)
  BY <1>2
<1>4. CflPairs(rules[k]) \subseteq RelOf(Q, a) /\ CflPairs(rules[k]) \subseteq Nodes \X Nodes
  BY <1>3, RulePairs
<1>5. Denotes(new_nonterms[rules[k].first].label, a)
  BY <1>3 DEF RuleMeans
<1> QED
  BY <1>1, <1>4, <1>5, DenotesOne

LEMMA CflRun ==
  ASSUME PrepareInv, GrammarInv, ExpectedInv, CflInv, Run
  PROVE  CflInv'
<1>1. /\ CflRuns /\ phase = "run" /\ outputs' = LAGraph_CFL_reachability
      /\ phase' = "compare" => outputs' = outputs
      /\ UNCHANGED <<parsed, pc, new_nonterms, rules, adj_matrices>>
  BY DEF Run, CflRuns, vars, wcnfVars, tableVars, ruleVars
<1>2. pc = "prepared" /\ DOMAIN outputs = 1 .. Len(new_nonterms) /\ SlotLayout
  BY <1>1 DEF CflInv, ExpectedInv
<1> DEFINE Adds(q) == {CflPairs(rules[k]) : k \in {l \in DOMAIN rules : rules[l].first = q}}
<1>3. outputs' = [q \in 1 .. Len(new_nonterms) |-> outputs[q] \cup UNION Adds(q)]
  BY <1>1, <1>2, CflStepIs
<1>4. DOMAIN rules = 1 .. Len(rules)
  <2>1. rules \in Seq(Rule)
    BY <1>2 DEF PrepareInv, NewRulesInv
  <2> QED
    BY <2>1
<1>5. \A q : \A x \in Adds(q) : \E k \in 1 .. Len(rules) :
        rules[k].first = q /\ x = CflPairs(rules[k])
  BY <1>4
<1>10. \A k \in 1 .. Len(rules) : CflPairs(rules[k]) \in Adds(rules[k].first)
  BY <1>4
<1> HIDE DEF Adds
<1>6. DOMAIN outputs' = 1 .. Len(new_nonterms')
  BY <1>1, <1>3
<1>7. ASSUME Clean, IndexOnlyOnIndexed
      PROVE  OverNodes' /\ (\A Q : SlotClosed(Q) => Within(Q)') /\ (phase' = "compare" => RulesApplied')
  <2>1. OverNodes /\ \A Q : SlotClosed(Q) => Within(Q)
    BY <1>1, <1>7 DEF CflInv
  <2>2. PICK Q0 : SlotClosed(Q0)
    BY <1>1 DEF ExpectedInv
  <2>3. ASSUME NEW q \in 1 .. Len(new_nonterms) PROVE outputs'[q] \subseteq Nodes \X Nodes
    <3>1. \A k \in 1 .. Len(rules) : CflPairs(rules[k]) \subseteq Nodes \X Nodes
      BY <1>2, <1>7, <2>1, <2>2, CflAdds
    <3>2. UNION Adds(q) \subseteq Nodes \X Nodes
      BY <1>5, <3>1
    <3>3. outputs[q] \subseteq Nodes \X Nodes
      BY <1>2, <2>1 DEF OverNodes
    <3> QED
      BY <1>3, <3>2, <3>3
  <2>4. OverNodes'
    BY <1>1, <1>6, <2>3, DenotesFixed DEF OverNodes
  <2>5. ASSUME NEW Q, SlotClosed(Q) PROVE Within(Q)'
    <3>1. Within(Q)
      BY <2>1, <2>5
    <3>2. ASSUME NEW q \in 1 .. Len(new_nonterms), NEW slot, Denotes(new_nonterms[q].label, slot)
          PROVE  outputs'[q] \subseteq RelOf(Q, slot)
      <4>1. outputs[q] \subseteq RelOf(Q, slot)
        BY <1>2, <3>1, <3>2 DEF Within
      <4>2. \A k \in 1 .. Len(rules) : \A s :
              Denotes(new_nonterms[rules[k].first].label, s) =>
                CflPairs(rules[k]) \subseteq RelOf(Q, s)
        BY <1>2, <1>7, <2>1, <2>5, <3>1, CflAdds
      <4>3. \A x \in Adds(q) : x \subseteq RelOf(Q, slot)
        <5>1. \A x \in Adds(q) : \E k \in 1 .. Len(rules) :
                rules[k].first = q /\ x = CflPairs(rules[k])
          BY ONLY <1>5
        <5>2. \A k \in 1 .. Len(rules) :
                rules[k].first = q => CflPairs(rules[k]) \subseteq RelOf(Q, slot)
          BY <3>2, <4>2
        <5> QED
          BY ONLY <5>1, <5>2
      <4> QED
        BY <1>3, <4>1, <4>3
    <3> QED
      BY <1>1, <1>6, <3>2, DenotesFixed DEF Within
  <2>6. ASSUME phase' = "compare" PROVE RulesApplied'
    <3>1. outputs' = outputs
      BY <1>1, <2>6
    <3>2. \A k \in 1 .. Len(rules) : rules[k].first \in 1 .. Len(new_nonterms)
      BY <1>2, <1>7 DEF GrammarInv, RuleIndexed
    <3>3. ASSUME NEW k \in 1 .. Len(rules)
          PROVE  CflPairs(rules[k]) \subseteq outputs[rules[k].first]
      <4>1. CflPairs(rules[k]) \in Adds(rules[k].first)
        BY <1>10
      <4>2. outputs'[rules[k].first] = outputs[rules[k].first] \cup UNION Adds(rules[k].first)
        BY <1>3, <3>2
      <4> QED
        BY <3>1, <4>1, <4>2
    <3>4. RulesApplied
      BY <3>3 DEF RulesApplied
    <3>5. RulesApplied' = RulesApplied
      BY <1>1, <3>1 DEF RulesApplied, CflPairs, Identity
    <3> QED
      BY <3>4, <3>5
  <2> QED
    BY <2>4, <2>5, <2>6
<1>8. Clean' = Clean /\ IndexOnlyOnIndexed' = IndexOnlyOnIndexed
  BY <1>1, CleanFixed, DenotesFixed
<1>9. \A Q : SlotClosed(Q)' = SlotClosed(Q)
  BY <1>1, SlotsKept
<1> QED
  BY <1>1, <1>2, <1>6, <1>7, <1>8, <1>9 DEF CflInv

LEMMA CflNext ==
  ASSUME PrepareInv, GrammarInv, ExpectedInv, CflInv, [AllNext]_allVars
  PROVE  CflInv'
<1>1. CASE Prepare
  <2>1. pc' # "prepared" => phase' = "prepare"
    BY <1>1 DEF Prepare
  <2> QED
    BY <1>1, <2>1, CflStarts DEF CflInv, CflRuns
<1>2. CASE AdvPrepare \/ AdvRun \/ AdvCleanup
  <2>1. phase' \notin {"run", "compare"}
    BY <1>2 DEF AdvPrepare, AdvRun, AdvCleanup
  <2> QED
    BY <2>1 DEF CflInv, CflRuns
<1>3. CASE AllPathAdvPrepare \/ MultsrcAdvPrepare \/ AllPathAdvRun \/ MultsrcAdvRun
  <2>1. tested' # "CFL"
    BY <1>3 DEF AllPathAdvPrepare, MultsrcAdvPrepare, TestedAdvPrepare, AllPathAdvRun,
                MultsrcAdvRun, AllPathAdvGetMatrices, MultsrcAdvGetMatrices
  <2> QED
    BY <2>1 DEF CflInv, CflRuns
<1>4. CASE Compared \/ UNCHANGED allVars
  <2>1. /\ UNCHANGED <<parsed, pc, new_nonterms, rules, adj_matrices, outputs, phase, tested>>
    BY <1>4 DEF Compared, allVars, vars, wcnfVars, tableVars, ruleVars
  <2>2. Clean' = Clean /\ IndexOnlyOnIndexed' = IndexOnlyOnIndexed
    BY <2>1, CleanFixed, DenotesFixed
  <2>3. \A Q : SlotClosed(Q)' = SlotClosed(Q)
    BY <2>1, SlotsKept
  <2>4. OverNodes' = OverNodes
    BY <2>1, DenotesFixed DEF OverNodes
  <2>5. \A Q : Within(Q)' = Within(Q)
    BY <2>1, DenotesFixed DEF Within
  <2>6. RulesApplied' = RulesApplied
    BY <2>1 DEF RulesApplied, CflPairs, Identity
  <2> QED
    BY <2>1, <2>2, <2>3, <2>4, <2>5, <2>6 DEF CflInv, CflRuns
<1> QED
  BY <1>1, <1>2, <1>3, <1>4, CflRun DEF AllNext, AllStep


\* What CFL has found, on the slots: the edges and the relations of the nonterminals.
CflRelations ==
  [m \in 1 .. SlotCount |->
     SlotEdges(m) \cup
       UNION {outputs[q] : q \in {l \in DOMAIN outputs :
                \E s \in SymbolNumbers : \E n \in BlockNumbers :
                  /\ parsed.symbols[s].is_nonterm = TRUE /\ SlotAt(s, n) = m
                  /\ new_nonterms[l].label = symbol_numerate(parsed.symbols[s].label, n)}}]

\* CFL has come to an end.
CflEnded ==
  /\ PrepareInv /\ GrammarInv /\ SlotLayout /\ Clean /\ IndexOnlyOnIndexed /\ pc = "prepared"
  /\ DOMAIN outputs = 1 .. Len(new_nonterms) /\ OverNodes /\ RulesApplied

LEMMA EndedFacts ==
  ASSUME CflEnded
  PROVE  /\ parsed \in ParserResults /\ DistinctLabels(new_nonterms)
         /\ DOMAIN new_nonterms = 1 .. Len(new_nonterms)
<1>1. ExplodeInv /\ pc = "prepared" /\ parsed \in ParserResults
  BY DEF CflEnded, PrepareInv, ConversionInv, TableInv
<1>2. new_nonterms \in Seq(Symbol(LabelRecord)) /\ DistinctLabels(new_nonterms)
  BY <1>1 DEF ExplodeInv, TablesDone, TableExploded, MapTypes
<1> QED
  BY <1>1, <1>2

\* The symbols of a rule, by the number of its labels.
LEMMA FieldsOfSpell ==
  ASSUME NEW r, RuleIndexed(r), NEW sp, NEW n, ExplodedSpell(r) = Numerate(sp, n)
  PROVE  /\ new_nonterms[r.first].label = symbol_numerate(sp[1], n)
         /\ sp = <<sp[1]>> => r.second = NoSymbol
         /\ sp = <<sp[1], sp[2]>> =>
              /\ r.second \in 1 .. Len(new_terms) /\ r.third = NoSymbol
              /\ new_terms[r.second].label = symbol_numerate(sp[2], n)
         /\ sp = <<sp[1], sp[2], sp[3]>> =>
              /\ r.second \in 1 .. Len(new_nonterms) /\ r.third \in 1 .. Len(new_nonterms)
              /\ new_nonterms[r.second].label = symbol_numerate(sp[2], n)
              /\ new_nonterms[r.third].label = symbol_numerate(sp[3], n)
<1>1. \A k : k \in 1 .. Len(new_terms) \/ k \in 1 .. Len(new_nonterms) => k # NoSymbol
  BY DEF NoSymbol
<1>2. CASE r.second = NoSymbol
  <2>1. <<new_nonterms[r.first].label>> = Numerate(sp, n)
    BY <1>2, ExplodedSpellIs
  <2>2. /\ new_nonterms[r.first].label = symbol_numerate(sp[1], n)
        /\ sp # <<sp[1], sp[2]>> /\ sp # <<sp[1], sp[2], sp[3]>>
    BY <2>1, NumeratedOf
  <2> QED
    BY <1>2, <2>2
<1>3. CASE r.second # NoSymbol /\ r.third = NoSymbol
  <2>1. <<new_nonterms[r.first].label, new_terms[r.second].label>> = Numerate(sp, n)
    BY <1>3, ExplodedSpellIs
  <2>2. /\ new_nonterms[r.first].label = symbol_numerate(sp[1], n)
        /\ new_terms[r.second].label = symbol_numerate(sp[2], n)
        /\ sp # <<sp[1]>> /\ sp # <<sp[1], sp[2], sp[3]>>
    BY <2>1, NumeratedOf
  <2>3. r.second \in 1 .. Len(new_terms)
    BY <1>1, <1>3 DEF RuleIndexed
  <2> QED
    BY <1>3, <2>2, <2>3
<1>4. CASE r.second # NoSymbol /\ r.third # NoSymbol
  <2>1. <<new_nonterms[r.first].label, new_nonterms[r.second].label,
          new_nonterms[r.third].label>> = Numerate(sp, n)
    BY <1>4, ExplodedSpellIs
  <2>2. /\ new_nonterms[r.first].label = symbol_numerate(sp[1], n)
        /\ new_nonterms[r.second].label = symbol_numerate(sp[2], n)
        /\ new_nonterms[r.third].label = symbol_numerate(sp[3], n)
        /\ sp # <<sp[1]>> /\ sp # <<sp[1], sp[2]>>
    BY <2>1, NumeratedOf
  <2>3. r.second \in 1 .. Len(new_nonterms) /\ r.third \in 1 .. Len(new_nonterms)
    BY <1>4 DEF RuleIndexed
  <2> QED
    BY <2>2, <2>3
<1> QED
  BY <1>2, <1>3, <1>4

\* A rule the grammar must have has been applied.
LEMMA NeededApplied ==
  ASSUME CflEnded, NEW sp, NEW n \in BlockNumbers, Needed(parsed, sp)
  PROVE  \E q \in 1 .. Len(rules) :
           /\ ExplodedSpell(rules[q]) = Numerate(sp, n) /\ RuleIndexed(rules[q])
           /\ CflPairs(rules[q]) \subseteq outputs[rules[q].first]
<1>1. PICK q \in 1 .. Len(rules) : ExplodedSpell(rules[q]) = Numerate(sp, n)
  BY DEF CflEnded, GrammarInv
<1>2. RuleIndexed(rules[q]) /\ CflPairs(rules[q]) \subseteq outputs[rules[q].first]
  BY DEF CflEnded, GrammarInv, RulesApplied
<1> QED
  BY <1>1, <1>2

\* A terminal's slots have its edges, a nonterminal's what has been found for it.
LEMMA RelationOf ==
  ASSUME CflEnded, NEW s \in SymbolNumbers, NEW n \in BlockNumbers
  PROVE  /\ InputTerm(parsed, s) => CflRelations[SlotAt(s, n)] = SlotEdges(SlotAt(s, n))
         /\ \A q \in DOMAIN outputs :
              /\ parsed.symbols[s].is_nonterm = TRUE
              /\ new_nonterms[q].label = symbol_numerate(parsed.symbols[s].label, n)
              => CflRelations[SlotAt(s, n)] = outputs[q]
<1>1. parsed \in ParserResults /\ SlotLayout /\ Clean /\ IndexOnlyOnIndexed
      /\ DOMAIN outputs = DOMAIN new_nonterms /\ DistinctLabels(new_nonterms)
  BY EndedFacts DEF CflEnded
<1> DEFINE m == SlotAt(s, n)
           Found == {l \in DOMAIN outputs :
                       \E t \in SymbolNumbers : \E b \in BlockNumbers :
                         /\ parsed.symbols[t].is_nonterm = TRUE /\ SlotAt(t, b) = m
                         /\ new_nonterms[l].label = symbol_numerate(parsed.symbols[t].label, b)}
<1>2. m \in 1 .. SlotCount
  BY <1>1 DEF SlotLayout
<1>3. CflRelations[m] = SlotEdges(m) \cup UNION {outputs[q] : q \in Found}
  BY <1>2 DEF CflRelations
<1>4. ASSUME NEW t \in SymbolNumbers, NEW b \in BlockNumbers, SlotAt(t, b) = m
      PROVE  s = t /\ symbol_numerate(parsed.symbols[t].label, b)
                        = symbol_numerate(parsed.symbols[s].label, n)
  <2>1. s = t
    BY <1>1, <1>4 DEF SlotLayout
  <2> QED
    BY <1>1, <1>4, <2>1, SlotOfLabel
<1>5. CASE InputTerm(parsed, s)
  <2>1. Found = {}
    BY <1>4, <1>5 DEF InputTerm
  <2>2. parsed.symbols[s].is_nonterm # TRUE
    BY <1>5 DEF InputTerm
  <2> HIDE DEF Found
  <2> QED
    BY <1>3, <2>1, <2>2
<1>6. ASSUME NEW q \in DOMAIN outputs, parsed.symbols[s].is_nonterm = TRUE,
             new_nonterms[q].label = symbol_numerate(parsed.symbols[s].label, n)
      PROVE  CflRelations[m] = outputs[q]
  <2>1. Found = {q}
    <3>1. q \in Found
      BY <1>6
    <3>2. ASSUME NEW l \in Found PROVE l = q
      <4>1. new_nonterms[l].label = new_nonterms[q].label
        BY <1>4, <1>6
      <4> QED
        BY <1>1, <4>1 DEF DistinctLabels
    <3> QED
      BY <3>1, <3>2
  <2>2. SlotEdges(m) = {}
    <3>1. ASSUME NEW x \in SlotEdges(m) PROVE FALSE
      <4>1. PICK k \in DOMAIN parsed.edges :
              FirstSlot[parsed.edges[k].term_index] + parsed.edges[k].index = m
        BY <3>1 DEF SlotEdges
      <4>2. /\ parsed.edges[k].term_index \in SymbolNumbers
            /\ parsed.edges[k].index \in BlockNumbers
            /\ parsed.symbols[parsed.edges[k].term_index].is_nonterm = FALSE
            /\ SlotAt(parsed.edges[k].term_index, parsed.edges[k].index) = m
        BY <1>1, <4>1, EdgeAt
      <4>3. s = parsed.edges[k].term_index
        BY <1>4, <4>2
      <4> QED
        BY <1>6, <4>2, <4>3
    <3> QED
      BY <3>1
  <2> HIDE DEF Found
  <2> QED
    BY <1>3, <2>1, <2>2
<1> QED
  BY <1>5, <1>6

\* A nonterminal in the place of a symbol has found the symbol's pairs.
LEMMA PlaceHolds ==
  ASSUME CflEnded, NEW k \in 1 .. Len(parsed.rules), NEW s \in SymbolNumbers,
         NEW n \in BlockNumbers, NEW q \in DOMAIN outputs,
         new_nonterms[q].label = symbol_numerate(NameIn(parsed, s), n),
         InputTerm(parsed, s) => Helped(parsed, parsed.rules[k], s)
  PROVE  CflRelations[SlotAt(s, n)] \subseteq outputs[q]
<1>1. parsed \in ParserResults /\ DistinctLabels(new_nonterms) /\ SlotLayout /\ Clean
      /\ IndexOnlyOnIndexed /\ PrepareInv /\ pc = "prepared"
      /\ DOMAIN outputs = 1 .. Len(new_nonterms) /\ DOMAIN new_nonterms = 1 .. Len(new_nonterms)
  BY EndedFacts DEF CflEnded
<1>2. s \in 1 .. Len(parsed.symbols)
  BY DEF SymbolNumbers
<1>3. CASE InputTerm(parsed, s)
  <2> DEFINE sp == HelperSpell(parsed, s)
  <2>1. Needed(parsed, sp)
    BY <1>2, <1>3 DEF Needed
  <2>2. PICK p \in 1 .. Len(rules) :
           /\ ExplodedSpell(rules[p]) = Numerate(sp, n) /\ RuleIndexed(rules[p])
           /\ CflPairs(rules[p]) \subseteq outputs[rules[p].first]
    BY <2>1, NeededApplied
  <2>3. /\ sp[1] = HelperLabel(parsed.symbols[s].label) /\ sp[2] = parsed.symbols[s].label
        /\ sp = <<sp[1], sp[2]>>
    BY DEF HelperSpell
  <2> HIDE DEF sp
  <2>4. /\ new_nonterms[rules[p].first].label = symbol_numerate(sp[1], n)
        /\ rules[p].second \in 1 .. Len(new_terms) /\ rules[p].third = NoSymbol
        /\ new_terms[rules[p].second].label = symbol_numerate(sp[2], n)
    BY <2>2, <2>3, FieldsOfSpell
  <2>5. rules[p].first = q
    <3>1. rules[p].first \in 1 .. Len(new_nonterms)
      BY <2>2 DEF RuleIndexed
    <3>2. new_nonterms[rules[p].first].label = new_nonterms[q].label
      BY <1>3, <2>3, <2>4 DEF NameIn
    <3> QED
      BY <1>1, <3>1, <3>2 DEF DistinctLabels
  <2>6. CflPairs(rules[p]) = SlotEdges(SlotAt(s, n))
    <3>1. CflPairs(rules[p]) = adj_matrices[rules[p].second]
      BY <2>4 DEF CflPairs, NoSymbol
    <3>2. new_terms[rules[p].second].label = symbol_numerate(parsed.symbols[s].label, n)
      BY <2>3, <2>4
    <3> QED
      BY <1>1, <2>4, <3>1, <3>2, TermMatrix
  <2>7. CflRelations[SlotAt(s, n)] = SlotEdges(SlotAt(s, n))
    BY <1>3, RelationOf
  <2> QED
    BY <2>2, <2>5, <2>6, <2>7
<1>4. CASE ~InputTerm(parsed, s)
  <2>1. parsed.symbols[s].is_nonterm = TRUE
    <3>1. parsed.symbols \in Seq(Symbol(LabelRecord))
      BY <1>1, ParsedFacts
    <3>2. parsed.symbols[s] \in Symbol(LabelRecord)
      BY <1>2, <3>1
    <3> QED
      BY <1>2, <1>4, <3>2 DEF InputTerm, Symbol
  <2>2. new_nonterms[q].label = symbol_numerate(parsed.symbols[s].label, n)
    BY <1>4 DEF NameIn
  <2> QED
    BY <2>1, <2>2, RelationOf
<1> QED
  BY <1>3, <1>4

\* What CFL has found is closed under the rules of the file.
LEMMA CflCloses ==
  ASSUME CflEnded
  PROVE  SlotClosed(CflRelations)
<1> DEFINE R == CflRelations
<1>1. parsed \in ParserResults /\ DistinctLabels(new_nonterms) /\ SlotLayout /\ Clean
      /\ IndexOnlyOnIndexed /\ PrepareInv /\ pc = "prepared" /\ OverNodes
      /\ DOMAIN outputs = 1 .. Len(new_nonterms) /\ DOMAIN new_nonterms = 1 .. Len(new_nonterms)
  BY EndedFacts DEF CflEnded
<1>2. \A slot \in 1 .. SlotCount : SlotEdges(slot) \subseteq R[slot]
  BY DEF CflRelations
<1>3. ASSUME NEW k \in 1 .. Len(parsed.rules), NEW n \in BlockNumbers
      PROVE  LET c == SlotRule(parsed.rules[k], n) IN BodyOf(R, c[2], c[3]) \subseteq R[c[1]]
  <2> DEFINE r == parsed.rules[k]
             sp == NormalSpell(parsed, r)
             a == SlotAt(r.first, n)
             b == SlotAt(r.second, n)
             d == SlotAt(r.third, n)
  <2>1. /\ r.first \in SymbolNumbers /\ parsed.symbols[r.first].is_nonterm = TRUE
        /\ r.second = NoSymbol \/ r.second \in SymbolNumbers
        /\ r.third = NoSymbol \/ r.third \in SymbolNumbers
        /\ r.second = NoSymbol => r.third = NoSymbol
    BY <1>1, ParsedFacts DEF SymbolNumbers
  <2>2. SUFFICES BodyOf(R, b, d) \subseteq R[a]
    BY DEF SlotRule
  <2>3. PICK q \in 1 .. Len(rules) :
           /\ ExplodedSpell(rules[q]) = Numerate(sp, n) /\ RuleIndexed(rules[q])
           /\ CflPairs(rules[q]) \subseteq outputs[rules[q].first]
    <3>1. Needed(parsed, sp)
      BY DEF Needed
    <3> QED
      BY <3>1, NeededApplied
  <2>4. /\ SlotAt(NoSymbol, n) = NoSymbol
        /\ \A s \in SymbolNumbers : SlotAt(s, n) # NoSymbol
    BY <1>1 DEF SlotAt, SlotLayout, NoSymbol
  <2>5. \A t : Helped(parsed, parsed.rules[k], t) <=> Helped(parsed, r, t)
    OBVIOUS
  <2> HIDE DEF r
  <2>6. sp[1] = parsed.symbols[r.first].label
    BY DEF NormalSpell
  <2>7. R[a] = outputs[rules[q].first]
    <3>1. new_nonterms[rules[q].first].label = symbol_numerate(parsed.symbols[r.first].label, n)
      BY <2>3, <2>6, FieldsOfSpell
    <3>2. rules[q].first \in DOMAIN outputs
      BY <1>1, <2>3 DEF RuleIndexed
    <3> QED
      BY <2>1, <3>1, <3>2, RelationOf
  <2> SUFFICES BodyOf(R, b, d) \subseteq CflPairs(rules[q])
    BY <2>3, <2>7
  <2>8. CASE r.second = NoSymbol
    <3>1. sp = <<sp[1]>>
      BY <2>8 DEF NormalSpell
    <3>2. rules[q].second = NoSymbol
      BY <2>3, <3>1, FieldsOfSpell
    <3>3. CflPairs(rules[q]) = Identity
      BY <3>2 DEF CflPairs
    <3>4. BodyOf(R, b, d) = Identity
      BY <2>4, <2>8 DEF BodyOf
    <3> QED
      BY <3>3, <3>4
  <2>9. CASE r.second # NoSymbol /\ r.third = NoSymbol /\ InputTerm(parsed, r.second)
    <3>1. sp = <<sp[1], sp[2]>> /\ sp[2] = parsed.symbols[r.second].label
      BY <2>9 DEF NormalSpell
    <3>2. /\ rules[q].second \in 1 .. Len(new_terms) /\ rules[q].third = NoSymbol
          /\ new_terms[rules[q].second].label = symbol_numerate(parsed.symbols[r.second].label, n)
      BY <2>3, <3>1, FieldsOfSpell
    <3>3. CflPairs(rules[q]) = adj_matrices[rules[q].second]
      BY <3>2 DEF CflPairs, NoSymbol
    <3>4. r.second \in SymbolNumbers
      BY <2>1, <2>9
    <3>5. adj_matrices[rules[q].second] = SlotEdges(b)
      BY <1>1, <3>2, <3>4, TermMatrix
    <3>6. R[b] = SlotEdges(b)
      BY <2>9, <3>4, RelationOf
    <3>7. BodyOf(R, b, d) = R[b]
      BY <2>4, <2>9, <3>4 DEF BodyOf
    <3> QED
      BY <3>3, <3>5, <3>6, <3>7
  <2>10. CASE r.second # NoSymbol /\ r.third = NoSymbol /\ ~InputTerm(parsed, r.second)
    <3>1. /\ sp = <<sp[1], sp[2], sp[3]>> /\ sp[2] = parsed.symbols[r.second].label
          /\ sp[3] = EpsLabel
      BY <2>10 DEF NormalSpell
    <3>2. /\ rules[q].second \in DOMAIN outputs /\ rules[q].third \in DOMAIN outputs
          /\ new_nonterms[rules[q].second].label = symbol_numerate(NameIn(parsed, r.second), n)
          /\ new_nonterms[rules[q].third].label = EpsLabel
      <4>1. /\ rules[q].second \in 1 .. Len(new_nonterms)
            /\ rules[q].third \in 1 .. Len(new_nonterms)
            /\ new_nonterms[rules[q].second].label = symbol_numerate(sp[2], n)
            /\ new_nonterms[rules[q].third].label = symbol_numerate(sp[3], n)
        BY <2>3, <3>1, FieldsOfSpell
      <4>2. NameIn(parsed, r.second) = sp[2]
        BY <2>10, <3>1 DEF NameIn
      <4>3. symbol_numerate(sp[3], n) = EpsLabel
        BY <3>1, NameIndexed
      <4> QED
        BY <1>1, <4>1, <4>2, <4>3
    <3>3. CflPairs(rules[q]) = Compose(outputs[rules[q].second], outputs[rules[q].third])
      BY <1>1, <3>2 DEF CflPairs, NoSymbol
    <3>4. r.second \in SymbolNumbers
      BY <2>1, <2>10
    <3>5. R[b] \subseteq outputs[rules[q].second]
      BY <2>10, <3>2, <3>4, PlaceHolds
    <3>6. Identity \subseteq outputs[rules[q].third]
      <4> DEFINE e == <<EpsLabel>>
      <4>1. Needed(parsed, e)
        BY <2>10 DEF Needed, UnitIn, r
      <4>2. PICK p \in 1 .. Len(rules) :
               /\ ExplodedSpell(rules[p]) = Numerate(e, n) /\ RuleIndexed(rules[p])
               /\ CflPairs(rules[p]) \subseteq outputs[rules[p].first]
        BY <4>1, NeededApplied
      <4>3. e = <<e[1]>> /\ e[1] = EpsLabel
        OBVIOUS
      <4> HIDE DEF e
      <4>4. /\ new_nonterms[rules[p].first].label = symbol_numerate(EpsLabel, n)
            /\ rules[p].second = NoSymbol
        BY <4>2, <4>3, FieldsOfSpell
      <4>5. rules[p].first = rules[q].third
        <5>1. rules[p].first \in DOMAIN new_nonterms /\ rules[q].third \in DOMAIN new_nonterms
          BY <1>1, <3>2, <4>2 DEF RuleIndexed
        <5>2. new_nonterms[rules[p].first].label = new_nonterms[rules[q].third].label
          BY <3>2, <4>4, NameIndexed
        <5> QED
          BY <1>1, <5>1, <5>2 DEF DistinctLabels
      <4>6. CflPairs(rules[p]) = Identity
        BY <4>4 DEF CflPairs
      <4> QED
        BY <4>2, <4>5, <4>6
    <3>7. Compose(outputs[rules[q].second], Identity) = outputs[rules[q].second]
      BY <1>1, <3>2, ComposeIdentity DEF OverNodes
    <3>8. Compose(outputs[rules[q].second], Identity)
            \subseteq Compose(outputs[rules[q].second], outputs[rules[q].third])
      BY <3>6, ComposeGrows
    <3>9. BodyOf(R, b, d) = R[b]
      BY <2>4, <2>10, <3>4 DEF BodyOf
    <3> QED
      BY <3>3, <3>5, <3>7, <3>8, <3>9
  <2>11. CASE r.second # NoSymbol /\ r.third # NoSymbol
    <3>1. /\ sp = <<sp[1], sp[2], sp[3]>> /\ sp[2] = NameIn(parsed, r.second)
          /\ sp[3] = NameIn(parsed, r.third)
      BY <2>11 DEF NormalSpell
    <3>2. /\ rules[q].second \in 1 .. Len(new_nonterms) /\ rules[q].third \in 1 .. Len(new_nonterms)
          /\ new_nonterms[rules[q].second].label = symbol_numerate(NameIn(parsed, r.second), n)
          /\ new_nonterms[rules[q].third].label = symbol_numerate(NameIn(parsed, r.third), n)
      BY <2>3, <3>1, FieldsOfSpell
    <3>3. CflPairs(rules[q]) = Compose(outputs[rules[q].second], outputs[rules[q].third])
      BY <3>2 DEF CflPairs, NoSymbol
    <3>4. r.second \in SymbolNumbers /\ r.third \in SymbolNumbers
      BY <2>1, <2>11
    <3>5. /\ InputTerm(parsed, r.second) => Helped(parsed, parsed.rules[k], r.second)
          /\ InputTerm(parsed, r.third) => Helped(parsed, parsed.rules[k], r.third)
      BY <2>5, <2>11 DEF Helped
    <3>6. R[b] \subseteq outputs[rules[q].second]
      BY <1>1, <3>2, <3>4, <3>5, PlaceHolds
    <3>7. R[d] \subseteq outputs[rules[q].third]
      BY <1>1, <3>2, <3>4, <3>5, PlaceHolds
    <3>8. BodyOf(R, b, d) = Compose(R[b], R[d])
      BY <2>4, <3>4 DEF BodyOf
    <3> QED
      BY <3>3, <3>6, <3>7, <3>8, ComposeGrows
  <2> QED
    BY <2>8, <2>9, <2>10, <2>11
<1> QED
  BY <1>2, <1>3 DEF SlotClosed, BlockNumbers


\* The adapters' state while the two of them come to their results.
ResultsInv ==
  /\ PrepareInv /\ LanguageInv /\ GrammarInv /\ FirstInv
  /\ AdvInv /\ SlotsInv /\ OutputsInv /\ ExpectedInv /\ CflInv

LEMMA ResultsInit == ASSUME AllInit PROVE ResultsInv
<1>1. Init /\ Adv!Zeroed /\ phase = "adv_prepare" /\ adv_pc = "map" /\ pc = "wcnf"
  BY DEF AllInit, Init, WCNFInit, Adv!Zeroed
<1>2. PrepareInv /\ LanguageInv
  BY <1>1, PrepareInit, LanguageInit
<1>3. GrammarInv /\ FirstInv
  BY <1>1 DEF GrammarInv, FirstInv, Exploding, Converting, TablesDone
<1>4. AdvInv
  BY <1>1, AdvFresh DEF Init, WCNFInit, Adv!Zeroed
<1>5. SlotsInv /\ OutputsInv
  BY <1>1 DEF SlotsInv, OutputsInv, OnSlots
<1>6. ExpectedInv /\ CflInv
  BY <1>1 DEF ExpectedInv, CflInv, CflRuns
<1> QED
  BY <1>2, <1>3, <1>4, <1>5, <1>6 DEF ResultsInv

LEMMA ResultsNext == ASSUME ResultsInv, [AllNext]_allVars PROVE ResultsInv'
<1>1. /\ PrepareInv /\ LanguageInv /\ GrammarInv /\ FirstInv /\ ConversionInv
      /\ AdvInv /\ SlotsInv /\ OutputsInv /\ ExpectedInv /\ CflInv
  BY DEF ResultsInv, PrepareInv
<1>2. [Next]_vars
  BY DEF AllNext, AllStep, AdvPrepare, AdvRun, AdvCleanup, Prepare, Run, AllPathAdvPrepare,
         AllPathAdvRun, MultsrcAdvPrepare, MultsrcAdvRun, TestedAdvPrepare, Compared, Next, allVars
<1>3. PrepareInv' /\ LanguageInv'
  BY <1>1, <1>2, PrepareNext, LanguageNext
<1>4. GrammarInv' /\ FirstInv'
  BY <1>1, <1>2, GrammarNext, FirstNext
<1>5. AdvInv' /\ SlotsInv'
  BY <1>1, AdvNext, SlotsNext
<1>6. OutputsInv' /\ ExpectedInv'
  BY <1>1, <1>5, OutputsNext, ExpectedNext
<1>7. CflInv'
  BY <1>1, CflNext
<1> QED
  BY <1>3, <1>4, <1>5, <1>6, <1>7 DEF ResultsInv

(***************************************************************************)
(* What each algorithm has at every step: nothing that is not in every     *)
(* family of relations on the slots that holds the edges and is closed     *)
(* under the rules of the file, and at its end a family that is closed.    *)
(***************************************************************************)
THEOREM ResultsInvariant == AllSpec => []ResultsInv
BY ResultsInit, ResultsNext, PTL DEF AllSpec

\* The start's first slot is the first.
LEMMA StartSlot ==
  ASSUME parsed \in ParserResults, SlotLayout
  PROVE  1 \in SymbolNumbers /\ 0 \in BlockNumbers /\ SlotAt(1, 0) = 1 /\ 1 \in 1 .. SlotCount
<1>1. ParserPromise(parsed)
  BY WCNFAssumption
<1>2. /\ Len(parsed.symbols) \in Nat /\ parsed.block_count \in Nat /\ parsed.block_count >= 1
  BY ParsedFacts
<1>3. 1 \in SymbolNumbers /\ 0 \in BlockNumbers
  BY <1>1, <1>2 DEF ParserPromise, SymbolNumbers, BlockNumbers
<1>4. SlotAt(1, 0) = FirstSlot[1] \/ SlotAt(1, 0) = FirstSlot[1] + 0
  BY DEF SlotAt, NoSymbol
<1>5. SlotAt(1, 0) = 1
  BY <1>4 DEF SlotLayout
<1> QED
  BY <1>3, <1>5 DEF SlotLayout

LEMMA CflAgrees ==
  ASSUME ResultsInv, phase = "compare", tested = "CFL", Clean, IndexOnlyOnIndexed
  PROVE  outputs[1] = expected
<1>1. /\ PrepareInv /\ GrammarInv /\ FirstInv /\ ExpectedInv /\ CflInv
      /\ CflRuns /\ pc = "prepared"
  BY DEF ResultsInv, CflRuns, CflInv
<1>2. /\ parsed \in ParserResults /\ SlotLayout
      /\ DOMAIN outputs = 1 .. Len(new_nonterms) /\ OverNodes /\ RulesApplied
      /\ \A Q : SlotClosed(Q) => Within(Q)
      /\ \A Q : SlotClosed(Q) => expected \subseteq Q[1]
      /\ \E Q : SlotClosed(Q) /\ expected = Q[1]
  BY <1>1 DEF CflInv, ExpectedInv, PrepareInv, ConversionInv, TableInv
<1>3. CflEnded
  BY <1>1, <1>2 DEF CflEnded
<1>4. /\ 1 \in SymbolNumbers /\ 0 \in BlockNumbers /\ SlotAt(1, 0) = 1
  BY <1>2, StartSlot
<1>5. /\ 1 \in DOMAIN outputs
      /\ new_nonterms[1].label = symbol_numerate(parsed.symbols[1].label, 0)
  <2>1. Starts(new_nonterms, StartBlock)
    BY <1>1 DEF FirstInv, TablesDone
  <2>2. new_nonterms \in Seq(Symbol(LabelRecord))
    BY <1>1 DEF PrepareInv, ExplodeInv, TablesDone, TableExploded, MapTypes
  <2>3. Len(new_nonterms) \in Nat
    BY <2>2
  <2> QED
    BY <1>2, <2>1, <2>3 DEF Starts, StartBlock
<1>6. outputs[1] \subseteq expected
  <2>1. PICK Q : SlotClosed(Q) /\ expected = Q[1]
    BY <1>2
  <2>2. Within(Q)
    BY <1>2, <2>1
  <2>3. Denotes(new_nonterms[1].label, 1)
    BY <1>4, <1>5 DEF Denotes, Name
  <2>4. outputs[1] \subseteq RelOf(Q, 1)
    BY <1>5, <2>2, <2>3 DEF Within
  <2> QED
    BY <2>1, <2>4 DEF RelOf, NoSymbol
<1>7. expected \subseteq outputs[1]
  <2>1. expected \subseteq CflRelations[1]
    BY <1>2, <1>3, CflCloses
  <2>2. parsed.symbols[1].is_nonterm = TRUE
    <3>1. ParserPromise(parsed)
      BY <1>2, WCNFAssumption
    <3>2. parsed.symbols \in Seq(Symbol(LabelRecord)) /\ 1 \in 1 .. Len(parsed.symbols)
      BY <1>2, <1>4, ParsedFacts DEF SymbolNumbers
    <3>3. parsed.symbols[1] \in Symbol(LabelRecord)
      BY <3>2
    <3> QED
      BY <3>1, <3>3 DEF ParserPromise, Symbol
  <2>3. CflRelations[SlotAt(1, 0)] = outputs[1]
    BY <1>3, <1>4, <1>5, <2>2, RelationOf
  <2> QED
    BY <1>4, <2>1, <2>3
<1> QED
  BY <1>6, <1>7

LEMMA AdvAgrees ==
  ASSUME ResultsInv, phase = "compare", tested # "CFL"
  PROVE  outputs[1] = expected
<1>1. OnSlots /\ SlotOutputs(outputs) /\ SlotClosed(outputs)
  BY DEF ResultsInv, OutputsInv, OnSlots
<1>2. /\ parsed \in ParserResults /\ SlotLayout
      /\ \A Q : SlotClosed(Q) => expected \subseteq Q[1]
      /\ \E Q : SlotClosed(Q) /\ expected = Q[1]
  BY DEF ResultsInv, ExpectedInv, PrepareInv, ConversionInv, TableInv
<1>3. PICK Q : SlotClosed(Q) /\ expected = Q[1]
  BY <1>2
<1>4. outputs[1] \subseteq Q[1]
  BY <1>1, <1>2, <1>3, StartSlot DEF SlotOutputs
<1> QED
  BY <1>1, <1>2, <1>3, <1>4

(***************************************************************************)
(* What --compute-results relies on: whichever adapter is tested, its      *)
(* preparation, and what CFL_adv has left behind, never makes its result   *)
(* another than CFL_adv's (for CFL, on clean labels).                      *)
(***************************************************************************)
THEOREM ResultsAlwaysAgree == AllSpec => []ResultsAgree
<1>1. ResultsInv => ResultsAgree
  BY CflAgrees, AdvAgrees DEF ResultsAgree
<1> QED
  BY <1>1, ResultsInvariant, PTL
=============================================================================
