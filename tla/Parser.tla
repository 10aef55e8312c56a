------------------------------- MODULE Parser -------------------------------
(***************************************************************************)
(* parser() of src/parser.c for one config row: process_grammar, the swap  *)
(* that makes the start nonterminal symbol number 0, process_graph and     *)
(* process_start_nodes, each reading its file line by line into one shared *)
(* symbol table.  A step is one iteration of a reading loop.  exit() ends  *)
(* the whole program: pc becomes "exit".                                   *)
(*                                                                         *)
(* A file is the sequence of its lines, a line the sequence of its tokens, *)
(* <<>> a blank line.  A token of the grammar is a label.  Of a graph line *)
(* the third token is `label' and the others are `nums' (<<u, v>> or       *)
(* <<u, v, index>> when it is well formed); a number token outside         *)
(* 0..SIZE_MAX stands for text parse_size_token refuses.                   *)
(***************************************************************************)
EXTENDS SymbolList, FiniteSets

CONSTANTS
  Label,     \* the strings that occur as tokens
  Count,     \* the token "Count:"
  SIZE_MAX,  \* the largest size_t
  Configs    \* the inputs: the files a config row names

File(Line) == [exists : BOOLEAN, lines : Seq(Line)]

GrammarLine == Seq(Label)
GraphLine == [nums : Seq(Int), label : Label]
StartLine == Seq(Int)

(***************************************************************************)
(* start_given: the row has a fourth column.  use_start_nodes: test.c was  *)
(* given --use-start-nodes; parser() does not see the option, and reads    *)
(* the column whenever it is there.                                        *)
(***************************************************************************)
Config ==
  [grammar : File(GrammarLine),
   graph : File(GraphLine),
   start_given : BOOLEAN,
   use_start_nodes : BOOLEAN,
   start : File(StartLine)]

ASSUME ParserAssumption ==
  /\ Count \in Label
  /\ SIZE_MAX \in Nat \ {0}
  /\ \A c \in Configs : c \in Config

VARIABLES
  config,        \* the input; never changes
  pc,            \* which loop the program is in
  grammar_line,  \* lines read so far of each file
  graph_line,
  start_line,
  symbols,       \* SymbolList
  rules,         \* Grammar.rules
  start_nonterm, \* Grammar.start_nonterm
  edges,         \* Graph.edges
  node_count,    \* Graph.node_count
  block_count,   \* Graph.block_count
  start_nodes    \* ParserResult.start_nodes

grammarVars == <<grammar_line, rules, start_nonterm>>
graphVars == <<graph_line, edges, node_count, block_count>>
startVars == <<start_line, start_nodes>>
vars == <<config, pc, symbols, grammarVars, graphVars, startVars>>

Init ==
  /\ config \in Configs
  /\ pc = "grammar"
  /\ grammar_line = 0 /\ graph_line = 0 /\ start_line = 0
  /\ symbols = <<>> /\ rules = <<>> /\ start_nonterm = NoSymbol
  /\ edges = <<>> /\ node_count = 0 /\ block_count = 1
  /\ start_nodes = <<>>

Exit == pc' = "exit" /\ UNCHANGED <<config, symbols, grammarVars, graphVars, startVars>>

-----------------------------------------------------------------------------
(* process_grammar *)

GLines == config.grammar.lines
GLine == GLines[grammar_line + 1]

ReadingGrammar ==
  /\ pc = "grammar"
  /\ config.grammar.exists
  /\ grammar_line < Len(GLines)

IsRuleLine(line) == Len(line) \in 1 .. 3 /\ line[1] # Count

GrammarBlank ==
  /\ ReadingGrammar /\ GLine = <<>>
  /\ grammar_line' = grammar_line + 1
  /\ UNCHANGED <<config, pc, symbols, rules, start_nonterm, graphVars, startVars>>

\* The table after the left-hand side is added, as a nonterminal, and after
\* the symbols of the body are, as terminals.
WithFirst(list, line) == symbol_list_add_str(list, line[1], TRUE)
WithSecond(list, line) ==
  IF Len(line) < 2 THEN WithFirst(list, line)
  ELSE symbol_list_add_str(WithFirst(list, line), line[2], FALSE)
WithThird(list, line) ==
  IF Len(line) < 3 THEN WithSecond(list, line)
  ELSE symbol_list_add_str(WithSecond(list, line), line[3], FALSE)

RuleOf(list, line) ==
  [first  |-> AddedIndex(list, line[1]),
   second |-> IF Len(line) < 2 THEN NoSymbol ELSE AddedIndex(WithFirst(list, line), line[2]),
   third  |-> IF Len(line) < 3 THEN NoSymbol ELSE AddedIndex(WithSecond(list, line), line[3])]

GrammarRule ==
  /\ ReadingGrammar /\ IsRuleLine(GLine)
  /\ symbols' = WithThird(symbols, GLine)
  /\ rules' = Append(rules, RuleOf(symbols, GLine))
  /\ grammar_line' = grammar_line + 1
  /\ UNCHANGED <<config, pc, start_nonterm, graphVars, startVars>>

\* Mutant: more tokens may follow the start nonterminal.
IsStartAtLoose(lines, n) ==
  n + 1 <= Len(lines) /\ lines[n] = <<Count>> /\ Len(lines[n + 1]) > 0

\* "Count:" alone on a line, the start nonterminal alone on the next one.
IsStartAt(lines, n) ==
  /\ n + 1 <= Len(lines)
  /\ lines[n] = <<Count>>
  /\ Len(lines[n + 1]) = 1

GrammarStart ==
  /\ ReadingGrammar /\ IsStartAt(GLines, grammar_line + 1)
  /\ LET start == GLines[grammar_line + 2][1] IN
     /\ symbols' = symbol_list_add_str(symbols, start, TRUE)
     /\ start_nonterm' = AddedIndex(symbols, start)
  /\ grammar_line' = grammar_line + 2
  /\ pc' = "swap"
  /\ UNCHANGED <<config, rules, graphVars, startVars>>

\* No file, or the end of it before "Count:".
GrammarNoStart ==
  /\ pc = "grammar" /\ ~ReadingGrammar
  /\ Exit

GrammarError ==
  /\ ReadingGrammar
  /\ GLine # <<>> /\ ~IsRuleLine(GLine) /\ ~IsStartAt(GLines, grammar_line + 1)
  /\ Exit

-----------------------------------------------------------------------------
(* grammar_swap_symbols and symbol_list_swap: the start becomes index 0 *)

Swapped(i, sym1, sym2) ==
  CASE i = sym1 -> sym2
    [] i = sym2 /\ i # sym1 -> sym1
    [] OTHER -> i

\* Mutant: the third symbol is forgotten.
grammar_swap_symbols_TwoFields(sym1, sym2) ==
  [k \in DOMAIN rules |->
     [rules[k] EXCEPT !.first = Swapped(@, sym1, sym2), !.second = Swapped(@, sym1, sym2)]]

grammar_swap_symbols(sym1, sym2) ==
  [k \in DOMAIN rules |->
     [first  |-> Swapped(rules[k].first, sym1, sym2),
      second |-> Swapped(rules[k].second, sym1, sym2),
      third  |-> Swapped(rules[k].third, sym1, sym2)]]

SwapStart ==
  /\ pc = "swap"
  /\ rules' = grammar_swap_symbols(1, start_nonterm)
  /\ symbols' = symbol_list_swap(symbols, 1, start_nonterm)
  /\ start_nonterm' = 1
  /\ pc' = "graph"
  /\ UNCHANGED <<config, grammar_line, graphVars, startVars>>

-----------------------------------------------------------------------------
(* process_graph *)

ELines == config.graph.lines
ELine == ELines[graph_line + 1]
SizeToken(t) == t \in 0 .. SIZE_MAX
Plus1Missing(n) == n  \* mutant: an id is taken for a count
Plus1(n) == (n + 1) % (SIZE_MAX + 1)
MaxOf(a, b) == IF a > b THEN a ELSE b

ReadingGraph == pc = "graph" /\ config.graph.exists /\ graph_line < Len(ELines)

IsEdgeLine(line) ==
  /\ Len(line.nums) \in {2, 3}
  /\ \A k \in DOMAIN line.nums : SizeToken(line.nums[k])

EdgeIndex(line) == IF Len(line.nums) = 3 THEN line.nums[3] ELSE 0

GraphBlank ==
  /\ ReadingGraph /\ ELine.nums = <<>>
  /\ graph_line' = graph_line + 1
  /\ UNCHANGED <<config, pc, symbols, grammarVars, edges, node_count, block_count, startVars>>

\* Mutant: the label of the edge is taken for a new one.
EdgeOfLast(list, line) ==
  [u |-> line.nums[1], v |-> line.nums[2],
   term_index |-> Len(symbol_list_add_str(list, line.label, FALSE)), index |-> EdgeIndex(line)]

EdgeOf(list, line) ==
  [u |-> line.nums[1], v |-> line.nums[2],
   term_index |-> AddedIndex(list, line.label), index |-> EdgeIndex(line)]

GraphEdge ==
  /\ ReadingGraph /\ IsEdgeLine(ELine)
  /\ symbols' = symbol_list_add_str(symbols, ELine.label, FALSE)
  /\ node_count' = MaxOf(MaxOf(node_count, Plus1(ELine.nums[2])), Plus1(ELine.nums[1]))
  /\ block_count' = MaxOf(block_count, Plus1(EdgeIndex(ELine)))
  /\ edges' = Append(edges, EdgeOf(symbols, ELine))
  /\ graph_line' = graph_line + 1
  /\ UNCHANGED <<config, pc, grammarVars, startVars>>

GraphMissing == pc = "graph" /\ ~config.graph.exists /\ Exit

GraphError ==
  /\ ReadingGraph
  /\ ELine.nums # <<>> /\ ~IsEdgeLine(ELine)
  /\ Exit

\* End of the graph file; the fourth column decides whether one more is read.
GraphEnd ==
  /\ pc = "graph" /\ config.graph.exists
  /\ graph_line = Len(ELines)
  /\ pc' = IF config.start_given THEN "start" ELSE "done"
  /\ UNCHANGED <<config, symbols, grammarVars, graphVars, startVars>>

-----------------------------------------------------------------------------
(* process_start_nodes *)

SLines == config.start.lines
SLine == SLines[start_line + 1]
IsStartLine(line) == Len(line) = 1 /\ SizeToken(line[1])
ReadingStart == pc = "start" /\ config.start.exists /\ start_line < Len(SLines)

StartBlank ==
  /\ ReadingStart /\ SLine = <<>>
  /\ start_line' = start_line + 1
  /\ UNCHANGED <<config, pc, symbols, grammarVars, graphVars, start_nodes>>

StartNode ==
  /\ ReadingStart /\ IsStartLine(SLine)
  /\ start_nodes' = Append(start_nodes, SLine[1])
  /\ start_line' = start_line + 1
  /\ UNCHANGED <<config, pc, symbols, grammarVars, graphVars>>

StartMissing == pc = "start" /\ ~config.start.exists /\ Exit

StartError ==
  /\ ReadingStart
  /\ SLine # <<>> /\ ~IsStartLine(SLine)
  /\ Exit

StartEnd ==
  /\ pc = "start" /\ config.start.exists
  /\ start_line = Len(SLines)
  /\ pc' = "done"
  /\ UNCHANGED <<config, symbols, grammarVars, graphVars, startVars>>

\* The parser has returned or the program has exited.
Finished == pc \in {"done", "exit"} /\ UNCHANGED vars

-----------------------------------------------------------------------------
Next ==
  \/ GrammarBlank \/ GrammarRule \/ GrammarStart \/ GrammarNoStart \/ GrammarError
  \/ SwapStart
  \/ GraphBlank \/ GraphEdge \/ GraphMissing \/ GraphError \/ GraphEnd
  \/ StartBlank \/ StartNode \/ StartMissing \/ StartError \/ StartEnd
  \/ Finished

Spec == Init /\ [][Next]_vars

-----------------------------------------------------------------------------
(* Properties *)

Edge == [u : 0 .. SIZE_MAX, v : 0 .. SIZE_MAX, term_index : Nat, index : 0 .. SIZE_MAX]

\* The types of the parser's data; a position in a file, and an index of a
\* symbol, is one the file or the table has.
TypeOK ==
  /\ config \in Config
  /\ pc \in {"grammar", "swap", "graph", "start", "done", "exit"}
  /\ grammar_line \in 0 .. Len(GLines) /\ graph_line \in 0 .. Len(ELines) /\ start_line \in Nat
  /\ symbols \in Seq(Symbol(Label))
  /\ rules \in Seq(Rule) /\ start_nonterm \in 0 .. Len(symbols)
  /\ \A k \in DOMAIN rules :
       /\ rules[k].first \in DOMAIN symbols
       /\ {rules[k].second, rules[k].third} \subseteq DOMAIN symbols \cup {NoSymbol}
  /\ edges \in Seq(Edge)
  /\ \A k \in DOMAIN edges : edges[k].term_index \in DOMAIN symbols
  /\ node_count \in 0 .. SIZE_MAX /\ block_count \in 0 .. SIZE_MAX
  /\ start_nodes \in Seq(0 .. SIZE_MAX)

\* The lines read so far that gave a rule: "Count:" and the line after it,
\* once read, are not rules.
RuleLinesRead ==
  LET last == IF start_nonterm = NoSymbol THEN grammar_line ELSE grammar_line - 2
  IN {GLines[n] : n \in {m \in 1 .. last : GLines[m] # <<>>}}

(***************************************************************************)
(* Every rule still stands for a line of the grammar file and every line   *)
(* for a rule, while the table grows under the indices the rules hold and  *)
(* after grammar_swap_symbols and symbol_list_swap have moved two of them. *)
(***************************************************************************)
RulesSpellTheFile ==
  /\ \A k \in DOMAIN rules :
       /\ rules[k].first \in DOMAIN symbols
       /\ rules[k].second \in DOMAIN symbols \cup {NoSymbol}
       /\ rules[k].third \in DOMAIN symbols \cup {NoSymbol}
       /\ rules[k].second = NoSymbol => rules[k].third = NoSymbol
  /\ {Spell(symbols, rules[k]) : k \in DOMAIN rules} = RuleLinesRead

(***************************************************************************)
(* A label has one symbol, and the symbol is a nonterminal exactly when    *)
(* some line read so far has the label on its left-hand side or it is the  *)
(* start: a symbol first met on a right-hand side is promoted later.       *)
(***************************************************************************)
NontermsExact ==
  /\ DistinctLabels(symbols)
  /\ {symbols[i].label : i \in {j \in DOMAIN symbols : symbols[j].is_nonterm}}
       = {line[1] : line \in RuleLinesRead}
           \cup (IF start_nonterm = NoSymbol THEN {} ELSE {GLines[grammar_line][1]})

\* From the swap on the start nonterminal of the file is symbol number 0,
\* the index whose matrix every adapter takes as the result.
StartIsFirst ==
  pc \in {"graph", "start", "done"} =>
    /\ start_nonterm = 1
    /\ symbols[1] = [label |-> GLines[grammar_line][1], is_nonterm |-> TRUE]

\* The number of edge lines among the first n.
EdgesIn(lines, n) == Cardinality({m \in 1 .. n : lines[m].nums # <<>>})

\* The k-th edge is the one of the k-th line that is not blank: its endpoints,
\* its label in the table as it is now, and its block.
EdgesSpellTheFile ==
  /\ Len(edges) = EdgesIn(ELines, graph_line)
  /\ \A n \in 1 .. graph_line : ELines[n].nums # <<>> =>
       LET e == edges[EdgesIn(ELines, n)]
           nums == ELines[n].nums
       IN <<e.u, e.v, symbols[e.term_index].label, e.index>>
            = <<nums[1], nums[2], ELines[n].label, IF Len(nums) = 2 THEN 0 ELSE nums[3]>>

(***************************************************************************)
(* The matrices built from the graph have node_count rows and block_count  *)
(* blocks: there is room for every id but SIZE_MAX, whose count does not   *)
(* fit in a size_t, and neither count is larger than the edges need.  An   *)
(* id of SIZE_MAX on one line takes no room away from the other lines.     *)
(***************************************************************************)
CountsFitEdges ==
  /\ \A k \in DOMAIN edges :
       /\ edges[k].u # SIZE_MAX => edges[k].u < node_count
       /\ edges[k].v # SIZE_MAX => edges[k].v < node_count
       /\ edges[k].index # SIZE_MAX => edges[k].index < block_count
  /\ node_count > 0 => \E k \in DOMAIN edges : node_count - 1 \in {edges[k].u, edges[k].v}
  /\ block_count # 1 => \E k \in DOMAIN edges : block_count - 1 = edges[k].index

\* The graph is that of the file, and its sizes are those of its edges.
GraphTrueToFile == EdgesSpellTheFile /\ CountsFitEdges

\* The grammar file format: rules and blank lines, then "Count:" and the start.
GrammarOK ==
  /\ config.grammar.exists
  /\ \E n \in 1 .. Len(GLines) - 1 :
       /\ GLines[n] = <<Count>>
       /\ \E s \in Label : GLines[n + 1] = <<s>>
       /\ \A m \in 1 .. n - 1 :
            GLines[m] # <<>> => GLines[m][1] # Count /\ Len(GLines[m]) <= 3
GraphOK ==
  /\ config.graph.exists
  /\ \A n \in 1 .. Len(ELines) : ELines[n].nums # <<>> =>
       /\ Len(ELines[n].nums) \in 2 .. 3
       /\ \A k \in DOMAIN ELines[n].nums : ELines[n].nums[k] \in 0 .. SIZE_MAX
StartOK ==
  /\ config.start.exists
  /\ \A n \in 1 .. Len(SLines) : SLines[n] # <<>> => \E v \in 0 .. SIZE_MAX : SLines[n] = <<v>>

(***************************************************************************)
(* The program goes on with a row only when the files it is asked to read  *)
(* are well formed, and gives up only when one of them is not.  A start    *)
(* node file nobody asked for is left out of the second half when it is    *)
(* malformed: README.md:304 says the fourth column is then ignored, the    *)
(* code reads it and exits.                                                *)
(***************************************************************************)
ExitIffMalformed ==
  LET ok == GrammarOK /\ GraphOK /\ (config.start_given /\ config.use_start_nodes => StartOK)
      ignored == config.start_given /\ ~config.use_start_nodes
  IN /\ pc = "done" => ok
     /\ pc = "exit" => ~ok \/ (ignored /\ ~StartOK)

\* Once edges hold symbol indices the table only grows: no symbol moves,
\* loses its label or changes from terminal to nonterminal.
SymbolsOnlyAppended ==
  [][(pc \in {"graph", "start"}) =>
       /\ Len(symbols') >= Len(symbols)
       /\ \A i \in DOMAIN symbols : symbols'[i] = symbols[i]]_vars
=============================================================================
