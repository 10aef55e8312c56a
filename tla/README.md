# A TLA+ model of CFG_bench

CFG_bench (`src/`) is a benchmark and test driver for context-free language
reachability: it reads a grammar and a labelled graph, brings them in the form
one of several LAGraph algorithms wants, runs the algorithm on GraphBLAS matrices
and reports a number of reachable pairs.  The algorithms are LAGraph's.  What is
CFG_bench's own, and what these modules model, is everything around them: reading
the files, normalising the grammar, numbering the symbols, laying out the
matrices, and driving an adapter through its lifecycle whatever fails.

Line numbers below are those of the files under `src/`; the C code itself is in
`src/src/`, written `parser.c:471` for `src/src/parser.c` line 471.

## 1. The system

| Component | State | Operations | Hard parts |
|---|---|---|---|
| symbol table (`symbol_list.c`) | array of symbols; label, `is_nonterm`, `is_indexed` | `symbol_list_add_str`, `_get_index_str`, `_swap`, `_split`, `symbol_numerate` | indices handed out before the table grows or is swapped; a terminal promoted to a nonterminal later |
| parser (`parser.c:440-564`, `grammar.c:72-157`) | `ParserResult`: symbols, rules, edges, counts, start nodes | `process_grammar`, swap of the start, `process_graph`, `process_start_nodes` | each loop shares the table with the next; every malformed line must end the program, no well-formed one may |
| normalisation (`grammar.c:159-245`) | rules and table in place, `terms_set` | `grammar_to_WCNF` | rules classified by a table the same loop extends; made-up names in the namespace of the input; a buffer grown once per rule |
| matrix view of a graph (`parser.c:230-437`) | none; functions of a graph and a symbol table | `explode_indices`, `get_grb_matrices_from_graph`, `minimize_graph` | the same numbering as the CFL_adv adapters' by another algorithm; one array that marks, then numbers |
| CFL adapters (`adapter_CFL_common.c`) | exploded tables, maps, rules, one matrix per terminal | `adapter_CFL_prepare_common`, `explode_indices_CFL` | `map[symbol] + block` is arithmetic on indices handed out by label lookup; one rule becomes one or `block_count` rules |
| CFL_adv adapters (`adapter_CFL_adv.c`) | slot map, matrices per slot, EWCNF rules | `adapter_CFL_adv_prepare` | offsets accumulate over indexed symbols; the same text three times, each with a state of its own |
| adapter interface (`adapters/adapter.h`) | what an adapter holds | setup, prepare, init_outputs, run, get_result, free_outputs, cleanup, teardown | the order is a comment, nothing enforces it |
| start nodes (`test.c:153-181`, `adapter_CFL_multsrc_common.c`) | shuffled array, start nodes of the row, sources of the adapter | `choose_random_start_nodes`, the expected value's key, `adapter_CFL_init_src_nodes_common` | three origins of the same array; a value cached by a run with other options; graphs without vertices |
| benchmark driver (`test.c`) | row, round, `is_hot`, `retval`, expected result, failure flag | main loop, `compute_expected_result`, test mode, `--hot` | a failed call mid-loop; two adapters that may be the same static state; an unsigned round counter that steps below zero |
| computed-results cache (`computed_cache.c`) | a CSV file, keyed by modification times | get, put | several runs, files edited meanwhile, times in whole seconds |
| pairs extractor (`pairs_extractor.c`) | flags and pointers, one output file per row | the loop and one epilogue | fourteen failing calls jump to one cleanup path |
| RSM builder (`rsm.c`) | nonterminals, terminals, one box each: states, edges, start, finals | `rsm_add_*`, `rsm_set_*`, validation, conversion to one state space | every wrong argument ends in `abort()`; states of all boxes numbered in one range |
| RSM reader (`rsm_file.c`) | the machine read so far, the current box | two passes over a text, expansion of indexed lines | boxes named before they are defined; a line becomes `block_count` lines; what it accepts the builder may still abort on |
| CFPQ_RSM and Kron adapters | the converted machine, one matrix per terminal, static from row to row | the split of the graph, then reader and conversion; cleanup | a refused row after an accepted one; nothing looks at what `prepare` returns |
| registry, results file, memory probes | a constant table; files | lookup, append | input and output; their failing calls are in the driver's model |

How they interact: `main` calls `parser` for each config row; with
`--compute-results` it asks the cache, and on a miss runs CFL_adv on the parser's
result and puts the value; then the tested adapter prepares the same result
(converting and exploding a working copy), runs, and its result is checked or
saved.  The components share the symbol table by index: a rule or an edge is a
few integers, and whoever moves a symbol must rename all of them.  This is where
most of the properties are.

What makes each part correct: the *parser* keeps every rule and edge true to its
line of the file and exits exactly on malformed input; *normalisation* keeps the
language and yields only the three forms the split expects; the *preparations*
give each symbol and block its own place and put each edge there; both
preparations of the same data lead to the same pairs, for all three CFL_adv
adapters; *start nodes* are distinct vertices and the same ones for the tested
adapter and for the value it is compared with; the *RSM adapters* find at every
call a state they can work on; the *driver* and the
*extractor* obey the adapter lifecycle, release what they hold, and never report
more than was computed; the *cache* never returns the value of other data.

## 2. The modules

| Module | Models | Composes |
|---|---|---|
| `Labels` | `symbol_create`'s `_i` test, `symbol_numerate`, the made-up names; a label is a record (number of `NON_TERMINAL#` prefixes, stem, suffix) | |
| `SymbolList` | `symbol_list.c`; indices from 1, 0 for the C value -1 | |
| `Parser` | `parser()` for one config row; a step is one iteration of a reading loop | `SymbolList` |
| `WCNF` | `grammar_to_WCNF`; a step is one iteration of either loop | `SymbolList`, `Labels` |
| `CFLPrepare` | `adapter_CFL_prepare_common` | extends `WCNF`, whose steps are its action `ConvertGrammar`, and `GraphView` |
| `CFLAdvPrepare` | `adapter_CFL_adv_prepare`, which CFL_multsrc_adv and CFL_all_path_adv repeat | `SymbolList`, `Labels` |
| `GraphView` | the public view of a parsed graph: the list of its matrices and what they stand for, and `minimize_graph`; functions, no state | `SymbolList`, `Labels` |
| `Adapters` | a `--compute-results` row: CFL_adv, then CFL, CFL_all_path_adv or CFL_multsrc_adv on the same data, then the comparison | extends `CFLPrepare`, instantiates `CFLAdvPrepare` |
| `StartNodes` | several runs of the program on one graph: the start nodes of a row, `choose_random_start_nodes`, the key of the expected value, the sources of the multiple-source adapters and their count | |
| `AdapterLifecycle` | the abstract specification: the order of calls of `adapter.h:12-41` | |
| `BenchDriver` | `main` of `test.c`: a step is one call with the code up to the next | implements `AdapterLifecycle`, twice |
| `PairsExtractor` | `main` of `pairs_extractor.c` with its epilogue | implements `AdapterLifecycle` until a release fails |
| `ComputedCache` | get and put of overlapping runs of the program, and edits of the files | |
| `RSM` | `rsm.c`: the machine as a record, one operator per function; a check that calls `abort()` yields status `aborted` | `SymbolList`, `Labels` |
| `RSMFile` | `rsm_from_file`, `rsm_from_text`, and the conversion the adapters call on its result; a step is one line of one of the two passes | extends `RSM`, whose operators it calls |
| `RSMAdapter` | CFL_Kron and CFL_CFPQ_RSM as the driver calls them over the rows of a configuration, their static state | extends `RSMFile`, whose steps are its prepare |
| `SymbolList_proofs`, `Parser_proofs`, `Adapters_proofs`, `StartNodes_proofs`, `RSMAdapter_proofs`, `BenchDriver_proofs`, `PairsExtractor_proofs`, `ComputedCache_proofs` | theorems (section 5) | |
| `MC*` | instances for TLC; `MCInputs` builds parser results the way the parser does | |

The variables have the names of the C variables they stand for (`symbols`,
`terms_set`, `map_terms`, `rules_capacity`, `is_hot`, `retval`, ...) and the
actions those of the C functions or of the branch they take.  Loop counters start
at 1 instead of 0, as do symbol indices and matrix slots.  `free` and `malloc`
are modelled where a property is about them: in `BenchDriver` and
`PairsExtractor` as what is held, in `WCNF` and `CFLPrepare` as the capacity of
`terms_set` and of the rule buffer.

In `RSMFile` a line is a record: which of the forms `[box ...]`, `start:`,
`final:`, transition, blank or comment, or none of them it has, and its tokens.
A `final:` line may have no tokens (`final: ,`).

A file is a sequence of lines and a line a sequence of tokens; splitting a line
at spaces, and the 1024-byte line buffer, are left out.  A number that
`parse_size_token` refuses is any integer outside `0..SIZE_MAX`; `Plus1` wraps at
`SIZE_MAX` as the C addition does.  A matrix is the set of its entries.  The two
LAGraph algorithms, in `Adapters`, are external: they are modelled by what their
callers rely on, the least relations closed under the rules.  In `StartNodes` the
algorithm gives the pairs that begin at a source and refuses a source that is no
vertex, in `RSMAdapter` it succeeds or fails.

`WCNF`, `CFLPrepare` and `CFLAdvPrepare` start from a parser's result.  What they
may assume of it is `ParserPromise`, checked for every input by the assumption
`WCNFAssumption`, and its parts about symbols and rules are what the parser is
shown to establish.

The operators marked "mutant" next to a definition are plausible bugs in the code
it models.  Nothing uses them; they document which slip each property would
catch.

## 3. The runs

| Run | Question | Instance and bounds |
|---|---|---|
| `parser` | do rules, symbols and edges stay true to the files, and does the program go on with well-formed files only and exit only on malformed ones? | 75 good grammars of two rules with either nonterminal or a terminal as the start, 5 with a blank line and text after the start, 7 malformed ones; 4 good and 4 malformed graphs; 4 start node files, missing files, each with and without `--use-start-nodes`; ids up to `SIZE_MAX` = 3, also together with others |
| `wcnf_overflow` | does every write to `terms_set` stay inside? No (section 6) | one rule with one terminal, eight with two |
| `cfl_plain_index` | is an index on a plain label ignored? No (section 6) | one rule, two edges |
| `adapters` | is every rule brought in normal form and the language kept; do split, explosion, matrices and minimising change what any rule or edge means; do the slots of CFL_adv tile its array, are they those of the public view; and do CFL, CFL_all_path_adv and CFL_multsrc_adv compute the pairs CFL_adv does? | two kinds of first rule and any two of 9 lines, start plain or indexed, 5 graphs of none to three blocks; a rule with two nonterminals and any two of 9 lines with unit rules, two terminals, the empty word and recursion through the index, four graphs with cycles and two or three blocks; every three of 11 lines in which no labels clash; 16 and 33 rules of one terminal |
| `start_nodes` | are random start nodes distinct, and is each verdict about the sources the adapter was given? | two runs of any two of the accepted option sets, graphs of none, one and four vertices, files with no vertex, one twice and one outside the graph, 10, 60 and 100 percent, four sequences of `rand_r` |
| `bench` | lifecycle, rounds, verdicts, leaks, termination | every combination of options, zero to two rows of one or two rounds, any call may fail at any time, also the two whose codes are dropped, the tested adapter may be the reference |
| `rsm_file` | does a text become the machine it spells and the matrices of that machine, which texts are refused or abort, and is the adapters' state fit for every call? | 15681 files of one or two boxes: `start:` before the boxes or not, a body of three lines out of 14, indexed states and labels, a label that is a block of an indexed one, boxes defined later, twice, or named like a label of the graph; no block count, or two blocks; then, for both adapters, every three rows of five files: two machines, one without labels, a missing file, a box without final states |
| `rsm_cleanup` | does cleanup free everything, for every sequence of rows? No (section 6) | both adapters, every three of the five files of the last part of `rsm_file` |
| `bench_failed_run` | is what is saved always the result of a run that worked? No (section 6) | only `run` may fail |
| `cache` | is a reused value always that of the data read? | two overlapping runs, two files, an edit of each, also two within a second, six lines |
| `cache_race` | the same when a file is edited during a run: no (section 6) | one run, one edit |
| `extractor` | releases, files written, lifecycle | zero to two rows over three paths, two of them with the same name; any call may fail |

Why the bounds are enough.  The parser and the preparations treat symbols alike
but for nonterminal/terminal, indexed/plain, first/other and first seen/seen
before; the inputs have every combination of these in rules of each length.
Three rules allow a symbol that is used, defined and used again.  Two blocks are
the least that tell "the same block in all symbols of a rule" from "some block",
and three that tell a stride from an offset.  `terms_set` is started from its
capacity in the code, 16, and grown twice.  Two rows and two rounds are the least
in which state of the row or round before can leak into the next, and the driver
keeps nothing else between them.  In `ComputedCache`, `MaxVersion` and `MaxLines`
cap edits and lines: six lines are two, one for each run, for each of the three
states the files pass through.  Two runs in `StartNodes` (`MaxRuns`) are one that
fills the cache and one that reads it.  Three rows in `RSMAdapter` are one that is
accepted, one that is refused, and one that follows.  Grammars in which labels clash
(`Clashes` in `MCAdapters`) are not in the instance: LAGraph would be given symbols that
are not there.  `PrepareTypes` is about them, too.

What the properties say, beyond types:

- `RulesSpellTheFile`: indices into a table that grows and is
  swapped still spell the lines they were made from.  `NontermsExact`: promotion
  happens exactly when some line read so far calls for it.  `StartIsFirst`: the
  start is symbol 0, which every adapter reports.  `SymbolsOnlyAppended`: after
  the first edge no symbol moves or changes.  `GraphTrueToFile`: the k-th edge spells
  the k-th line that is not blank, and the counts cover every id but `SIZE_MAX`, whose
  count wraps to 0, and no more; an id of `SIZE_MAX` on one line takes nothing from the
  other lines.  `ExitIffMalformed`: compared with a separate statement of the file
  formats; it claims nothing about a malformed start node file that nobody asked for
  (section 6).
- `InNormalForm`, `LanguageKeptUnlessClash`: unfolding the symbols the conversion
  added gives the rules of the file back.  `InputSymbolsFixed`: no classification
  a rule was passed on goes stale.
- `SplitKeepsSpelling`; `IndicesExploded`: the blocks of a symbol are consecutive
  and shared with no other, and the exploded rules are the rules with each block
  number put in; `MatricesMatchGraph`, `RuleBufferInBounds`.
- `MinimizedIsomorphic`: the small graph is the graph seen through a one-to-one map
  of the vertices that have an edge.
- `AdvSlotsTile`: no slot of CFL_adv is shared or left over.  `ViewIsTheSlots`: the
  public view has the same matrices in the same order, each holding what its entry
  says, although it numbers them by another algorithm.
- `ResultsAgree`: a verdict "[Wrong]" of `--compute-results` is never the fault of
  the preparation, whichever of three adapters is tested.
- `RandomStartDistinct`: a percentage takes as many distinct vertices as it says,
  one at least.  `VerdictsRight`: the expected value, computed now or found in the
  cache of a run with other options, is that of the sources the adapter was given,
  and each early end has the cause the code gives for it.
- `LifecycleObeyed`: the driver implements `AdapterLifecycle` for the tested
  adapter and, at the same time, for the reference, under the refinement mapping
  `LifeOf`, which reads the abstract state off what the adapter holds; anything
  held twice maps to a state the abstract specification does not have.  Calls count
  whatever they return: a `prepare` that failed is a `prepare`, since `main` goes on.
- `RoundsSavedOnce`, `VerdictsHonest`: after a `prepare` that failed, a round or a
  verdict is about no data at all, never about another row's, unless a cleanup whose
  code was dropped has kept those.  `NothingHeldAtReturn`: nothing but that is left.
- `ReleasedOnce`; `SuccessMeansWritten`, for rows whose file is no other row's
  (section 6).
- `ValueFreshIfQuiet`, `ComputedOnce`.
- `BoxesSpellTheFile`: after each line the boxes are what a separate reading of the
  lines so far says.  `MatricesSpellTheFile`: decoded by name, the matrices hold
  the transitions of the file and no others, and matrix *t* is that of label *t*
  of the graph.  `OutcomeIsTheFiles`: a text is refused exactly when a statement of
  the format as a whole refuses it, and of all checks in `rsm.c` that abort the
  reader can run into one only, a box without final states (`rsm.c:381`).
- `StateFitForCalls`: the calls after an accepted row find that row's machine and as
  many matrices of its graph as the machine has terminals, whatever earlier rows left;
  those after a refused row find no matrices, and CFL_Kron no machine, so that its
  cleanup always comes to its end.  What CFL_CFPQ_RSM's does is `CleanupFreesAll`
  (section 6).

The conditions under which some of these are claimed are stated as operators:
`NoClash` (no label of the input is one the conversion makes up),
`NoNumberedLabel` (no label reads like a block of an indexed one),
`IndexOnlyOnIndexed` (only `_i` labels are given an index) and `EdgesOnTerminals`
(README.md:247).  Section 6 says what happens without them.

## 4. Fairness

Two specifications state fairness: that of `Adapters`, for `ComparisonReached`
(the conversion does not read the rules it appends again, the explosion ends, both
closures reach a fixed point), and that of `BenchDriver`, for `Terminates` (the hot
round, which decrements the round counter, is not repeated for ever).  Both are one
sequential thread: from any state one next step is possible but for the outcome
of calls, and the operating system runs the thread.  So it is weak fairness of
the step relation and nothing stronger.  The other modules have no liveness
property and no fairness.  TLC still checks them for deadlock: a self-loop after
the last step (`Finished`, `Prepared`, `Compared`) stands for the program being
over, so a state that is neither over nor has a next step is an error.
`ComputedCache` may stop anywhere: a user need not run or edit anything.

## 5. What is proved

All theorems are proved with TLAPS, for every value of the constants: any set of
labels, any `SIZE_MAX` above 0, files, grammars and graphs of any length and
number, any percentage, any answers of `rand_r`.  The assumptions are those the
modules name: `ParserAssumption` and `StartNodesAssumption` (the constants have
their types), `AdapterRunsAssumption`, `WCNFAssumption` (what the parser promises;
its first part is what `Parser` is shown to establish), `EdgesOnTerminals`;
`DriverAssumption` and `ExtractorAssumption` (types again); `CacheAssumption` (the
list of files has no file twice); `RSMAssumption` (a machine file is a sequence of the
lines the `parse_*` functions tell apart, for a graph whose labels are distinct, as the
parser's are).  Every invariant and every action property of the
passing runs is a theorem, but for liveness.  `DriverAssumption` also says that
what `get_result` returns is neither of the two marks for "no value" and "not run".
The theorems about the driver hold whichever calls fail, `prepare` and the cleanup of
test mode, whose codes `test.c` drops, included.

A theorem of the library that takes an operator as a parameter cannot be instantiated by
the provers, the induction theorems among them.  Three things take their place.
`LeastElement` (less-than on the naturals is well founded) gives the least number with a
property; a history that is unique is argued about by the first place where two of them
differ (`LeastNat`, in `StartNodes_proofs`).  `Induction` is induction for a set: a set
that has 0 and, below N, with a number the next one, has all of 0 .. N.  And what a
recursive function or a fold computes is shown by exhibiting its run, a function with
the value after each step (`FlatRun`, `OffsetRun`): the recursive definition chooses
the function with these equations, induction gives that there is one and that two of
them agree.

`SymbolList_proofs` is about the operators of the table.  `GetIndexFindsLabel`
says that a lookup returns the first symbol with the label; the least index comes
from the library's theorem that less-than on the naturals is well founded
(`LeastElement`), not from induction.  `AddStr` gives the whole effect of
`symbol_list_add_str` as the predicate `IsAdded`; `AddStrKeepsDistinct` says a
label never gets a second symbol; `SwapExchanges` and `SwapKeepsDistinct` are
about the swap.  `FlattenLaysOut` is about the concatenation of a sequence of sequences
(the states of all boxes, the blocks of all symbols): with any function that says where
each part starts, an element of a part is found that much further on, and nothing else is.

`Parser_proofs` proves the invariant `IndInv == Typed /\ TableInv /\ StartInv`.
`Typed`, the plain types, is inductive alone, but the properties are not: `TypeOK`
also has every index in the table and every counter in its file (`TypesImplied`); that
the rules spell the file survives a swap only if every index of every rule is inside
the table, that the swap puts the start first needs to know where the start was added,
and that promotion is exact needs labels to be distinct. `TableInv` has these for
every state and `StartInv` says where the start is in each phase. The argument per
action: blank lines move a line counter only (`LineRead`); a rule line makes the table
grow (`Grown`: labels and nonterminals stay), rules spell the same in a grown table
(`SpellInGrown`), and the new rule spells its line (`RuleAdded`); the swap renames in
rules what it exchanges in the table (`SwapSpells`); an edge line appends at most one
terminal (`GraphEdgeSymbols`); all other actions leave table, rules and start alone
(`TableUnchanged`).

For the two other files `GraphInv` says that the edges are those of the lines read, in
order (`EdgesInCounts`: each line that is not blank adds one), and that the counts cover
them, `ReadInv` what each loop has passed, and what the phase
then implies (a graph is read only after a grammar that is accepted, an exit was
called only when some file is not).  `ExitIffMalformed` follows at both ends: the
statement of the formats is about whole files, the loops look at one line at a time.

`Adapters_proofs` is about the whole of `CFLPrepare`, and the CFL_adv side of `Adapters`.
The invariant of the preparation, `PrepareInv`, follows its phases.  `ConversionInv`
has three parts.
`TableInv`: the table is the parser's with nonterminals appended and, without a
label clash, its first symbols are the parser's unchanged.  This is what makes
classifying a rule while the table changes sound: a symbol that was a terminal
when a rule was passed on is one at the end.  `TermsInv`: `terms_set` holds
terminals of the input.  `RulesInv`: the rules the loop has passed are in normal
form, the ones before it are still the parser's.  One lemma per action
(`UnitRuleStep`, `OneTermRuleStep`, ...) rests on `TableStep`, the effect of one
call of `symbol_list_add_str` with a made-up label, which comes from `AddStr`.
`TermsSetInBoundsSingle` is a part of the invariant because the capacity check
uses equality: it is right only while at most one entry is added per check.
`BufferInv` is the invariant of the exploded rules' buffer: a rule has at most
`block_count` copies and the capacity is at least what has been written.

The rest of `PrepareInv` says where everything comes from.  `NamesInv`: labels stay
distinct, clash or no clash.  `PartsInv`: each symbol of the table is in the part of
its kind, in order (`Placed`), so a split rule is spelled as before
(`SplitSpellingKept`).  `ExplodeInv`: the blocks of the symbols passed follow one
another (`BlocksOfTable`); an explosion calls `symbol_list_add_str`, which would merge
equal labels, so this holds only if no block is spelled like another symbol
(`NumeratesApart`, from `NoNumberedLabel`).  `EdgesInv`: each edge is the file's with
its label looked up in the part, then in the blocks.  `NewRulesInv`: the copies of a
rule are there once per block and in no other form (`CopiesOf`), `MatricesInv` the same
for the matrices.  `ExplosionFaithful` and `MatricesAreTheGraph` read the properties off
these at the end, and neither follows without the whole chain.

`LanguageInv` is the invariant behind `LanguageStaysUnlessClash`.  While the loop runs
it accounts for every symbol added so far: EPS, or the helper of an entry of `terms_set`
(`AddedOK`); a rewritten rule has, in the place of a symbol of the file, that symbol or
its helper (`RuleKept`).  Afterwards `TailOK` says which rule each appended one is.  So
an added symbol has a rule, because what asked for it is in the flag or in `terms_set`,
and no second body, because helpers of different terminals and EPS are different
symbols (`MadeUpApart`: `HelperLabel` is injective, labels are distinct, `NoClash`
keeps EPS apart).  A terminal that is in `terms_set` many times gets as many equal
rules, which is why the property speaks of bodies.

`MinimizedGraphIsomorphic` needs no invariant: the rank of a vertex among those with an
edge is its new number, ranks grow with the vertex, and a one-to-one map of a finite
set into an interval of the same size covers it (`RanksAreAnInterval`).

For CFL_adv, the slots handed out so far end where the next symbol's begin, and every
slot before it belongs to some symbol (`Tiled`); `AdvInv` holds in the composition
`Adapters`, whose other steps leave the map alone.  `SlotsInv` adds that, once CFL_adv has
run, its matrices are those of the edges of the file, one per slot.  The view of a library
user is a concatenation, so `FlattenLaysOut` says which entry is at which place
(`IndicesLaidOut`), and the first place of a symbol is what the map has for it
(`FirstIsMap`); a place then belongs to one symbol and one block (`SlotOfOne`), and an edge
is in the matrix of its place and no other (`InItsMatrix`).  That is `ViewIsSlots`.

`ResultsAlwaysAgree` compares two algorithms of which the model has one step each, that
adds the pairs of one rule for every rule at once, until nothing is new.  The common
measure is a family of relations, one per slot, that holds the edges and is closed under
the rules of the file in every block (`SlotClosed`).

- CFL_adv and the two adapters like it work on the slots.  What they have found is within
  every such family (`OutputsInv`), and where they stop it is one, so what is compared
  with is the start's relation in the least one (`ExpectedInv`).
- CFL works on other symbols and other rules.  `GrammarInv` follows the grammar through
  the conversion, the split and the explosion by what its rules say: each is a rule of the
  file in one of the forms the conversion gives it (`FromFile`), and the ones needed to
  derive what a rule of the file derives are all there (`Needed`), in every block.
  `FirstInv` says that the start is still the first nonterminal.  A label then stands for
  one slot, or for the empty word (`Denotes`; that it is at most one is `DenotesOne`, and
  needs labels that do not clash, `Clean`).
- CFL's relations stay within every `SlotClosed` family (`Within`), since a rule of the
  exploded grammar adds only pairs that the rule of the file it stands for adds.  Where it
  stops, the relations it has found, laid out on the slots with the edges
  (`CflRelations`), are such a family, since a rule of the file is undone by the rules of
  its helpers.  So both have the least one.

Without the first half of the third point CFL could find too much, without the second too
little; a copy of a rule that is missing breaks one, a label that is merged the other.

`StartNodes_proofs`: the shuffled array stays a sequence of distinct vertices,
because what is drawn is a place not yet settled (`DrawnInArray`) and a swap keeps
distinctness (`SwapKeepsDistinct`); a percentage of n is at most n.  `VInv` is for the
verdicts: after each step of a run what it holds is what its options ask for, and a
line of the cache holds the value of the start nodes its key stands for.  For random
start nodes this needs that the key determines them: a shuffle of the same graph with
the same answers of `rand_r` goes through the same arrays, so two histories cannot
differ for a first time.

`RSMAdapter_proofs`: between two rows the matrices are gone and CFL_Kron's machine
is, too; while a row is worked on they are the row's, or the row was refused and they
are as they were between the rows.

The rest of it is about the reader, for files of any length.  `ReaderInv` is inductive;
its parts are that of `MachineFits` (every index is in its list, labels are distinct),
`Reading` (what the machine says is what the lines read so far say) and the verdict: a
file is refused only when it is not well formed as a whole (`GoodFile`), and at the end
it is.  `Reading` is why the properties alone are not inductive.  That a box spells its
lines (`BoxSpells`) is kept by the next line only if the boxes are those of the headers
of the whole file, which the first pass has collected (`Collected`), so that a label is
a box's or a terminal's for good; and a refusal is the file's fault only if all lines
before are known to be in order (`SoFarGood`), since a transition is refused for one of
an earlier line.  `TermsKept`, that the labels of the graph keep their numbers, is for the
matrices.  `add_line` is a loop over the blocks: `BlocksAdded` and `BlocksRefused` say what
the machine has after n of them, or which two transitions clash, and `LineAdds` what a
whole line adds to what the file has said.  So `ReaderSpells`, `ReaderTyped`
and `ReaderOutcome` follow.  For the matrices, the states of a box come after those of the
boxes before it (`OffsetsAgree`: the offset that `rsm_convert_to_lagraph` counts up is the
place in the concatenation), no two boxes share a state, and a transition between two
states of a box is in the matrix of its label at those places (`MatricesSpell`).

`BenchDriver_proofs`: what has been called of each of the two adapters follows from the
place `main` is at (`LifeInv`, with `InputsHeld`, `FreshHeld` and `RanHeld` for the
places), and with it, but for calls that failed, what they hold (`HeldInv`);
the two may be one adapter, and then the reference's call has returned what it
took before the tested one begins.  So the abstract state of `AdapterLifecycle` follows
from the place as well, and a step of the driver changes it by at most one call
(`LifeStep`).  `VerdictInv` says what the log of verdicts holds (`LogInv`) and what
the variables of the row at hand say about the verdict to come (`PlaceInv`).
`RoundsInv` counts: the number of rounds in the results file is that of the rows before
plus those of this row (`CountInv`), so which round of which row comes next follows
from it, and none is saved twice or left out; `RunsInv` says how many runs the round
has seen, which is what keeps a cold run out of the file with `--hot`.

`PairsExtractor_proofs`: in the loop the flags follow from the place and tell the
truth about what is held; the jump to the epilogue (`Jump`) keeps that, and each
step of the epilogue ends it for one thing only, so it releases what is there and
nothing twice (`HeldInv`).  The epilogue goes back the way the loop came because
the flags nest (`FlagsNest`).  For the files, `DiskInv` says that the rows before
the current one are on disk, but for the file being written, which fopen has
emptied also for earlier rows with the same name.

`ComputedCache_proofs`: the cache compares times, not versions, so what is needed is
that the two change together.  `IInv` says that, as long as edits are quiet, a file has
the time a line of the cache was stored under exactly if it has the version the value
was computed from (`InStep`), also for files edited since; and a run under way has
read what the files hold (`ReadsPresent`).

| Theorem | Property | Run |
|---|---|---|
| `ParserInvariant` | `IndInv` | |
| `ParserTypeCorrect` | `TypeOK` | `parser` |
| `RulesFaithful` | `RulesSpellTheFile` | `parser` |
| `NontermsFaithful` | `NontermsExact` | `parser` |
| `StartFirst` | `StartIsFirst` | `parser` |
| `SymbolsStay` | `SymbolsOnlyAppended` | `parser` |
| `ReadingInvariant` | `GraphInv`, `ReadInv` | |
| `GraphFaithful` | `GraphTrueToFile` | `parser` |
| `ExitVerdictRight` | `ExitIffMalformed` | `parser` |
| `ConversionInvariant` | `ConversionInv` | |
| `ConversionNormalForm` | `InNormalForm` | `adapters` |
| `TermsSetStaysInBounds` | `TermsSetInBoundsSingle` | `adapters` |
| `InputSymbolsStay` | `InputSymbolsFixed` | `adapters` |
| `RuleBufferStaysInBounds` | `RuleBufferInBounds` | `adapters` |
| `PrepareInvariant` | `PrepareInv` | |
| `PrepareTypes` | `TypeOK` | `adapters` |
| `LanguageInvariant` | `LanguageInv` | |
| `LanguageStaysUnlessClash` | `LanguageKeptUnlessClash` | `adapters` |
| `SplitSpellingKept` | `SplitKeepsSpelling` | `adapters` |
| `ExplosionFaithful` | `IndicesExploded` | `adapters` |
| `MatricesAreTheGraph` | `MatricesMatchGraph` | `adapters` |
| `MinimizedGraphIsomorphic` | `MinimizedIsomorphic` | `adapters` |
| `AdvInvariant` | `AdvInv` | |
| `AdvSlotsTileAlways` | `AdvSlotsTile` | `adapters` |
| `StartNodesInvariant` | both of the next two | |
| `StartNodesTyped` | `TypeOK` | `start_nodes` |
| `StartNodesDistinct` | `RandomStartDistinct` | `start_nodes` |
| `VerdictsAlwaysRight` | `VerdictsRight` | `start_nodes` |
| `SlotsInvariant` | `SlotsInv` | |
| `ViewIsSlots` | `ViewIsTheSlots` | `adapters` |
| `ResultsInvariant` | `ResultsInv` | |
| `ResultsAlwaysAgree` | `ResultsAgree` | `adapters` |
| `RSMAdapterInvariant`, `RSMStateFit` | `StateFitForCalls` | `rsm_file` |
| `ReaderInvariant` | `ReaderInv` | |
| `ReaderTyped` | `TypeOK` | `rsm_file` |
| `ReaderSpells` | `BoxesSpellTheFile` | `rsm_file` |
| `ReaderOutcome` | `OutcomeIsTheFiles` | `rsm_file` |
| `MatricesSpell` | `MatricesSpellTheFile` | `rsm_file` |
| `DriverInvariant` | `LifeInv` | |
| `DriverHoldsNothing` | `NothingHeldAtReturn` | `bench` |
| `DriverObeysLifecycle` | `LifecycleObeyed` | `bench` |
| `DriverVerdictsHonest` | `VerdictsHonest` | `bench` |
| `DriverTyped` | `TypeOK` | `bench` |
| `DriverSavesRoundsOnce` | `RoundsSavedOnce` | `bench` |
| `ExtractorInvariant` | `HeldInv` | |
| `ExtractorReleasesOnce` | `ReleasedOnce` | `extractor` |
| `ExtractorObeysLifecycle` | `LifecycleObeyed` | `extractor` |
| `ExtractorSuccessMeansWritten` | `SuccessMeansWritten` | `extractor` |
| `CacheInvariant` | `IInv` | |
| `CachedValueFresh` | `ValueFreshIfQuiet` | `cache` |
| `NothingComputedTwice` | `ComputedOnce` | `cache` |

Only model-checked: liveness (`ComparisonReached`, `Terminates`), which is out of the
prover's reach.  The theorems say nothing of termination: `ResultsAlwaysAgree` is about
the state in which the pairs are compared, and that it is reached is checked by TLC.

One attempt at a proof failed for a reason.  `NoNumberedLabel` used to look at the
labels of the input alone.  The blocks of a helper are labels as well: with two
blocks, a rule `S b_i b_i` and an input nonterminal `NON_TERMINAL#b_1`, block 1 of the
helper of `b_i` is that nonterminal, although no label clashes and none is a block of
another, and `IndicesExploded` fails.  The condition now covers the made-up labels.

## 6. Where the code and its documents part

Five runs end in a counterexample:

- `wcnf_overflow`: `terms_set` is grown by `if (size == capacity)` once per rule
  (`grammar.c:188`), but a rule of two terminals appends two entries, so with an
  odd fill the second one is written past the allocation (`grammar.c:206`).
- `cfl_plain_index`: `explode_indices_CFL` adds the index of an edge to the matrix
  number of any label (`adapter_CFL_common.c:152`), also of one without `_i`;
  `README.md:248` and `parser.c:249` give it a meaning for `_i` only.
- `bench_failed_run`: in benchmark mode the outcome of `run` is not looked at
  before `get_result` and the line of the results file (`test.c:484`), although
  `test.c:431` says the outputs are not valid after a failed run.
- `cache_race`: `computed_cache_put` takes the modification times anew
  (`computed_cache.c:72`), so an edit between parsing and put stores the old value
  under the new times.
- `rsm_cleanup`: the cleanup of CFL_CFPQ_RSM does not free the machine, although the
  comment above it says "free all resources" (`adapter_CFL_CFPQ_RSM.c:183`).  In the
  counterexample a row whose machine is accepted leaves it behind; the next row is
  refused, and cleanup walks as many matrices as the old machine has terminals over an
  array that is not there.

Met while modelling, without a run of their own:

- `README.md:304` says that without `--use-start-nodes` the fourth column is ignored.
  `parser()` opens and reads the file whenever the column is there (`parser.c:486`), and
  a missing or malformed one ends the program.  `Parser` does as the code does;
  `ExitIffMalformed` takes neither side, that is, it demands neither the exit nor that
  the program goes on when such a file was not asked for;
- a label like `b_1` of the input becomes one symbol with block 1 of `b_i`
  (`adapter_CFL_common.c:76`; `README.md:148` says numeric suffixes stay part of
  the label).  Hence `NoNumberedLabel`;
- a terminal named `EPS` shares its helper with the nonterminal of the empty word
  (`grammar.c:219`).  Hence `NoClash`;
- the return code of `prepare` is dropped (`test.c:403`), and in test mode that of
  `cleanup`.  After a failed `prepare` the driver makes all the other calls, in the
  order of `adapter.h` but on an adapter without data, and prints or saves what they
  give: `bench` has both calls fail at any time;
- CFL_adv adds the index of an edge to the slot of any label too
  (`adapter_CFL_adv.c:39`), as CFL does (`cfl_plain_index`).  Hence
  `IndexOnlyOnIndexed` in `ViewIsTheSlots`;
- `README.md:344` says that the extractor creates one file per row.  Two rows whose
  grammars and graphs have equal base names get one file (`pairs_extractor.c:203`), the
  later row's pairs replace the earlier one's, and the exit status is success.
  `SuccessMeansWritten` claims nothing for such rows.

## 7. Not modelled

- The algorithms of LAGraph and GraphBLAS themselves: code of other projects, here
  external operators.  So the optimisation flags of the CFL_adv adapters, which
  choose an implementation inside LAGraph, and what CFL_single_path and CFL_all_path
  compute beyond pairs (heights, paths), have no state to model.
- The reader of the config table (`parser.c:567-628`): a split of text into columns,
  below the token level of this model; its rows are inputs.  Its use of `strtok`
  takes two commas in a row for one, so an empty third column shifts the fourth.
- The character level of lines elsewhere (a line of more than 1023 bytes is read as
  two), the text of messages and the printing functions of `rsm.c`.
- The parsing of command-line options (the sets of options it accepts are inputs of
  `BenchDriver` and `StartNodes`), the registry, which is a constant table, and the
  copying of pairs in `get_reachable_pairs` and their sorting in the extractor.
- The results file, timing and the memory probes: pure output.  Their failing calls
  are in `BenchDriver`.

What could be added: the columns of the config table as tokens, so that the shift of a
column becomes a property; and an arrangement of the rules of LAGraph's fixpoint other than
one round over all of them at a time.
