----------------------------- MODULE StartNodes -----------------------------
(***************************************************************************)
(* The start vertices of the multiple-source algorithms, in src/test.c and *)
(* the adapters CFL_multsrc, CFL_multsrc_adv and CFL_CFPQ_RSM: where they  *)
(* come from (every vertex, the file of the config row, or a random part   *)
(* of the graph), the value CFL_adv gives for them, the line of the cache  *)
(* it is kept in, and the sources the tested adapter hands to LAGraph.     *)
(*                                                                         *)
(* The program is run several times on one graph and grammar, with         *)
(* --compute-results and different options, so that a run may find what    *)
(* another one has put in the cache.  An array of the C code is a sequence *)
(* with its indices plus one.                                              *)
(***************************************************************************)
EXTENDS Integers, Sequences, FiniteSets

CONSTANTS
  Graphs,        \* [node_count, pairs]: the pairs the start nonterminal derives
  StartFiles,    \* path -> the vertices of the start node file
  CommandLines,  \* the options and the config row of a run
  Rands,         \* what rand_r may give from RANDOM_START_NODES_SEED on
  MaxRuns        \* bound: the runs of the program

NoPath == "-"

CommandLine ==
  [is_multiple_source : BOOLEAN, use_start_nodes : BOOLEAN, random_percent : 0 .. 100,
   start_nodes_path : DOMAIN StartFiles \cup {NoPath}]

ASSUME StartNodesAssumption ==
  /\ NoPath \notin DOMAIN StartFiles /\ \A path \in DOMAIN StartFiles : StartFiles[path] \in Seq(Nat)
  /\ \A g \in Graphs :
       g.node_count \in Nat /\ g.pairs \subseteq (0 .. g.node_count - 1) \X (0 .. g.node_count - 1)
  /\ \A o \in CommandLines : o \in CommandLine /\ (o.random_percent > 0 => ~o.use_start_nodes)
  /\ \A r \in Rands : r \in Seq(Nat) /\ \A g \in Graphs : g.node_count <= Len(r)
  /\ MaxRuns \in Nat

VARIABLES
  graph, rand,   \* never change
  runs,          \* runs of the program that have begun
  cache,         \* key -> value, the lines of .cache/computed_results.csv
  opts,          \* of the current run
  pc,
  i,             \* loop counter of the shuffle, from 0
  nodes,         \* the array that is shuffled
  start_nodes,   \* parser_result.start_nodes
  expected,      \* expected_result
  srcs,          \* the sources of the adapter
  output,        \* outputs[0] of the adapter after its run
  retval

vars == <<graph, rand, runs, cache, opts, pc, i, nodes, start_nodes, expected, srcs, output, retval>>

node_count == graph.node_count
Vertices == 0 .. node_count - 1
AllVerticesFrom1 == [n \in 1 .. node_count |-> n]  \* mutant
AllVertices == [n \in 1 .. node_count |-> n - 1]
SetOf(seq) == {seq[n] : n \in DOMAIN seq}

Init ==
  /\ graph \in Graphs /\ rand \in Rands
  /\ opts \in CommandLines
  /\ runs = 0 /\ cache = <<>>
  /\ pc = "parser" /\ i = 0
  /\ nodes = <<>> /\ start_nodes = <<>> /\ srcs = <<>>
  /\ expected = 0 /\ output = {} /\ retval = "success"

\* --use-random-percent counts as --use-start-nodes.
use_start_nodes == opts.use_start_nodes \/ opts.random_percent > 0

\* The start node file is read whether or not it is asked for.
Parser ==
  /\ pc = "parser"
  /\ start_nodes' = IF opts.start_nodes_path = NoPath THEN <<>> ELSE StartFiles[opts.start_nodes_path]
  /\ IF opts.random_percent > 0
       THEN pc' = "shuffle" /\ nodes' = AllVertices /\ i' = 0
       ELSE pc' = "cache" /\ UNCHANGED <<nodes, i>>
  /\ UNCHANGED <<graph, rand, runs, cache, opts, expected, srcs, output, retval>>

-----------------------------------------------------------------------------
(* choose_random_start_nodes: the first vertices of a partial shuffle       *)

random_count ==
  LET count == (node_count * opts.random_percent) \div 100 IN
  IF count = 0 /\ node_count > 0 THEN 1 ELSE count

\* Which vertex comes to place i.
SwapWith == i + (rand[i + 1] % (node_count - i))

\* Mutant: the vertex is copied, not swapped.
SwappedOneWay(j) == [nodes EXCEPT ![i + 1] = nodes[j + 1]]
Swapped(j) == [nodes EXCEPT ![i + 1] = nodes[j + 1], ![j + 1] = nodes[i + 1]]

Shuffle ==
  /\ pc = "shuffle" /\ i < random_count
  /\ nodes' = Swapped(SwapWith)
  /\ i' = i + 1
  /\ UNCHANGED <<graph, rand, runs, cache, opts, pc, start_nodes, expected, srcs, output, retval>>

ShuffleEnd ==
  /\ pc = "shuffle" /\ i >= random_count
  /\ start_nodes' = SubSeq(nodes, 1, random_count)
  /\ pc' = "cache"
  /\ UNCHANGED <<graph, rand, runs, cache, opts, i, nodes, expected, srcs, output, retval>>

-----------------------------------------------------------------------------
(* The expected value                                                       *)

\* Mutant: the kind does not tell how many random vertices there are.
kindNoPercent ==
  CASE ~opts.is_multiple_source -> <<"pairs", 0, NoPath>>
    [] opts.is_multiple_source /\ opts.random_percent > 0 -> <<"random_vertices", 0, NoPath>>
    [] OTHER -> IF use_start_nodes THEN <<"start_vertices", 0, opts.start_nodes_path>>
                ELSE <<"vertices", 0, NoPath>>
\* The key: the kind of value, its percentage, the start node file.
kind ==
  CASE ~opts.is_multiple_source -> <<"pairs", 0, NoPath>>
    [] opts.is_multiple_source /\ opts.random_percent > 0 ->
         <<"random_vertices", opts.random_percent, NoPath>>
    [] OTHER -> IF use_start_nodes THEN <<"start_vertices", 0, opts.start_nodes_path>>
                ELSE <<"vertices", 0, NoPath>>

\* Columns of a relation restricted to some rows: what can be reached from them.
Reachable(pairs, rows) == {p[2] : p \in {q \in pairs : q[1] \in rows}}

CacheHit ==
  /\ pc = "cache" /\ kind \in DOMAIN cache
  /\ expected' = cache[kind]
  /\ pc' = "prepare"
  /\ UNCHANGED <<graph, rand, runs, cache, opts, i, nodes, start_nodes, srcs, output, retval>>

\* What CFL_adv gives; a start vertex outside the graph is an error.
count_reachable ==
  CASE ~opts.is_multiple_source -> Cardinality(graph.pairs)
    [] opts.is_multiple_source /\ ~use_start_nodes ->
         Cardinality(Reachable(graph.pairs, Vertices))
    [] OTHER -> Cardinality(Reachable(graph.pairs, SetOf(start_nodes)))

ReferenceFails == opts.is_multiple_source /\ use_start_nodes /\ ~(SetOf(start_nodes) \subseteq Vertices)

compute_expected_result ==
  /\ pc = "cache" /\ kind \notin DOMAIN cache /\ ~ReferenceFails
  /\ expected' = count_reachable
  /\ cache' = [k \in DOMAIN cache \cup {kind} |-> IF k = kind THEN count_reachable ELSE cache[k]]
  /\ pc' = "prepare"
  /\ UNCHANGED <<graph, rand, runs, opts, i, nodes, start_nodes, srcs, output, retval>>

\* TRY: main() returns.
ReferenceError ==
  /\ pc = "cache" /\ kind \notin DOMAIN cache /\ ReferenceFails
  /\ pc' = "returned"
  /\ UNCHANGED <<graph, rand, runs, cache, opts, i, nodes, start_nodes, expected, srcs, output, retval>>

-----------------------------------------------------------------------------
(* The tested adapter                                                       *)

\* A graph without vertices gives five sources.
adapter_CFL_init_src_nodes_common == IF node_count = 0 THEN [n \in 1 .. 5 |-> n - 1] ELSE AllVertices

\* The three multiple-source adapters do this at the end of prepare.
PrepareSources ==
  /\ pc = "prepare"
  /\ srcs' = IF use_start_nodes THEN start_nodes ELSE adapter_CFL_init_src_nodes_common
  /\ pc' = "run"
  /\ UNCHANGED <<graph, rand, runs, cache, opts, i, nodes, start_nodes, expected, output, retval>>

\* The algorithms over all pairs find the pairs; those over sources the pairs
\* that begin at one, and refuse a source that is no vertex.
Run ==
  /\ pc = "run"
  /\ IF ~opts.is_multiple_source THEN retval' = "success" /\ output' = graph.pairs
     ELSE IF SetOf(srcs) \subseteq Vertices
       THEN retval' = "success" /\ output' = {p \in graph.pairs : p[1] \in SetOf(srcs)}
       ELSE retval' = "error" /\ output' = {}
  /\ pc' = "check"
  /\ UNCHANGED <<graph, rand, runs, cache, opts, i, nodes, start_nodes, expected, srcs>>

\* Multiple-source adapters count the columns that are not empty.
get_result ==
  IF opts.is_multiple_source THEN Cardinality({p[2] : p \in output}) ELSE Cardinality(output)

\* The verdict is given, the program ends, and is run again.
RunAgain ==
  /\ pc \in {"check", "returned"} /\ runs < MaxRuns
  /\ runs' = runs + 1
  /\ opts' \in CommandLines
  /\ pc' = "parser"
  /\ start_nodes' = <<>> /\ srcs' = <<>> /\ nodes' = <<>> /\ output' = {}
  /\ i' = 0 /\ expected' = 0 /\ retval' = "success"
  /\ UNCHANGED <<graph, rand, cache>>

Next ==
  \/ Parser \/ Shuffle \/ ShuffleEnd
  \/ CacheHit \/ compute_expected_result \/ ReferenceError
  \/ PrepareSources \/ Run \/ RunAgain

Spec == Init /\ [][Next]_vars

-----------------------------------------------------------------------------
(* Properties *)

\* The types of the driver's data; no random index is past its array.
TypeOK ==
  /\ graph \in Graphs /\ rand \in Rands /\ opts \in CommandLines
  /\ pc \in {"parser", "shuffle", "cache", "prepare", "run", "check", "returned"}
  /\ runs \in Nat /\ i \in Nat
  /\ start_nodes \in Seq(Nat) /\ srcs \in Seq(Nat)
  /\ pc = "shuffle" => nodes \in [1 .. node_count -> Vertices] /\ i <= random_count

(***************************************************************************)
(* --use-random-percent n takes n % of the vertices, one at least, all of  *)
(* them with 100, and no vertex twice: the shuffle exchanges vertices, so  *)
(* that at every step the array still has each vertex once.                *)
(***************************************************************************)
RandomStartDistinct ==
  /\ pc = "shuffle" =>
       \A m, n \in 1 .. node_count : nodes[m] = nodes[n] => m = n
  /\ opts.random_percent > 0 /\ pc \notin {"parser", "shuffle"} =>
       /\ Len(start_nodes) = random_count
       /\ \A n \in 1 .. Len(start_nodes) : start_nodes[n] \in Vertices
       /\ \A m, n \in 1 .. Len(start_nodes) : start_nodes[m] = start_nodes[n] => m = n
       /\ node_count > 0 => random_count \in 1 .. node_count

(***************************************************************************)
(* A verdict compares like with like: whatever options the runs before had *)
(* and whatever they left in the cache, the expected value is that of the  *)
(* sources the tested adapter was given.  The program ends early only when *)
(* the start node file names a vertex outside the graph, and the adapter   *)
(* fails only on a graph without vertices.                                 *)
(***************************************************************************)
VerdictsRight ==
  /\ pc = "check" /\ retval = "success" => get_result = expected
  /\ pc = "check" /\ retval = "error" => node_count = 0 /\ ~use_start_nodes
  /\ pc = "returned" => \E n \in DOMAIN start_nodes : start_nodes[n] >= node_count
=============================================================================
