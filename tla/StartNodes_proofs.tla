------------------------- MODULE StartNodes_proofs --------------------------
(***************************************************************************)
(* The start vertices of src/test.c for graphs, start node files and       *)
(* percentages of any size.  The shuffle keeps each vertex once in the     *)
(* array, so that the vertices taken are distinct, and as many as were     *)
(* asked for.  The same percentage takes the same vertices in every run,   *)
(* so that a line of the cache is right for every run that reads it, and   *)
(* the expected value is that of the sources the tested adapter gets.      *)
(***************************************************************************)
EXTENDS StartNodes, FiniteSetTheorems, WellFoundedInduction, TLAPS

\* The facts of the assumption a proof can cite for a run.
LEMMA InputTypes ==
  ASSUME graph \in Graphs, rand \in Rands, opts \in CommandLines
  PROVE  /\ node_count \in Nat
         /\ rand \in Seq(Nat) /\ node_count <= Len(rand)
         /\ opts.random_percent \in 0 .. 100
  BY StartNodesAssumption DEF node_count, CommandLine

\* A percentage of n is at most n: the division takes nothing out of range.
LEMMA PercentBound ==
  ASSUME NEW n \in Nat, NEW p \in 0 .. 100
  PROVE  (n * p) \div 100 \in 0 .. n
<1> DEFINE m == n * p
<1>1. m \in Nat /\ m <= n * 100
  BY Z3
<1>2. m \div 100 \in 0 .. n
  BY <1>1 DEF m
<1> QED
  BY <1>2

\* test.c:157: at least one vertex of a graph that has one, never more than all.
LEMMA CountInGraph ==
  ASSUME graph \in Graphs, rand \in Rands, opts \in CommandLines
  PROVE  /\ random_count \in 0 .. node_count
         /\ node_count > 0 => random_count \in 1 .. node_count
<1>1. node_count \in Nat /\ opts.random_percent \in 0 .. 100
  BY InputTypes
<1>2. (node_count * opts.random_percent) \div 100 \in 0 .. node_count
  BY <1>1, PercentBound
<1> QED
  BY <1>1, <1>2 DEF random_count

\* Every vertex once, in order.
LEMMA AllVerticesOnce ==
  ASSUME node_count \in Nat
  PROVE  /\ AllVertices \in [1 .. node_count -> Vertices]
         /\ AllVertices \in Seq(Nat)
         /\ \A m, n \in 1 .. node_count : AllVertices[m] = AllVertices[n] => m = n
  BY DEF AllVertices, Vertices

\* test.c:169: the place drawn for vertex i is one of those not yet settled.
LEMMA DrawnInArray ==
  ASSUME graph \in Graphs, rand \in Rands, opts \in CommandLines,
         i \in Nat, i < random_count
  PROVE  /\ i + 1 \in 1 .. node_count
         /\ SwapWith + 1 \in i + 1 .. node_count
<1>1. node_count \in Nat /\ rand \in Seq(Nat) /\ node_count <= Len(rand)
  BY InputTypes
<1>2. random_count \in 0 .. node_count
  BY CountInGraph
<1>3. i + 1 \in 1 .. node_count /\ node_count - i \in Nat \ {0}
  BY <1>1, <1>2
<1>4. rand[i + 1] \in Nat
  BY <1>1, <1>3
<1>5. rand[i + 1] % (node_count - i) \in 0 .. (node_count - i) - 1
  BY <1>3, <1>4
<1> QED
  BY <1>1, <1>3, <1>5 DEF SwapWith

\* Exchanging two places of an array that has every value once keeps it so.
LEMMA SwapKeepsDistinct ==
  ASSUME NEW N \in Nat, NEW V, NEW f \in [1 .. N -> V], NEW a \in 1 .. N, NEW b \in 1 .. N,
         \A m, n \in 1 .. N : f[m] = f[n] => m = n,
         NEW g, g = [f EXCEPT ![a] = f[b], ![b] = f[a]]
  PROVE  /\ g \in [1 .. N -> V]
         /\ \A m, n \in 1 .. N : g[m] = g[n] => m = n
  OBVIOUS

(***************************************************************************)
(* The inductive invariant is the conjunction of the two invariants: that  *)
(* the vertices taken are distinct follows from the array being a          *)
(* permutation at every step of the shuffle, and that it stays one needs   *)
(* the index drawn to be in the array.                                     *)
(***************************************************************************)
IInv == TypeOK /\ RandomStartDistinct

LEMMA InitInv == Init => IInv
  BY DEF Init, IInv, TypeOK, RandomStartDistinct

LEMMA ParserStep == IInv /\ Parser => IInv'
<1> SUFFICES ASSUME IInv, Parser PROVE IInv'
  OBVIOUS
<1>1. node_count \in Nat /\ opts.random_percent \in 0 .. 100
  BY InputTypes DEF IInv, TypeOK
<1>2. random_count \in 0 .. node_count
  BY CountInGraph DEF IInv, TypeOK
<1>3. /\ AllVertices \in [1 .. node_count -> Vertices]
      /\ \A m, n \in 1 .. node_count : AllVertices[m] = AllVertices[n] => m = n
  BY <1>1, AllVerticesOnce
<1>4. node_count' = node_count /\ Vertices' = Vertices /\ random_count' = random_count
  BY DEF Parser, node_count, Vertices, random_count
<1>5. start_nodes' \in Seq(Nat)
  <2>1. opts.start_nodes_path \in DOMAIN StartFiles \cup {NoPath}
    BY StartNodesAssumption DEF IInv, TypeOK, CommandLine
  <2> QED
    BY <2>1, StartNodesAssumption DEF Parser
<1>6. CASE opts.random_percent > 0
  <2>1. pc' = "shuffle" /\ nodes' = AllVertices /\ i' = 0 /\ opts' = opts
    BY <1>6 DEF Parser
  <2>2. TypeOK'
    BY <1>2, <1>3, <1>4, <1>5, <2>1 DEF IInv, TypeOK, Parser
  <2>3. RandomStartDistinct'
    BY <1>3, <1>4, <2>1 DEF RandomStartDistinct
  <2> QED
    BY <2>2, <2>3 DEF IInv
<1>7. CASE ~(opts.random_percent > 0)
  BY <1>5, <1>7 DEF IInv, TypeOK, RandomStartDistinct, Parser
<1> QED
  BY <1>6, <1>7

LEMMA ShuffleStep == IInv /\ Shuffle => IInv'
<1> SUFFICES ASSUME IInv, Shuffle PROVE IInv'
  OBVIOUS
<1>1. node_count \in Nat
  BY InputTypes DEF IInv, TypeOK
<1>2. random_count \in 0 .. node_count
  BY CountInGraph DEF IInv, TypeOK
<1>3. i + 1 \in 1 .. node_count /\ SwapWith + 1 \in 1 .. node_count
  BY <1>1, DrawnInArray DEF IInv, TypeOK, Shuffle
<1>4. node_count' = node_count /\ Vertices' = Vertices /\ random_count' = random_count
  BY DEF Shuffle, node_count, Vertices, random_count
<1>5. nodes' = [nodes EXCEPT ![i + 1] = nodes[SwapWith + 1], ![SwapWith + 1] = nodes[i + 1]]
  BY DEF Shuffle, Swapped
<1>6. /\ nodes \in [1 .. node_count -> Vertices]
      /\ \A m, n \in 1 .. node_count : nodes[m] = nodes[n] => m = n
  BY DEF IInv, TypeOK, RandomStartDistinct, Shuffle
<1>7. /\ nodes' \in [1 .. node_count -> Vertices]
      /\ \A m, n \in 1 .. node_count : nodes'[m] = nodes'[n] => m = n
  BY <1>1, <1>3, <1>5, <1>6, SwapKeepsDistinct
<1>8. i' \in Nat /\ i' <= random_count
  BY <1>1, <1>2 DEF IInv, TypeOK, Shuffle
<1> QED
  BY <1>4, <1>7, <1>8 DEF IInv, TypeOK, RandomStartDistinct, Shuffle

LEMMA ShuffleEndStep == IInv /\ ShuffleEnd => IInv'
<1> SUFFICES ASSUME IInv, ShuffleEnd PROVE IInv'
  OBVIOUS
<1>1. node_count \in Nat
  BY InputTypes DEF IInv, TypeOK
<1>2. /\ random_count \in 0 .. node_count
      /\ node_count > 0 => random_count \in 1 .. node_count
  BY CountInGraph DEF IInv, TypeOK
<1>3. node_count' = node_count /\ Vertices' = Vertices /\ random_count' = random_count
  BY DEF ShuffleEnd, node_count, Vertices, random_count
<1>4. /\ nodes \in [1 .. node_count -> Vertices]
      /\ \A m, n \in 1 .. node_count : nodes[m] = nodes[n] => m = n
  BY DEF IInv, TypeOK, RandomStartDistinct, ShuffleEnd
<1>5. start_nodes' = [n \in 1 .. random_count |-> nodes[n]]
  BY <1>1, <1>2, <1>4 DEF ShuffleEnd
<1>6. /\ start_nodes' \in Seq(Nat) /\ Len(start_nodes') = random_count
      /\ \A n \in 1 .. random_count : start_nodes'[n] \in Vertices
      /\ \A m, n \in 1 .. random_count : start_nodes'[m] = start_nodes'[n] => m = n
  BY <1>1, <1>2, <1>4, <1>5 DEF Vertices
<1> QED
  BY <1>2, <1>3, <1>6 DEF IInv, TypeOK, RandomStartDistinct, ShuffleEnd

\* The sources of the adapter are vertices' numbers.
LEMMA PrepareSourcesStep == IInv /\ PrepareSources => IInv'
<1> SUFFICES ASSUME IInv, PrepareSources PROVE IInv'
  OBVIOUS
<1>1. node_count \in Nat
  BY InputTypes DEF IInv, TypeOK
<1>2. adapter_CFL_init_src_nodes_common \in Seq(Nat)
  BY <1>1, AllVerticesOnce DEF adapter_CFL_init_src_nodes_common
<1>3. srcs' \in Seq(Nat)
  BY <1>2 DEF PrepareSources, IInv, TypeOK
<1> QED
  BY <1>3 DEF PrepareSources, IInv, TypeOK, RandomStartDistinct, Vertices, node_count, random_count

\* The other steps leave the array and the start vertices alone.
LEMMA OtherSteps ==
  IInv /\ (CacheHit \/ compute_expected_result \/ ReferenceError \/ Run \/ RunAgain
             \/ UNCHANGED vars) => IInv'
<1> USE DEF IInv, TypeOK, RandomStartDistinct, Vertices, node_count, random_count
<1>1. IInv /\ CacheHit => IInv'
  BY DEF CacheHit
<1>2. IInv /\ compute_expected_result => IInv'
  BY DEF compute_expected_result
<1>3. IInv /\ ReferenceError => IInv'
  BY DEF ReferenceError
<1>4. IInv /\ Run => IInv'
  BY DEF Run
<1>5. IInv /\ RunAgain => IInv'
  BY DEF RunAgain
<1>6. IInv /\ UNCHANGED vars => IInv'
  BY DEF vars
<1> QED
  BY <1>1, <1>2, <1>3, <1>4, <1>5, <1>6

\* The inductive invariant holds in every reachable state.
THEOREM StartNodesInvariant == Spec => []IInv
<1>1. IInv /\ [Next]_vars => IInv'
  BY ParserStep, ShuffleStep, ShuffleEndStep, PrepareSourcesStep, OtherSteps DEF Next
<1> QED
  BY InitInv, <1>1, PTL DEF Spec

\* The driver's data are well typed, and no index drawn leaves the array.
THEOREM StartNodesTyped == Spec => []TypeOK
<1>1. IInv => TypeOK
  BY DEF IInv
<1> QED
  BY StartNodesInvariant, <1>1, PTL

\* test.c:154-181: for every graph, percentage and sequence of random numbers
\* the start vertices are distinct vertices of the graph, as many as asked for.
THEOREM StartNodesDistinct == Spec => []RandomStartDistinct
<1>1. IInv => RandomStartDistinct
  BY DEF IInv
<1> QED
  BY StartNodesInvariant, <1>1, PTL

-----------------------------------------------------------------------------
(***************************************************************************)
(* One percentage always takes the same vertices: the shuffle is replayed  *)
(* from the seed.  A history of the array is a function of the number of   *)
(* exchanges made; two histories could differ only from a first exchange   *)
(* on, and there is none.                                                  *)
(***************************************************************************)

\* A set of naturals has a least element.
LEMMA LeastNat ==
  ASSUME NEW T \in SUBSET Nat, T # {}
  PROVE  \E m \in T : \A k \in T : ~(k < m)
<1> DEFINE R == OpToRel(<, Nat)
<1>1. IsWellFoundedOn(R, Nat)
  BY NatLessThanWellFounded, Zenon
<1>2. \A k, m \in Nat : k < m => <<k, m>> \in R
  BY Zenon DEF OpToRel
<1> HIDE DEF R
<1>3. PICK m \in T : \A k \in T : ~(<<k, m>> \in R)
  BY <1>1, WFMin
<1> QED
  BY <1>2, <1>3

\* The array after the exchange of place m.
Exchange(g, r, f, m) ==
  LET j == m + (r[m + 1] % (g.node_count - m))
  IN [f EXCEPT ![m + 1] = f[j + 1], ![j + 1] = f[m + 1]]

InOrder(g) == [n \in 1 .. g.node_count |-> n - 1]

History(g, r, h, k) ==
  /\ k \in Nat /\ h[0] = InOrder(g)
  /\ \A m \in 0 .. k - 1 : h[m + 1] = Exchange(g, r, h[m], m)

\* The array after k exchanges.
Shuffled(g, r, k, f) == \E h : History(g, r, h, k) /\ f = h[k]

\* Two histories are the same.
LEMMA OneHistory ==
  ASSUME NEW g, NEW r, NEW k, NEW f, NEW q, Shuffled(g, r, k, f), Shuffled(g, r, k, q)
  PROVE  f = q
<1>1. PICK h : History(g, r, h, k) /\ f = h[k]
  BY DEF Shuffled
<1>2. PICK w : History(g, r, w, k) /\ q = w[k]
  BY DEF Shuffled
<1>3. k \in Nat
  BY <1>1 DEF History
<1> DEFINE T == {m \in 0 .. k : h[m] # w[m]}
<1>4. SUFFICES ASSUME T # {} PROVE FALSE
  BY <1>1, <1>2, <1>3
<1>5. T \in SUBSET Nat
  BY <1>3
<1>6. PICK m \in T : \A n \in T : ~(n < m)
  BY <1>4, <1>5, LeastNat
<1>7. m # 0
  BY <1>1, <1>2, <1>6 DEF History
<1>8. m - 1 \in 0 .. k - 1 /\ m - 1 \in 0 .. k /\ m - 1 < m /\ (m - 1) + 1 = m
  BY <1>3, <1>6, <1>7
<1>9. h[m - 1] = w[m - 1]
  BY <1>6, <1>8
<1>10. h[(m - 1) + 1] = Exchange(g, r, h[m - 1], m - 1) /\ w[(m - 1) + 1] = Exchange(g, r, w[m - 1], m - 1)
  BY <1>1, <1>2, <1>8 DEF History
<1> QED
  BY <1>6, <1>8, <1>9, <1>10

\* A history is continued by an exchange.
LEMMA HistoryGoesOn ==
  ASSUME NEW g, NEW r, NEW k, NEW f, Shuffled(g, r, k, f)
  PROVE  Shuffled(g, r, k + 1, Exchange(g, r, f, k))
<1>1. PICK h : History(g, r, h, k) /\ f = h[k]
  BY DEF Shuffled
<1>2. k \in Nat
  BY <1>1 DEF History
<1> DEFINE w == [n \in 0 .. k + 1 |-> IF n = k + 1 THEN Exchange(g, r, f, k) ELSE h[n]]
<1>3. w[k + 1] = Exchange(g, r, f, k) /\ \A n \in 0 .. k : w[n] = h[n]
  BY <1>2
<1> HIDE DEF w
<1>4. w[0] = InOrder(g)
  BY <1>1, <1>2, <1>3 DEF History
<1>5. ASSUME NEW m \in 0 .. (k + 1) - 1 PROVE w[m + 1] = Exchange(g, r, w[m], m)
  <2>1. CASE m = k
    BY <1>1, <1>2, <1>3, <2>1
  <2>2. CASE m # k
    <3>1. m \in 0 .. k - 1 /\ m \in 0 .. k /\ m + 1 \in 0 .. k
      BY <1>2, <2>2
    <3> QED
      BY <1>1, <1>3, <3>1 DEF History
  <2> QED
    BY <2>1, <2>2
<1>6. History(g, r, w, k + 1)
  BY <1>2, <1>4, <1>5 DEF History
<1> QED
  BY <1>3, <1>6 DEF Shuffled

\* How many vertices p percent are.
CountOf(g, p) ==
  LET count == (g.node_count * p) \div 100 IN
  IF count = 0 /\ g.node_count > 0 THEN 1 ELSE count

\* The vertices p percent takes.
RandomTaken(g, r, p, s) ==
  \E f : Shuffled(g, r, CountOf(g, p), f) /\ s = SubSeq(f, 1, CountOf(g, p))

LEMMA OneTaken ==
  ASSUME NEW g, NEW r, NEW p, NEW s, NEW q, RandomTaken(g, r, p, s), RandomTaken(g, r, p, q)
  PROVE  s = q
  BY OneHistory DEF RandomTaken

-----------------------------------------------------------------------------
(***************************************************************************)
(* The inductive invariant of the verdicts: a line of the cache holds what *)
(* CFL_adv gives for its key, the start vertices are those the command     *)
(* line names, and the expected value is the one of these vertices.        *)
(***************************************************************************)

FileNodes(path) == IF path = NoPath THEN <<>> ELSE StartFiles[path]

ReachableFrom(g, s) == Cardinality(Reachable(g.pairs, SetOf(s)))

InGraph(g, s) == SetOf(s) \subseteq 0 .. g.node_count - 1

CacheRight(g, r, c) ==
  /\ <<"pairs", 0, NoPath>> \in DOMAIN c => c[<<"pairs", 0, NoPath>>] = Cardinality(g.pairs)
  /\ <<"vertices", 0, NoPath>> \in DOMAIN c =>
       c[<<"vertices", 0, NoPath>>] = Cardinality(Reachable(g.pairs, 0 .. g.node_count - 1))
  /\ \A path : <<"start_vertices", 0, path>> \in DOMAIN c =>
       /\ InGraph(g, FileNodes(path))
       /\ c[<<"start_vertices", 0, path>>] = ReachableFrom(g, FileNodes(path))
  /\ \A p, s : <<"random_vertices", p, NoPath>> \in DOMAIN c /\ RandomTaken(g, r, p, s) =>
       c[<<"random_vertices", p, NoPath>>] = ReachableFrom(g, s)

StartNodesAsAsked ==
  /\ opts.random_percent > 0 => RandomTaken(graph, rand, opts.random_percent, start_nodes)
  /\ ~(opts.random_percent > 0) => start_nodes = FileNodes(opts.start_nodes_path)

SourcesAsAsked ==
  /\ use_start_nodes => srcs = start_nodes
  /\ ~use_start_nodes => srcs = adapter_CFL_init_src_nodes_common

RunAsAsked ==
  /\ ~opts.is_multiple_source => retval = "success" /\ output = graph.pairs
  /\ opts.is_multiple_source /\ InGraph(graph, srcs) =>
       retval = "success" /\ output = {p \in graph.pairs : p[1] \in SetOf(srcs)}
  /\ opts.is_multiple_source /\ ~InGraph(graph, srcs) => retval = "error"

VInv ==
  /\ CacheRight(graph, rand, cache)
  /\ pc = "shuffle" => opts.random_percent > 0 /\ Shuffled(graph, rand, i, nodes)
  /\ pc \in {"cache", "prepare", "run", "check", "returned"} => StartNodesAsAsked
  /\ pc \in {"prepare", "run", "check"} => expected = count_reachable /\ ~ReferenceFails
  /\ pc \in {"run", "check"} => SourcesAsAsked
  /\ pc = "check" => RunAsAsked
  /\ pc = "returned" => ReferenceFails

USE DEF node_count, Vertices

\* No run, nothing in the cache.
LEMMA VInit == Init => VInv
<1> SUFFICES ASSUME Init PROVE VInv
  OBVIOUS
<1>1. cache = <<>> /\ pc = "parser"
  BY DEF Init
<1>2. DOMAIN cache = {}
  BY <1>1
<1> QED
  BY <1>1, <1>2 DEF VInv, CacheRight

\* A shuffle begins with the vertices in order.
LEMMA VParser == IInv /\ VInv /\ Parser => VInv'
<1> SUFFICES ASSUME IInv, VInv, Parser PROVE VInv'
  OBVIOUS
<1>1. graph' = graph /\ rand' = rand /\ cache' = cache /\ opts' = opts
  BY DEF Parser
<1>2. CASE opts.random_percent > 0
  <2>1. pc' = "shuffle" /\ nodes' = InOrder(graph) /\ i' = 0
    BY <1>2 DEF Parser, AllVertices, InOrder
  <2>2. Shuffled(graph, rand, 0, InOrder(graph))
    <3> DEFINE h == [n \in {0} |-> InOrder(graph)]
    <3>1. History(graph, rand, h, 0) /\ InOrder(graph) = h[0]
      BY DEF History
    <3> HIDE DEF h
    <3> QED
      BY <3>1 DEF Shuffled
  <2> QED
    BY <1>1, <1>2, <2>1, <2>2 DEF VInv
<1>3. CASE ~(opts.random_percent > 0)
  BY <1>1, <1>3 DEF Parser, VInv, StartNodesAsAsked, FileNodes
<1> QED
  BY <1>2, <1>3

\* An exchange continues the history.
LEMMA VShuffle == IInv /\ VInv /\ Shuffle => VInv'
<1> SUFFICES ASSUME IInv, VInv, Shuffle PROVE VInv'
  OBVIOUS
<1>1. graph' = graph /\ rand' = rand /\ cache' = cache /\ opts' = opts /\ pc = "shuffle" /\ pc' = "shuffle"
  BY DEF Shuffle
<1>2. nodes' = Exchange(graph, rand, nodes, i) /\ i' = i + 1
  BY DEF Shuffle, Swapped, SwapWith, Exchange
<1>3. Shuffled(graph, rand, i, nodes)
  BY <1>1 DEF VInv
<1>4. Shuffled(graph, rand, i + 1, Exchange(graph, rand, nodes, i))
  BY <1>3, HistoryGoesOn
<1> QED
  BY <1>1, <1>2, <1>4 DEF VInv

\* The vertices taken are those of the percentage.
LEMMA VShuffleEnd == IInv /\ VInv /\ ShuffleEnd => VInv'
<1> SUFFICES ASSUME IInv, VInv, ShuffleEnd PROVE VInv'
  OBVIOUS
<1>1. /\ graph' = graph /\ rand' = rand /\ cache' = cache /\ opts' = opts
      /\ pc = "shuffle" /\ pc' = "cache" /\ start_nodes' = SubSeq(nodes, 1, random_count)
  BY DEF ShuffleEnd
<1>2. Shuffled(graph, rand, i, nodes) /\ opts.random_percent > 0
  BY <1>1 DEF VInv
<1>3. random_count = CountOf(graph, opts.random_percent)
  BY DEF random_count, CountOf
<1>4. i = random_count
  <2>1. random_count \in 0 .. node_count /\ node_count \in Nat
    BY CountInGraph, InputTypes DEF IInv, TypeOK
  <2> QED
    BY <1>1, <2>1 DEF IInv, TypeOK, ShuffleEnd
<1>5. RandomTaken(graph, rand, opts.random_percent, start_nodes')
  BY <1>1, <1>2, <1>3, <1>4 DEF RandomTaken
<1> QED
  BY <1>1, <1>2, <1>5 DEF VInv, StartNodesAsAsked

\* The value for the current options, by the kind of the key.
LEMMA CountByKind ==
  ASSUME IInv, StartNodesAsAsked
  PROVE  /\ kind = <<"pairs", 0, NoPath>> => count_reachable = Cardinality(graph.pairs) /\ ~ReferenceFails
         /\ kind = <<"vertices", 0, NoPath>> =>
              count_reachable = Cardinality(Reachable(graph.pairs, 0 .. graph.node_count - 1)) /\ ~ReferenceFails
         /\ \A path : kind = <<"start_vertices", 0, path>> =>
              /\ start_nodes = FileNodes(path) /\ count_reachable = ReachableFrom(graph, start_nodes)
              /\ ReferenceFails <=> ~InGraph(graph, start_nodes)
         /\ \A p : kind = <<"random_vertices", p, NoPath>> =>
              /\ RandomTaken(graph, rand, p, start_nodes)
              /\ count_reachable = ReachableFrom(graph, start_nodes)
              /\ ReferenceFails <=> ~InGraph(graph, start_nodes)
<1>1. opts.is_multiple_source \in BOOLEAN /\ opts.use_start_nodes \in BOOLEAN
  BY StartNodesAssumption DEF IInv, TypeOK, CommandLine
<1>2. \/ kind = <<"pairs", 0, NoPath>> /\ ~opts.is_multiple_source
      \/ /\ kind = <<"random_vertices", opts.random_percent, NoPath>>
         /\ opts.is_multiple_source /\ opts.random_percent > 0
      \/ /\ kind = <<"start_vertices", 0, opts.start_nodes_path>>
         /\ opts.is_multiple_source /\ ~(opts.random_percent > 0) /\ use_start_nodes
      \/ /\ kind = <<"vertices", 0, NoPath>>
         /\ opts.is_multiple_source /\ ~use_start_nodes
  BY <1>1 DEF kind, use_start_nodes
<1>3. opts.random_percent > 0 => use_start_nodes
  BY DEF use_start_nodes
<1>4. ~opts.is_multiple_source => count_reachable = Cardinality(graph.pairs) /\ ~ReferenceFails
  BY DEF count_reachable, ReferenceFails
<1>5. opts.is_multiple_source /\ ~use_start_nodes =>
        count_reachable = Cardinality(Reachable(graph.pairs, 0 .. graph.node_count - 1)) /\ ~ReferenceFails
  BY <1>1 DEF count_reachable, ReferenceFails
<1>6. opts.is_multiple_source /\ use_start_nodes =>
        /\ count_reachable = ReachableFrom(graph, start_nodes)
        /\ ReferenceFails <=> ~InGraph(graph, start_nodes)
  BY <1>1 DEF count_reachable, ReferenceFails, ReachableFrom, InGraph
<1> HIDE DEF node_count, Vertices
<1> QED
  BY <1>2, <1>3, <1>4, <1>5, <1>6 DEF StartNodesAsAsked

\* A key is of one kind.
LEMMA KindIsOne ==
  ASSUME IInv
  PROVE  \/ kind = <<"pairs", 0, NoPath>>
         \/ kind = <<"vertices", 0, NoPath>>
         \/ \E path : kind = <<"start_vertices", 0, path>>
         \/ \E p : kind = <<"random_vertices", p, NoPath>> /\ p = opts.random_percent /\ p > 0
  BY DEF kind

\* The vertices drawn are vertices of the graph.
LEMMA TakenInGraph ==
  ASSUME IInv, pc = "cache", opts.random_percent > 0
  PROVE  InGraph(graph, start_nodes)
  BY DEF IInv, TypeOK, RandomStartDistinct, InGraph, SetOf

\* A line found in the cache was written for the same start vertices.
LEMMA VCacheHit == IInv /\ VInv /\ CacheHit => VInv'
<1> SUFFICES ASSUME IInv, VInv, CacheHit PROVE VInv'
  OBVIOUS
<1>1. /\ pc = "cache" /\ kind \in DOMAIN cache /\ expected' = cache[kind] /\ pc' = "prepare"
      /\ graph' = graph /\ rand' = rand /\ cache' = cache /\ opts' = opts /\ start_nodes' = start_nodes
  BY DEF CacheHit
<1>2. StartNodesAsAsked /\ CacheRight(graph, rand, cache)
  BY <1>1 DEF VInv
<1>3. cache[kind] = count_reachable /\ ~ReferenceFails
  BY <1>1, <1>2, CountByKind, KindIsOne, TakenInGraph DEF CacheRight
<1>4. count_reachable' = count_reachable /\ ReferenceFails' = ReferenceFails /\ StartNodesAsAsked'
  BY <1>1, <1>2 DEF count_reachable, ReferenceFails, use_start_nodes, StartNodesAsAsked
<1> QED
  BY <1>1, <1>2, <1>3, <1>4 DEF VInv

\* A line added to the cache is right for every run with its key.
LEMMA VCompute == IInv /\ VInv /\ compute_expected_result => VInv'
<1> SUFFICES ASSUME IInv, VInv, compute_expected_result PROVE VInv'
  OBVIOUS
<1> DEFINE k == kind
           n == count_reachable
           c == [q \in DOMAIN cache \cup {k} |-> IF q = k THEN n ELSE cache[q]]
<1>1. /\ pc = "cache" /\ ~ReferenceFails /\ expected' = n /\ cache' = c /\ pc' = "prepare"
      /\ graph' = graph /\ rand' = rand /\ opts' = opts /\ start_nodes' = start_nodes
  BY DEF compute_expected_result
<1>2. StartNodesAsAsked /\ CacheRight(graph, rand, cache)
  BY <1>1 DEF VInv
<1>3. count_reachable' = count_reachable /\ ReferenceFails' = ReferenceFails /\ StartNodesAsAsked'
  BY <1>1, <1>2 DEF count_reachable, ReferenceFails, use_start_nodes, StartNodesAsAsked
<1>4. /\ k = <<"pairs", 0, NoPath>> => n = Cardinality(graph.pairs)
      /\ k = <<"vertices", 0, NoPath>> => n = Cardinality(Reachable(graph.pairs, 0 .. graph.node_count - 1))
      /\ \A path : k = <<"start_vertices", 0, path>> =>
           InGraph(graph, FileNodes(path)) /\ n = ReachableFrom(graph, FileNodes(path))
      /\ \A p, s : k = <<"random_vertices", p, NoPath>> /\ RandomTaken(graph, rand, p, s) =>
           n = ReachableFrom(graph, s)
  BY <1>1, <1>2, CountByKind, OneTaken
<1> HIDE DEF k, n
<1>5. /\ DOMAIN c = DOMAIN cache \cup {k} /\ c[k] = n
      /\ \A q \in DOMAIN cache : q # k => c[q] = cache[q]
  OBVIOUS
<1> HIDE DEF c
<1>6. CacheRight(graph, rand, c)
  <2>1. <<"pairs", 0, NoPath>> \in DOMAIN c => c[<<"pairs", 0, NoPath>>] = Cardinality(graph.pairs)
    BY <1>2, <1>4, <1>5 DEF CacheRight
  <2>2. <<"vertices", 0, NoPath>> \in DOMAIN c =>
          c[<<"vertices", 0, NoPath>>] = Cardinality(Reachable(graph.pairs, 0 .. graph.node_count - 1))
    BY <1>2, <1>4, <1>5 DEF CacheRight
  <2>3. ASSUME NEW path, <<"start_vertices", 0, path>> \in DOMAIN c
        PROVE  /\ InGraph(graph, FileNodes(path))
               /\ c[<<"start_vertices", 0, path>>] = ReachableFrom(graph, FileNodes(path))
    BY <1>2, <1>4, <1>5, <2>3 DEF CacheRight
  <2>4. ASSUME NEW p, NEW s, <<"random_vertices", p, NoPath>> \in DOMAIN c, RandomTaken(graph, rand, p, s)
        PROVE  c[<<"random_vertices", p, NoPath>>] = ReachableFrom(graph, s)
    BY <1>2, <1>4, <1>5, <2>4 DEF CacheRight
  <2> QED
    BY <2>1, <2>2, <2>3, <2>4 DEF CacheRight
<1>7. expected' = count_reachable
  BY <1>1 DEF n
<1> QED
  BY <1>1, <1>2, <1>3, <1>6, <1>7 DEF VInv

\* The other steps leave the cache alone.
LEMMA VOthers ==
  IInv /\ VInv /\ (ReferenceError \/ PrepareSources \/ Run \/ RunAgain \/ UNCHANGED vars) => VInv'
<1> SUFFICES ASSUME IInv, VInv PROVE (ReferenceError \/ PrepareSources \/ Run \/ RunAgain \/ UNCHANGED vars) => VInv'
  OBVIOUS
<1>1. CASE ReferenceError
  BY <1>1 DEF ReferenceError, VInv, StartNodesAsAsked, ReferenceFails, use_start_nodes
<1>2. CASE PrepareSources
  <2>1. /\ pc = "prepare" /\ pc' = "run" /\ graph' = graph /\ rand' = rand /\ cache' = cache /\ opts' = opts
        /\ start_nodes' = start_nodes /\ expected' = expected
    BY <1>2 DEF PrepareSources
  <2>2. SourcesAsAsked'
    BY <1>2 DEF PrepareSources, SourcesAsAsked, use_start_nodes, adapter_CFL_init_src_nodes_common, AllVertices
  <2> QED
    BY <2>1, <2>2 DEF VInv, StartNodesAsAsked, ReferenceFails, use_start_nodes, count_reachable
<1>3. CASE Run
  <2>1. /\ pc = "run" /\ pc' = "check" /\ graph' = graph /\ rand' = rand /\ cache' = cache /\ opts' = opts
        /\ start_nodes' = start_nodes /\ expected' = expected /\ srcs' = srcs
    BY <1>3 DEF Run
  <2>2. RunAsAsked'
    BY <1>3, <2>1 DEF Run, RunAsAsked, InGraph, SetOf
  <2> QED
    BY <2>1, <2>2 DEF VInv, StartNodesAsAsked, ReferenceFails, use_start_nodes, count_reachable,
      SourcesAsAsked, adapter_CFL_init_src_nodes_common, AllVertices
<1>4. CASE RunAgain
  BY <1>4 DEF RunAgain, VInv
<1>5. CASE UNCHANGED vars
  BY <1>5 DEF vars, VInv, StartNodesAsAsked, ReferenceFails, use_start_nodes, count_reachable,
    SourcesAsAsked, adapter_CFL_init_src_nodes_common, AllVertices, RunAsAsked
<1> QED
  BY <1>1, <1>2, <1>3, <1>4, <1>5

\* What the adapter finds from its sources is what is expected from them.
LEMMA VImplies == IInv /\ VInv => VerdictsRight
<1> SUFFICES ASSUME IInv, VInv PROVE VerdictsRight
  OBVIOUS
<1>0. /\ node_count \in Nat /\ start_nodes \in Seq(Nat)
      /\ opts.is_multiple_source \in BOOLEAN /\ opts.use_start_nodes \in BOOLEAN
  BY StartNodesAssumption, InputTypes DEF IInv, TypeOK, CommandLine
<1>1. ASSUME pc = "check" PROVE retval = "error" => node_count = 0 /\ ~use_start_nodes
  <2>1. RunAsAsked /\ SourcesAsAsked /\ ~ReferenceFails
    BY <1>1 DEF VInv
  <2>2. use_start_nodes /\ opts.is_multiple_source => InGraph(graph, srcs)
    BY <2>1 DEF ReferenceFails, InGraph, SourcesAsAsked
  <2>3. ~use_start_nodes /\ node_count # 0 => InGraph(graph, srcs)
    BY <1>0, <2>1 DEF InGraph, SourcesAsAsked, SetOf, adapter_CFL_init_src_nodes_common, AllVertices
  <2> QED
    BY <1>0, <2>1, <2>2, <2>3 DEF RunAsAsked
<1>2. ASSUME pc = "check", retval = "success" PROVE get_result = expected
  <2>1. RunAsAsked /\ SourcesAsAsked /\ expected = count_reachable
    BY <1>2 DEF VInv
  <2>2. CASE ~opts.is_multiple_source
    BY <2>1, <2>2 DEF RunAsAsked, get_result, count_reachable
  <2>3. CASE opts.is_multiple_source
    <3>1. InGraph(graph, srcs) /\ output = {p \in graph.pairs : p[1] \in SetOf(srcs)}
      BY <1>2, <2>1, <2>3 DEF RunAsAsked
    <3>2. {p[2] : p \in output} = Reachable(graph.pairs, SetOf(srcs))
      BY <3>1 DEF Reachable
    <3>3. CASE use_start_nodes
      BY <2>1, <2>3, <3>2, <3>3 DEF get_result, count_reachable, SourcesAsAsked
    <3>4. CASE ~use_start_nodes
      <4>1. SetOf(srcs) = Vertices
        <5>1. srcs = adapter_CFL_init_src_nodes_common
          BY <2>1, <3>4 DEF SourcesAsAsked
        <5>2. node_count # 0
          <6>1. SUFFICES ASSUME node_count = 0 PROVE FALSE
            OBVIOUS
          <6>2. srcs = [n \in 1 .. 5 |-> n - 1]
            BY <5>1, <6>1 DEF adapter_CFL_init_src_nodes_common
          <6>3. 0 \in SetOf(srcs)
            BY <6>2 DEF SetOf
          <6> QED
            BY <3>1, <6>1, <6>3 DEF InGraph
        <5>3. srcs = [n \in 1 .. node_count |-> n - 1]
          BY <5>1, <5>2 DEF adapter_CFL_init_src_nodes_common, AllVertices
        <5>4. ASSUME NEW v \in Vertices PROVE v \in SetOf(srcs)
          <6>1. v + 1 \in DOMAIN srcs /\ srcs[v + 1] = v
            BY <1>0, <5>3
          <6> QED
            BY <6>1 DEF SetOf
        <5> QED
          BY <3>1, <5>4 DEF InGraph
      <4> QED
        BY <2>1, <2>3, <3>2, <3>4, <4>1 DEF get_result, count_reachable
    <3> QED
      BY <3>3, <3>4
  <2> QED
    BY <1>0, <2>2, <2>3
<1>3. ASSUME pc = "returned" PROVE \E n \in DOMAIN start_nodes : start_nodes[n] >= node_count
  <2>1. ReferenceFails
    BY <1>3 DEF VInv
  <2>2. PICK n \in DOMAIN start_nodes : start_nodes[n] \notin Vertices
    BY <2>1 DEF ReferenceFails, SetOf
  <2>3. start_nodes[n] \in Nat
    BY <1>0, <2>2
  <2> QED
    BY <1>0, <2>2, <2>3
<1> QED
  BY <1>1, <1>2, <1>3 DEF VerdictsRight

(***************************************************************************)
(* Whatever runs came before, with whatever options, the expected value is *)
(* the one of the sources the tested adapter was given, for every graph,   *)
(* start node files, percentages and sequence of random numbers.           *)
(***************************************************************************)
THEOREM VerdictsAlwaysRight == Spec => []VerdictsRight
<1>1. Init => VInv
  BY VInit
<1>2. IInv /\ VInv /\ [Next]_vars => VInv'
  BY VParser, VShuffle, VShuffleEnd, VCacheHit, VCompute, VOthers DEF Next
<1>3. IInv /\ VInv => VerdictsRight
  BY VImplies
<1> QED
  BY <1>1, <1>2, <1>3, StartNodesInvariant, PTL DEF Spec
=============================================================================
