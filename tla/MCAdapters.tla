----------------------------- MODULE MCAdapters -----------------------------
(***************************************************************************)
(* Grammars and graphs on which all adapters are run: those of the module  *)
(* MCCFLPrepare, and more with paths to find: a unit rule, rules with one  *)
(* and two terminals, the empty word, recursion through the index, an      *)
(* indexed start, and paths through a cycle.                               *)
(***************************************************************************)
EXTENDS Adapters, MCCFLPrepare

PathLines ==
  {<<S>>, <<S, a>>, <<S, S, S>>, <<S, A, b>>, <<A, b, S>>, <<A, S>>, <<A, a, b>>, <<A>>, <<S, b, b>>}

PathGraphs ==
  {<< <<0, 1, a, 0>>, <<1, 0, b, 1>> >>,
   << <<0, 0, b, 0>>, <<0, 1, b, 1>>, <<1, 1, a, 0>> >>,
   << <<0, 1, b, 0>>, <<1, 2, b, 1>>, <<2, 0, a, 0>>, <<1, 1, b, 1>> >>,
   << <<1, 0, b, 2>>, <<0, 1, b, 0>>, <<0, 1, a, 0>>, <<0, 0, b, 2>> >>}

WithPaths ==
  {Parsed(<<l1, l2, l3>>, s, g) : l1 \in {<<S, A, b>>}, l2, l3 \in PathLines,
                                  s \in {S, A}, g \in PathGraphs}

\* A label of the file that reads like a made-up one, or two labels made up
\* alike, send LAGraph rules with symbols that are not there.
Clashes(p) ==
  \/ MadeUp(p) \cap LabelsOf(p.symbols) # {}
  \/ \E s \in DOMAIN p.symbols : ~p.symbols[s].is_nonterm /\ HelperLabel(p.symbols[s].label) = EpsLabel

MCParserResults ==
  WithGraphs \cup WithPaths \cup ManySingles \cup {p \in ThreeRules : ~Clashes(p)}
=============================================================================
