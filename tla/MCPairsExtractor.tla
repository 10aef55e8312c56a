-------------------------- MODULE MCPairsExtractor --------------------------
(***************************************************************************)
(* Config files of up to two rows over two grammars and two graphs, one of *)
(* each name in another directory.                                         *)
(***************************************************************************)
EXTENDS PairsExtractor

P(dir, stem) == [dir |-> dir, stem |-> stem]
MCPath == {P("x", "a"), P("y", "a"), P("x", "b")}
MCConfigs == UNION {[1 .. n -> Row] : n \in 0 .. 2}
=============================================================================
