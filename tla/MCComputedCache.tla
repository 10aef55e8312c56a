-------------------------- MODULE MCComputedCache ---------------------------
(***************************************************************************)
(* Two runs that may overlap, two files, each edited at most once.         *)
(***************************************************************************)
EXTENDS ComputedCache

MCFiles == <<"grammar", "graph">>
=============================================================================
