--------------------------- MODULE MCBenchDriver ----------------------------
(***************************************************************************)
(* Every combination of options main() accepts, for zero to two config     *)
(* rows of one or two rounds; the tested adapter is CFL_adv or another.    *)
(***************************************************************************)
EXTENDS BenchDriver

MCOptions ==
  {o \in [algo : Adapters, is_multiple_source : BOOLEAN, is_test : BOOLEAN, hot : BOOLEAN,
          bench_parse : BOOLEAN, compute_results : BOOLEAN, rounds_count : 1 .. 2,
          configs_count : 0 .. 2] :
     /\ o.compute_results => o.is_test
     /\ o.is_multiple_source => o.algo # Reference}
=============================================================================
