--------------------------- MODULE PairsExtractor ---------------------------
(***************************************************************************)
(* main() of src/pairs_extractor.c: for every config row CFL_adv is        *)
(* prepared and run and its pairs are written to a file; whatever call     *)
(* fails, "goto cleanup" leads to one epilogue that releases what the      *)
(* flags say is held.  A step is one call that may fail, with the code up  *)
(* to the next one.                                                        *)
(*                                                                         *)
(* A path is a directory and a stem; which file a row goes to depends on   *)
(* the stems alone.                                                        *)
(***************************************************************************)
EXTENDS Integers, Sequences

CONSTANTS
  Path,     \* the grammar and graph paths that occur
  Configs,  \* the config files to start from, as sequences of rows
  MayFail   \* the calls that may fail

Row == [grammar : Path, graph : Path]

Calls ==
  {"stat", "setup", "parser", "prepare", "init_outputs", "run", "get_reachable_pairs",
   "make_output_path", "fopen", "write_result", "fclose", "free_outputs", "cleanup", "teardown"}

ASSUME ExtractorAssumption ==
  /\ \A p \in Path : {"dir", "stem"} \subseteq DOMAIN p
  /\ \A c \in Configs : c \in Seq(Row)
  /\ MayFail \subseteq Calls

VARIABLES
  configs,   \* the config file; never changes
  pc,        \* the next call, an epilogue step, "returned" or "exit"
  row,       \* config_index, from 1
  status,
  flags,     \* adapter_is_setup, ..., and the pointers that are not NULL
  held,      \* what is really allocated or open; "leak" and "double free" are errors
  outcome,   \* of the last run: "fresh", "ran" or "failed"
  disk,      \* output file -> the row whose pairs it holds, 0 when it is not complete
  failed     \* history: the calls that have failed

vars == <<configs, pc, row, status, flags, held, outcome, disk, failed>>

\* make_output_path: <grammar>_<graph>.result in the output directory.
output_path(r) == <<configs[r].grammar.stem, configs[r].graph.stem>>

OutputFiles == {<<p.stem, q.stem>> : p, q \in Path}

Init ==
  /\ configs \in Configs
  /\ pc = "stat" /\ row = 1 /\ status = "EXIT_FAILURE"
  /\ flags = {} /\ held = {} /\ outcome = "fresh"
  /\ disk = [f \in OutputFiles |-> 0]
  /\ failed = {}

-----------------------------------------------------------------------------
(* Steps of the loop                                                        *)

Alloc(things) ==
  held' = held \cup things \cup (IF things \cap held = {} THEN {} ELSE {"leak"})
Release(things) ==
  held' = (held \ things) \cup (IF things \subseteq held THEN {} ELSE {"double free"})

\* A call of the loop fails: the epilogue follows.
Fails(call) ==
  /\ pc = call /\ call \in MayFail
  /\ failed' = failed \cup {call}
  /\ pc' = "close"
  /\ UNCHANGED <<configs, row, status>>

Succeeds(call, next) ==
  /\ pc = call
  /\ pc' = next
  /\ UNCHANGED <<configs, failed>>

\* An empty config file goes to the epilogue too.
Stat ==
  \/ /\ Succeeds("stat", IF configs = <<>> THEN "close" ELSE "setup")
     /\ UNCHANGED <<row, status, flags, held, outcome, disk>>
  \/ Fails("stat") /\ UNCHANGED <<flags, held, outcome, disk>>

Setup ==
  \/ /\ Succeeds("setup", "parser")
     /\ flags' = flags \cup {"adapter_is_setup"} /\ Alloc({"library"})
     /\ UNCHANGED <<row, status, outcome, disk>>
  \/ Fails("setup") /\ UNCHANGED <<flags, held, outcome, disk>>

\* parser() ends the program when a file is malformed.
Parser ==
  \/ /\ Succeeds("parser", "prepare")
     /\ flags' = flags \cup {"parser_result_is_initialized"} /\ Alloc({"parser_result"})
     /\ UNCHANGED <<row, status, outcome, disk>>
  \/ /\ pc = "parser" /\ "parser" \in MayFail
     /\ pc' = "exit" /\ failed' = failed \cup {"parser"}
     /\ UNCHANGED <<configs, row, status, flags, held, outcome, disk>>

\* Prepared: the parser's result is freed.
Prepare ==
  \/ /\ Succeeds("prepare", "init_outputs")
     /\ flags' = (flags \cup {"adapter_is_prepared"}) \ {"parser_result_is_initialized"}
     /\ held' = (held \ {"parser_result"}) \cup {"inputs"}
                  \cup (IF "inputs" \in held THEN {"leak"} ELSE {})
     /\ UNCHANGED <<row, status, outcome, disk>>
  \/ Fails("prepare") /\ UNCHANGED <<flags, held, outcome, disk>>

InitOutputs ==
  \/ /\ Succeeds("init_outputs", "run")
     /\ flags' = flags \cup {"outputs_are_initialized"} /\ Alloc({"outputs"})
     /\ outcome' = "fresh"
     /\ UNCHANGED <<row, status, disk>>
  \/ Fails("init_outputs") /\ UNCHANGED <<flags, held, outcome, disk>>

Run ==
  \/ /\ Succeeds("run", "get_reachable_pairs")
     /\ outcome' = "ran"
     /\ UNCHANGED <<row, status, flags, held, disk>>
  \/ Fails("run") /\ outcome' = "failed" /\ UNCHANGED <<flags, held, disk>>

GetPairs ==
  \/ /\ Succeeds("get_reachable_pairs", "make_output_path")
     /\ flags' = flags \cup {"sources"} /\ Alloc({"sources"})
     /\ UNCHANGED <<row, status, outcome, disk>>
  \/ Fails("get_reachable_pairs") /\ UNCHANGED <<flags, held, outcome, disk>>

MakePath ==
  \/ /\ Succeeds("make_output_path", "fopen")
     /\ flags' = flags \cup {"output_path"} /\ Alloc({"output_path"})
     /\ UNCHANGED <<row, status, outcome, disk>>
  \/ Fails("make_output_path") /\ UNCHANGED <<flags, held, outcome, disk>>

\* fopen with "w" empties a file that is there.
OpenOutput ==
  \/ /\ Succeeds("fopen", "write_result")
     /\ flags' = flags \cup {"output"} /\ Alloc({"output"})
     /\ disk' = [disk EXCEPT ![output_path(row)] = 0]
     /\ UNCHANGED <<row, status, outcome>>
  \/ Fails("fopen") /\ UNCHANGED <<flags, held, outcome, disk>>

write_result ==
  \/ /\ Succeeds("write_result", "fclose")
     /\ UNCHANGED <<row, status, flags, held, outcome, disk>>
  \/ Fails("write_result") /\ UNCHANGED <<flags, held, outcome, disk>>

\* Mutant: a stream whose fclose failed is closed again.
CloseOutputAgain ==
  \/ /\ Succeeds("fclose", "free_outputs")
     /\ flags' = flags \ {"output", "output_path", "sources"}
     /\ Release({"output", "output_path", "sources"})
     /\ disk' = [disk EXCEPT ![output_path(row)] = row]
     /\ UNCHANGED <<row, status, outcome>>
  \/ /\ Fails("fclose")
     /\ Release({"output"})
     /\ UNCHANGED <<flags, outcome, disk>>

\* A failed fclose has closed the stream: the pointer is reset on both ways.
CloseOutput ==
  \/ /\ Succeeds("fclose", "free_outputs")
     /\ flags' = flags \ {"output", "output_path", "sources"}
     /\ Release({"output", "output_path", "sources"})
     /\ disk' = [disk EXCEPT ![output_path(row)] = row]
     /\ UNCHANGED <<row, status, outcome>>
  \/ /\ Fails("fclose")
     /\ flags' = flags \ {"output"} /\ Release({"output"})
     /\ UNCHANGED <<outcome, disk>>

FreeOutputs ==
  \/ /\ Succeeds("free_outputs", "cleanup")
     /\ flags' = flags \ {"outputs_are_initialized"} /\ Release({"outputs"})
     /\ UNCHANGED <<row, status, outcome, disk>>
  \/ Fails("free_outputs") /\ UNCHANGED <<flags, held, outcome, disk>>

\* The end of the loop; after the last row the status is success.
LoopEnd(last) ==
  /\ row' = IF last THEN row ELSE row + 1
  /\ status' = IF last THEN "EXIT_SUCCESS" ELSE status

CleanupWith(last) ==
  \/ /\ Succeeds("cleanup", IF last THEN "close" ELSE "parser")
     /\ flags' = flags \ {"adapter_is_prepared"} /\ Release({"inputs"})
     /\ LoopEnd(last)
     /\ UNCHANGED <<outcome, disk>>
  \/ Fails("cleanup") /\ UNCHANGED <<flags, held, outcome, disk>>
CleanupEarly == CleanupWith(row + 1 >= Len(configs))  \* mutant

Cleanup == CleanupWith(row = Len(configs))

-----------------------------------------------------------------------------
(* The epilogue: every step happens if its flag is set                      *)

\* An epilogue step that releases a thing, or fails to and goes on.
Epilogue(at, next, flag, call, thing) ==
  /\ pc = at
  /\ pc' = next
  /\ \/ flag \notin flags /\ UNCHANGED <<held, status, failed>>
     \/ flag \in flags /\ Release({thing}) /\ UNCHANGED <<status, failed>>
     \/ /\ flag \in flags /\ call \in MayFail
        /\ status' = "EXIT_FAILURE" /\ failed' = failed \cup {call}
        /\ UNCHANGED held
  /\ UNCHANGED <<configs, row, flags, outcome, disk>>

\* An fclose that fails closes the stream all the same.
EpilogueClose ==
  /\ pc = "close"
  /\ pc' = "free"
  /\ \/ "output" \notin flags /\ UNCHANGED <<held, status, failed>>
     \/ "output" \in flags /\ Release({"output"}) /\ UNCHANGED <<status, failed>>
     \/ /\ "output" \in flags /\ "fclose" \in MayFail
        /\ status' = "EXIT_FAILURE" /\ failed' = failed \cup {"fclose"}
        /\ Release({"output"})
  /\ UNCHANGED <<configs, row, flags, outcome, disk>>

\* free() of the path and the pairs, NULL or not.
EpilogueFree ==
  /\ pc = "free"
  /\ pc' = "epilogue_free_outputs"
  /\ Release({"output_path", "sources"} \cap flags)
  /\ UNCHANGED <<configs, row, status, flags, outcome, disk, failed>>

EpilogueFreeOutputsNever ==  \* mutant
  /\ pc = "epilogue_free_outputs" /\ pc' = "epilogue_cleanup"
  /\ UNCHANGED <<configs, row, status, flags, held, outcome, disk, failed>>
EpilogueFreeOutputs ==
  Epilogue("epilogue_free_outputs", "epilogue_cleanup", "outputs_are_initialized", "free_outputs", "outputs")

EpilogueCleanup ==
  Epilogue("epilogue_cleanup", "free_parser_result", "adapter_is_prepared", "cleanup", "inputs")

EpilogueFreeParserResult ==
  /\ pc = "free_parser_result"
  /\ pc' = "epilogue_teardown"
  /\ Release(IF "parser_result_is_initialized" \in flags THEN {"parser_result"} ELSE {})
  /\ UNCHANGED <<configs, row, status, flags, outcome, disk, failed>>

EpilogueTeardown ==
  Epilogue("epilogue_teardown", "returned", "adapter_is_setup", "teardown", "library")

Finished == pc \in {"returned", "exit"} /\ UNCHANGED vars

Step ==
  \/ Stat \/ Setup \/ Parser \/ Prepare \/ InitOutputs \/ Run \/ GetPairs \/ MakePath
  \/ OpenOutput \/ write_result \/ CloseOutput \/ FreeOutputs \/ Cleanup
  \/ EpilogueClose \/ EpilogueFree \/ EpilogueFreeOutputs \/ EpilogueCleanup
  \/ EpilogueFreeParserResult \/ EpilogueTeardown

Next == Step \/ Finished

Spec == Init /\ [][Next]_vars

-----------------------------------------------------------------------------
(* Properties *)

Things == {"library", "inputs", "outputs", "parser_result", "sources", "output_path", "output"}

(***************************************************************************)
(* Nothing is allocated over something held and nothing is released twice, *)
(* wherever the jump to the epilogue comes from; and what main() returns   *)
(* without releasing is what a call has failed to release.                 *)
(***************************************************************************)
ReleasedOnce ==
  /\ held \subseteq Things
  /\ pc = "returned" =>
       /\ "outputs" \in held => "free_outputs" \in failed
       /\ "inputs" \in held => "cleanup" \in failed
       /\ "library" \in held => "teardown" \in failed
       /\ held \subseteq {"outputs", "inputs", "library"}

\* No other row is written to the file of this one.
OwnFile(r) == \A s \in DOMAIN configs : output_path(s) = output_path(r) => s = r

(***************************************************************************)
(* The extractor reports success exactly when no call has failed and there *)
(* was a row, and then the file of every row holds all the pairs of that   *)
(* row, if it is the row's own.  Rows whose grammars and graphs have the   *)
(* same base names share a file although README.md:344 promises one per    *)
(* row: for them nothing is claimed.                                       *)
(***************************************************************************)
SuccessMeansWritten ==
  pc = "returned" =>
    /\ status = "EXIT_SUCCESS" <=> failed = {} /\ configs # <<>>
    /\ status = "EXIT_SUCCESS" =>
         \A r \in DOMAIN configs : OwnFile(r) => disk[output_path(r)] = r

\* The lifecycle of CFL_adv, from what is held and the outcome of the last run.
LifeFrom(things, result) ==
  CASE "library" \notin things -> IF {"inputs", "outputs"} \cap things = {} THEN "down" ELSE "leaked"
    [] "library" \in things /\ "inputs" \notin things ->
         IF "outputs" \in things THEN "outputs only" ELSE "up"
    [] {"library", "inputs"} \subseteq things /\ "outputs" \notin things -> "prepared"
    [] OTHER -> IF result = "fresh" THEN "outputs" ELSE result

Life == LifeFrom(held, outcome)

Lifecycle == INSTANCE AdapterLifecycle WITH life <- Life

(***************************************************************************)
(* adapter.h:12 "An adapter must be used in the following order": the loop *)
(* and the epilogue do, wherever the jump comes from, until free_outputs   *)
(* or cleanup itself fails (then cleanup or teardown goes on over what is  *)
(* left).                                                                  *)
(***************************************************************************)
LifecycleObeyed ==
  /\ Lifecycle!Init
  /\ [][failed' \cap {"free_outputs", "cleanup"} = {} => Lifecycle!Next \/ Life' = Life]_vars
=============================================================================
