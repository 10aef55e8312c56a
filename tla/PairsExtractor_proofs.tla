------------------------ MODULE PairsExtractor_proofs -----------------------
(***************************************************************************)
(* For any config file and whichever calls fail: the epilogue of main() in *)
(* src/pairs_extractor.c releases everything once, main() obeys the order  *)
(* of calls of adapter.h, and it reports success exactly when the file of  *)
(* every row has been written.                                             *)
(***************************************************************************)
EXTENDS PairsExtractor, SequenceTheorems, TLAPS

(***************************************************************************)
(* What is held.  Inside the loop the flags follow from the place main()   *)
(* is at, and each says truly whether its thing is held.  In the epilogue  *)
(* this lasts until the turn of the thing has come.                        *)
(***************************************************************************)
Running ==
  {"run", "get_reachable_pairs", "make_output_path", "fopen", "write_result", "fclose",
   "free_outputs"}

FlagsOfPlace ==
  /\ "adapter_is_setup" \in flags <=> pc \notin {"stat", "setup"}
  /\ "parser_result_is_initialized" \in flags <=> pc = "prepare"
  /\ "adapter_is_prepared" \in flags <=> pc \in Running \cup {"init_outputs", "cleanup"}
  /\ "outputs_are_initialized" \in flags <=> pc \in Running
  /\ "sources" \in flags <=> pc \in {"make_output_path", "fopen", "write_result", "fclose"}
  /\ "output_path" \in flags <=> pc \in {"fopen", "write_result", "fclose"}
  /\ "output" \in flags <=> pc \in {"write_result", "fclose"}

Loop ==
  {"stat", "setup", "parser", "prepare", "init_outputs", "run", "get_reachable_pairs",
   "make_output_path", "fopen", "write_result", "fclose", "free_outputs", "cleanup"}

\* The places of the epilogue, each with those before it.
ToClose == Loop \cup {"close"}
ToFree == ToClose \cup {"free"}
ToFreeOutputs == ToFree \cup {"epilogue_free_outputs"}
ToCleanup == ToFreeOutputs \cup {"epilogue_cleanup"}
ToFreeParserResult == ToCleanup \cup {"free_parser_result"}
ToTeardown == ToFreeParserResult \cup {"epilogue_teardown"}

\* The flag tells the truth.
Has(thing, flag) == thing \in held <=> flag \in flags

\* Until its turn, a thing is held if its flag is set; then only if call has failed.
Released(thing, flag, before, call) ==
  /\ pc \in before => Has(thing, flag)
  /\ pc \notin before => (thing \in held => call \in failed)

\* Until its turn, a thing is held if its flag is set; then never.
FreedAt(thing, flag, before) ==
  /\ pc \in before => Has(thing, flag)
  /\ pc \notin before => thing \notin held

FlagsNest ==
  /\ "outputs_are_initialized" \in flags => "adapter_is_prepared" \in flags
  /\ "adapter_is_prepared" \in flags => "adapter_is_setup" \in flags

FlagInv ==
  /\ pc \in ToTeardown \cup {"returned", "exit"}
  /\ pc \in Loop => FlagsOfPlace
  /\ FlagsNest

ThingsInv ==
  pc # "exit" =>
    /\ FreedAt("output", "output", ToClose)
    /\ FreedAt("sources", "sources", ToFree)
    /\ FreedAt("output_path", "output_path", ToFree)
    /\ FreedAt("parser_result", "parser_result_is_initialized", ToFreeParserResult)
    /\ Released("outputs", "outputs_are_initialized", ToFreeOutputs, "free_outputs")
    /\ Released("inputs", "adapter_is_prepared", ToCleanup, "cleanup")
    /\ Released("library", "adapter_is_setup", ToTeardown, "teardown")

\* The outputs hold the result of a run, but between init_outputs and run.
OutcomeInv ==
  /\ pc = "run" => outcome = "fresh"
  /\ pc \in Running \ {"run"} => outcome = "ran"
  /\ pc \notin {"run", "exit"} => ("outputs" \in held => outcome \in {"ran", "failed"})

HeldInv == held \subseteq Things /\ FlagInv /\ ThingsInv /\ OutcomeInv

(***************************************************************************)
(* What is written.  Until a call fails, the rows before the current one   *)
(* are on disk, but for the file that is being written; so is the current  *)
(* one after its fclose.                                                   *)
(***************************************************************************)
SameFile(r, n) == {s \in r .. n : output_path(s) = output_path(r)}

Written(n) == \A r \in 1 .. n : disk[output_path(r)] \in SameFile(r, n)

WrittenElsewhere ==
  \A r \in 1 .. row - 1 :
    output_path(r) # output_path(row) => disk[output_path(r)] \in SameFile(r, row - 1)

DiskInv ==
  /\ configs \in Seq(Row)
  /\ DOMAIN disk = OutputFiles
  /\ row \in Nat \ {0}
  /\ pc \in Loop =>
       /\ failed = {} /\ status = "EXIT_FAILURE"
       /\ pc = "stat" => row = 1
       /\ pc # "stat" => row <= Len(configs)
       /\ CASE pc \in {"write_result", "fclose"} -> WrittenElsewhere
            [] pc \in {"free_outputs", "cleanup"} -> Written(row)
            [] OTHER -> Written(row - 1)
  /\ pc \notin Loop \cup {"exit"} =>
       /\ status = "EXIT_SUCCESS" <=> failed = {} /\ configs # <<>>
       /\ status = "EXIT_SUCCESS" => Written(Len(configs))
-----------------------------------------------------------------------------
(* What is held                                                             *)

USE DEF Things, Running, FlagsOfPlace, Loop, ToClose, ToFree, ToFreeOutputs, ToCleanup,
        ToFreeParserResult, ToTeardown, Has, Released, FreedAt, FlagsNest

LEMMA AllocFresh ==
  ASSUME NEW x, x \notin held, Alloc({x}) PROVE \A y : y \in held' <=> y \in held \/ y = x
<1>1. {x} \cap held = {}
  OBVIOUS
<1> QED BY <1>1 DEF Alloc

LEMMA ReleaseHeld ==
  ASSUME NEW S, S \subseteq held, Release(S) PROVE \A y : y \in held' <=> y \in held /\ y \notin S
  BY DEF Release

LEMMA HeldInit == Init => HeldInv
  BY DEF Init, HeldInv, FlagInv, ThingsInv, OutcomeInv

\* A call of the loop fails, or there is no row: the epilogue finds what is held.
Jump ==
  /\ pc \in Loop /\ pc' \in {"close", "exit"} /\ flags' = flags /\ held' = held
  /\ outcome' = IF pc = "run" THEN "failed" ELSE outcome

LEMMA HeldJump == HeldInv /\ Jump => HeldInv'
<1> SUFFICES ASSUME HeldInv, Jump PROVE HeldInv'
  OBVIOUS
<1>1. pc \in Loop /\ pc' \in {"close", "exit"} /\ flags' = flags /\ held' = held
  BY DEF Jump
<1>2. (held \subseteq Things)'
  BY <1>1 DEF HeldInv
<1>3. FlagInv'
  BY <1>1 DEF HeldInv, FlagInv
<1>4. ThingsInv'
  BY <1>1 DEF HeldInv, FlagInv, ThingsInv
<1>5. OutcomeInv'
  BY <1>1 DEF HeldInv, FlagInv, ThingsInv, OutcomeInv, Jump
<1> QED BY <1>2, <1>3, <1>4, <1>5 DEF HeldInv

LEMMA HeldSetup == HeldInv /\ Setup => HeldInv'
<1> SUFFICES ASSUME HeldInv, Setup PROVE HeldInv'
  OBVIOUS
<1>1. CASE Jump
  BY <1>1, HeldJump
<1>2. CASE ~Jump
  <2>1. /\ pc = "setup" /\ pc' = "parser" /\ outcome' = outcome
        /\ flags' = flags \cup {"adapter_is_setup"} /\ Alloc({"library"})
    BY <1>2 DEF Setup, Succeeds, Fails, Jump
  <2>2. \A y : y \in held' <=> y \in held \/ y = "library"
    BY <2>1, AllocFresh DEF HeldInv, FlagInv, ThingsInv
  <2>3. (held \subseteq Things)'
    BY <2>2 DEF HeldInv
  <2>4. FlagInv'
    BY <2>1 DEF HeldInv, FlagInv
  <2>5. ThingsInv'
    BY <2>1, <2>2 DEF HeldInv, FlagInv, ThingsInv
  <2>6. OutcomeInv'
    BY <2>1, <2>2 DEF HeldInv, FlagInv, ThingsInv, OutcomeInv
  <2> QED BY <2>3, <2>4, <2>5, <2>6 DEF HeldInv
<1> QED BY <1>1, <1>2

LEMMA HeldParser == HeldInv /\ Parser => HeldInv'
<1> SUFFICES ASSUME HeldInv, Parser PROVE HeldInv'
  OBVIOUS
<1>1. CASE Jump
  BY <1>1, HeldJump
<1>2. CASE ~Jump
  <2>1. /\ pc = "parser" /\ pc' = "prepare" /\ outcome' = outcome
        /\ flags' = flags \cup {"parser_result_is_initialized"} /\ Alloc({"parser_result"})
    BY <1>2 DEF Parser, Succeeds, Fails, Jump
  <2>2. \A y : y \in held' <=> y \in held \/ y = "parser_result"
    BY <2>1, AllocFresh DEF HeldInv, FlagInv, ThingsInv
  <2>3. (held \subseteq Things)'
    BY <2>2 DEF HeldInv
  <2>4. FlagInv'
    BY <2>1 DEF HeldInv, FlagInv
  <2>5. ThingsInv'
    BY <2>1, <2>2 DEF HeldInv, FlagInv, ThingsInv
  <2>6. OutcomeInv'
    BY <2>1, <2>2 DEF HeldInv, FlagInv, ThingsInv, OutcomeInv
  <2> QED BY <2>3, <2>4, <2>5, <2>6 DEF HeldInv
<1> QED BY <1>1, <1>2

LEMMA HeldInitOutputs == HeldInv /\ InitOutputs => HeldInv'
<1> SUFFICES ASSUME HeldInv, InitOutputs PROVE HeldInv'
  OBVIOUS
<1>1. CASE Jump
  BY <1>1, HeldJump
<1>2. CASE ~Jump
  <2>1. /\ pc = "init_outputs" /\ pc' = "run" /\ outcome' = "fresh"
        /\ flags' = flags \cup {"outputs_are_initialized"} /\ Alloc({"outputs"})
    BY <1>2 DEF InitOutputs, Succeeds, Fails, Jump
  <2>2. \A y : y \in held' <=> y \in held \/ y = "outputs"
    BY <2>1, AllocFresh DEF HeldInv, FlagInv, ThingsInv
  <2>3. (held \subseteq Things)'
    BY <2>2 DEF HeldInv
  <2>4. FlagInv'
    BY <2>1 DEF HeldInv, FlagInv
  <2>5. ThingsInv'
    BY <2>1, <2>2 DEF HeldInv, FlagInv, ThingsInv
  <2>6. OutcomeInv'
    BY <2>1, <2>2 DEF HeldInv, FlagInv, ThingsInv, OutcomeInv
  <2> QED BY <2>3, <2>4, <2>5, <2>6 DEF HeldInv
<1> QED BY <1>1, <1>2

LEMMA HeldGetPairs == HeldInv /\ GetPairs => HeldInv'
<1> SUFFICES ASSUME HeldInv, GetPairs PROVE HeldInv'
  OBVIOUS
<1>1. CASE Jump
  BY <1>1, HeldJump
<1>2. CASE ~Jump
  <2>1. /\ pc = "get_reachable_pairs" /\ pc' = "make_output_path" /\ outcome' = outcome
        /\ flags' = flags \cup {"sources"} /\ Alloc({"sources"})
    BY <1>2 DEF GetPairs, Succeeds, Fails, Jump
  <2>2. \A y : y \in held' <=> y \in held \/ y = "sources"
    BY <2>1, AllocFresh DEF HeldInv, FlagInv, ThingsInv
  <2>3. (held \subseteq Things)'
    BY <2>2 DEF HeldInv
  <2>4. FlagInv'
    BY <2>1 DEF HeldInv, FlagInv
  <2>5. ThingsInv'
    BY <2>1, <2>2 DEF HeldInv, FlagInv, ThingsInv
  <2>6. OutcomeInv'
    BY <2>1, <2>2 DEF HeldInv, FlagInv, ThingsInv, OutcomeInv
  <2> QED BY <2>3, <2>4, <2>5, <2>6 DEF HeldInv
<1> QED BY <1>1, <1>2

LEMMA HeldMakePath == HeldInv /\ MakePath => HeldInv'
<1> SUFFICES ASSUME HeldInv, MakePath PROVE HeldInv'
  OBVIOUS
<1>1. CASE Jump
  BY <1>1, HeldJump
<1>2. CASE ~Jump
  <2>1. /\ pc = "make_output_path" /\ pc' = "fopen" /\ outcome' = outcome
        /\ flags' = flags \cup {"output_path"} /\ Alloc({"output_path"})
    BY <1>2 DEF MakePath, Succeeds, Fails, Jump
  <2>2. \A y : y \in held' <=> y \in held \/ y = "output_path"
    BY <2>1, AllocFresh DEF HeldInv, FlagInv, ThingsInv
  <2>3. (held \subseteq Things)'
    BY <2>2 DEF HeldInv
  <2>4. FlagInv'
    BY <2>1 DEF HeldInv, FlagInv
  <2>5. ThingsInv'
    BY <2>1, <2>2 DEF HeldInv, FlagInv, ThingsInv
  <2>6. OutcomeInv'
    BY <2>1, <2>2 DEF HeldInv, FlagInv, ThingsInv, OutcomeInv
  <2> QED BY <2>3, <2>4, <2>5, <2>6 DEF HeldInv
<1> QED BY <1>1, <1>2

LEMMA HeldOpenOutput == HeldInv /\ OpenOutput => HeldInv'
<1> SUFFICES ASSUME HeldInv, OpenOutput PROVE HeldInv'
  OBVIOUS
<1>1. CASE Jump
  BY <1>1, HeldJump
<1>2. CASE ~Jump
  <2>1. /\ pc = "fopen" /\ pc' = "write_result" /\ outcome' = outcome
        /\ flags' = flags \cup {"output"} /\ Alloc({"output"})
    BY <1>2 DEF OpenOutput, Succeeds, Fails, Jump
  <2>2. \A y : y \in held' <=> y \in held \/ y = "output"
    BY <2>1, AllocFresh DEF HeldInv, FlagInv, ThingsInv
  <2>3. (held \subseteq Things)'
    BY <2>2 DEF HeldInv
  <2>4. FlagInv'
    BY <2>1 DEF HeldInv, FlagInv
  <2>5. ThingsInv'
    BY <2>1, <2>2 DEF HeldInv, FlagInv, ThingsInv
  <2>6. OutcomeInv'
    BY <2>1, <2>2 DEF HeldInv, FlagInv, ThingsInv, OutcomeInv
  <2> QED BY <2>3, <2>4, <2>5, <2>6 DEF HeldInv
<1> QED BY <1>1, <1>2

LEMMA HeldPrepare == HeldInv /\ Prepare => HeldInv'
<1> SUFFICES ASSUME HeldInv, Prepare PROVE HeldInv'
  OBVIOUS
<1>1. CASE Jump
  BY <1>1, HeldJump
<1>2. CASE ~Jump
  <2>1. /\ pc = "prepare" /\ pc' = "init_outputs" /\ outcome' = outcome
        /\ flags' = (flags \cup {"adapter_is_prepared"}) \ {"parser_result_is_initialized"}
        /\ held' = (held \ {"parser_result"}) \cup {"inputs"}
                     \cup (IF "inputs" \in held THEN {"leak"} ELSE {})
    BY <1>2 DEF Prepare, Succeeds, Fails, Jump
  <2>2. \A y : y \in held' <=> (y \in held /\ y # "parser_result") \/ y = "inputs"
    BY <2>1 DEF HeldInv, FlagInv, ThingsInv
  <2>3. (held \subseteq Things)'
    BY <2>2 DEF HeldInv
  <2>4. FlagInv'
    BY <2>1 DEF HeldInv, FlagInv
  <2>5. ThingsInv'
    BY <2>1, <2>2 DEF HeldInv, FlagInv, ThingsInv
  <2>6. OutcomeInv'
    BY <2>1, <2>2 DEF HeldInv, FlagInv, ThingsInv, OutcomeInv
  <2> QED BY <2>3, <2>4, <2>5, <2>6 DEF HeldInv
<1> QED BY <1>1, <1>2

LEMMA HeldRun == HeldInv /\ Run => HeldInv'
<1> SUFFICES ASSUME HeldInv, Run PROVE HeldInv'
  OBVIOUS
<1>1. CASE Jump
  BY <1>1, HeldJump
<1>2. CASE ~Jump
  <2>1. /\ pc = "run" /\ pc' = "get_reachable_pairs" /\ outcome' = "ran"
        /\ flags' = flags /\ held' = held
    BY <1>2 DEF Run, Succeeds, Fails, Jump
  <2>2. \A y : y \in held' <=> y \in held
    BY <2>1
  <2>3. (held \subseteq Things)'
    BY <2>2 DEF HeldInv
  <2>4. FlagInv'
    BY <2>1 DEF HeldInv, FlagInv
  <2>5. ThingsInv'
    BY <2>1, <2>2 DEF HeldInv, FlagInv, ThingsInv
  <2>6. OutcomeInv'
    BY <2>1, <2>2 DEF HeldInv, FlagInv, ThingsInv, OutcomeInv
  <2> QED BY <2>3, <2>4, <2>5, <2>6 DEF HeldInv
<1> QED BY <1>1, <1>2

LEMMA HeldWrite == HeldInv /\ write_result => HeldInv'
<1> SUFFICES ASSUME HeldInv, write_result PROVE HeldInv'
  OBVIOUS
<1>1. CASE Jump
  BY <1>1, HeldJump
<1>2. CASE ~Jump
  <2>1. /\ pc = "write_result" /\ pc' = "fclose" /\ outcome' = outcome
        /\ flags' = flags /\ held' = held
    BY <1>2 DEF write_result, Succeeds, Fails, Jump
  <2>2. \A y : y \in held' <=> y \in held
    BY <2>1
  <2>3. (held \subseteq Things)'
    BY <2>2 DEF HeldInv
  <2>4. FlagInv'
    BY <2>1 DEF HeldInv, FlagInv
  <2>5. ThingsInv'
    BY <2>1, <2>2 DEF HeldInv, FlagInv, ThingsInv
  <2>6. OutcomeInv'
    BY <2>1, <2>2 DEF HeldInv, FlagInv, ThingsInv, OutcomeInv
  <2> QED BY <2>3, <2>4, <2>5, <2>6 DEF HeldInv
<1> QED BY <1>1, <1>2

LEMMA HeldFreeOutputs == HeldInv /\ FreeOutputs => HeldInv'
<1> SUFFICES ASSUME HeldInv, FreeOutputs PROVE HeldInv'
  OBVIOUS
<1>1. CASE Jump
  BY <1>1, HeldJump
<1>2. CASE ~Jump
  <2>1. /\ pc = "free_outputs" /\ pc' = "cleanup" /\ outcome' = outcome
        /\ flags' = flags \ {"outputs_are_initialized"} /\ Release({"outputs"})
    BY <1>2 DEF FreeOutputs, Succeeds, Fails, Jump
  <2>2. \A y : y \in held' <=> y \in held /\ y # "outputs"
    BY <2>1, ReleaseHeld DEF HeldInv, FlagInv, ThingsInv
  <2>3. (held \subseteq Things)'
    BY <2>2 DEF HeldInv
  <2>4. FlagInv'
    BY <2>1 DEF HeldInv, FlagInv
  <2>5. ThingsInv'
    BY <2>1, <2>2 DEF HeldInv, FlagInv, ThingsInv
  <2>6. OutcomeInv'
    BY <2>1, <2>2 DEF HeldInv, FlagInv, ThingsInv, OutcomeInv
  <2> QED BY <2>3, <2>4, <2>5, <2>6 DEF HeldInv
<1> QED BY <1>1, <1>2

LEMMA HeldCleanup == HeldInv /\ Cleanup => HeldInv'
<1> SUFFICES ASSUME HeldInv, Cleanup PROVE HeldInv'
  OBVIOUS
<1>1. CASE Jump
  BY <1>1, HeldJump
<1>2. CASE ~Jump
  <2>1. /\ pc = "cleanup" /\ pc' \in {"close", "parser"} /\ outcome' = outcome
        /\ flags' = flags \ {"adapter_is_prepared"} /\ Release({"inputs"})
    BY <1>2 DEF Cleanup, Succeeds, Fails, Jump, CleanupWith
  <2>2. \A y : y \in held' <=> y \in held /\ y # "inputs"
    BY <2>1, ReleaseHeld DEF HeldInv, FlagInv, ThingsInv
  <2>3. (held \subseteq Things)'
    BY <2>2 DEF HeldInv
  <2>4. FlagInv'
    BY <2>1 DEF HeldInv, FlagInv
  <2>5. ThingsInv'
    BY <2>1, <2>2 DEF HeldInv, FlagInv, ThingsInv
  <2>6. OutcomeInv'
    BY <2>1, <2>2 DEF HeldInv, FlagInv, ThingsInv, OutcomeInv
  <2> QED BY <2>3, <2>4, <2>5, <2>6 DEF HeldInv
<1> QED BY <1>1, <1>2

LEMMA HeldStat == HeldInv /\ Stat => HeldInv'
<1> SUFFICES ASSUME HeldInv, Stat PROVE HeldInv'
  OBVIOUS
<1>1. CASE Jump
  BY <1>1, HeldJump
<1>2. CASE ~Jump
  <2>1. pc = "stat" /\ pc' = "setup" /\ outcome' = outcome /\ flags' = flags /\ held' = held
    BY <1>2 DEF Stat, Succeeds, Fails, Jump
  <2>2. \A y : y \in held' <=> y \in held
    BY <2>1
  <2>3. (held \subseteq Things)'
    BY <2>2 DEF HeldInv
  <2>4. FlagInv'
    BY <2>1 DEF HeldInv, FlagInv
  <2>5. ThingsInv'
    BY <2>1, <2>2 DEF HeldInv, FlagInv, ThingsInv
  <2>6. OutcomeInv'
    BY <2>1, <2>2 DEF HeldInv, FlagInv, ThingsInv, OutcomeInv
  <2> QED BY <2>3, <2>4, <2>5, <2>6 DEF HeldInv
<1> QED BY <1>1, <1>2

LEMMA HeldCloseOutput == HeldInv /\ CloseOutput => HeldInv'
<1> SUFFICES ASSUME HeldInv, CloseOutput PROVE HeldInv'
  OBVIOUS
<1>1. CASE pc' # "close"
  <2>1. /\ pc = "fclose" /\ pc' = "free_outputs" /\ outcome' = outcome
        /\ flags' = flags \ {"output", "output_path", "sources"}
        /\ Release({"output", "output_path", "sources"})
    BY <1>1 DEF CloseOutput, Succeeds, Fails
  <2>2. \A y : y \in held' <=> y \in held /\ y \notin {"output", "output_path", "sources"}
    BY <2>1, ReleaseHeld DEF HeldInv, FlagInv, ThingsInv
  <2>3. (held \subseteq Things)'
    BY <2>2 DEF HeldInv
  <2>4. FlagInv'
    BY <2>1 DEF HeldInv, FlagInv
  <2>5. ThingsInv'
    BY <2>1, <2>2 DEF HeldInv, FlagInv, ThingsInv
  <2>6. OutcomeInv'
    BY <2>1, <2>2 DEF HeldInv, FlagInv, ThingsInv, OutcomeInv
  <2> QED BY <2>3, <2>4, <2>5, <2>6 DEF HeldInv
<1>2. CASE pc' = "close"
  <2>1. /\ pc = "fclose" /\ pc' = "close" /\ outcome' = outcome
        /\ flags' = flags \ {"output"} /\ Release({"output"})
    BY <1>2 DEF CloseOutput, Succeeds, Fails
  <2>2. \A y : y \in held' <=> y \in held /\ y # "output"
    BY <2>1, ReleaseHeld DEF HeldInv, FlagInv, ThingsInv
  <2>3. (held \subseteq Things)'
    BY <2>2 DEF HeldInv
  <2>4. FlagInv'
    BY <2>1 DEF HeldInv, FlagInv
  <2>5. ThingsInv'
    BY <2>1, <2>2 DEF HeldInv, FlagInv, ThingsInv
  <2>6. OutcomeInv'
    BY <2>1, <2>2 DEF HeldInv, FlagInv, ThingsInv, OutcomeInv
  <2> QED BY <2>3, <2>4, <2>5, <2>6 DEF HeldInv
<1> QED BY <1>1, <1>2

LEMMA HeldEpilogueClose == HeldInv /\ EpilogueClose => HeldInv'
<1> SUFFICES ASSUME HeldInv, EpilogueClose PROVE HeldInv'
  OBVIOUS
<1>1. /\ pc = "close" /\ pc' = "free" /\ outcome' = outcome
      /\ flags' = flags /\ failed \subseteq failed'
  BY DEF EpilogueClose
<1>2. \A y : y \in held' <=> y \in held /\ y # "output"
  BY <1>1, ReleaseHeld DEF EpilogueClose, HeldInv, ThingsInv
<1>3. (held \subseteq Things)'
  BY <1>2 DEF HeldInv
<1>4. FlagInv'
  BY <1>1 DEF HeldInv, FlagInv
<1>5. ThingsInv'
  BY <1>1, <1>2 DEF HeldInv, FlagInv, ThingsInv
<1>6. OutcomeInv'
  BY <1>1, <1>2 DEF HeldInv, FlagInv, ThingsInv, OutcomeInv
<1> QED BY <1>3, <1>4, <1>5, <1>6 DEF HeldInv

LEMMA HeldEpilogueFree == HeldInv /\ EpilogueFree => HeldInv'
<1> SUFFICES ASSUME HeldInv, EpilogueFree PROVE HeldInv'
  OBVIOUS
<1>1. /\ pc = "free" /\ pc' = "epilogue_free_outputs" /\ outcome' = outcome
      /\ flags' = flags /\ failed \subseteq failed'
  BY DEF EpilogueFree
<1>2. \A y : y \in held' <=> y \in held /\ y \notin {"output_path", "sources"}
  BY <1>1, ReleaseHeld DEF EpilogueFree, HeldInv, ThingsInv
<1>3. (held \subseteq Things)'
  BY <1>2 DEF HeldInv
<1>4. FlagInv'
  BY <1>1 DEF HeldInv, FlagInv
<1>5. ThingsInv'
  BY <1>1, <1>2 DEF HeldInv, FlagInv, ThingsInv
<1>6. OutcomeInv'
  BY <1>1, <1>2 DEF HeldInv, FlagInv, ThingsInv, OutcomeInv
<1> QED BY <1>3, <1>4, <1>5, <1>6 DEF HeldInv

LEMMA HeldEpilogueFreeParserResult == HeldInv /\ EpilogueFreeParserResult => HeldInv'
<1> SUFFICES ASSUME HeldInv, EpilogueFreeParserResult PROVE HeldInv'
  OBVIOUS
<1>1. /\ pc = "free_parser_result" /\ pc' = "epilogue_teardown" /\ outcome' = outcome
      /\ flags' = flags /\ failed \subseteq failed'
  BY DEF EpilogueFreeParserResult
<1>2. \A y : y \in held' <=> y \in held /\ y # "parser_result"
  BY <1>1, ReleaseHeld DEF EpilogueFreeParserResult, HeldInv, ThingsInv
<1>3. (held \subseteq Things)'
  BY <1>2 DEF HeldInv
<1>4. FlagInv'
  BY <1>1 DEF HeldInv, FlagInv
<1>5. ThingsInv'
  BY <1>1, <1>2 DEF HeldInv, FlagInv, ThingsInv
<1>6. OutcomeInv'
  BY <1>1, <1>2 DEF HeldInv, FlagInv, ThingsInv, OutcomeInv
<1> QED BY <1>3, <1>4, <1>5, <1>6 DEF HeldInv

LEMMA HeldEpilogueFreeOutputs == HeldInv /\ EpilogueFreeOutputs => HeldInv'
<1> SUFFICES ASSUME HeldInv, EpilogueFreeOutputs PROVE HeldInv'
  OBVIOUS
<1>1. /\ pc = "epilogue_free_outputs" /\ pc' = "epilogue_cleanup" /\ outcome' = outcome
      /\ flags' = flags /\ failed \subseteq failed'
  BY DEF EpilogueFreeOutputs, Epilogue
<1>2. /\ \A y : y # "outputs" => (y \in held' <=> y \in held)
      /\ "outputs" \in held' => "outputs" \in held /\ "free_outputs" \in failed'
  BY <1>1, ReleaseHeld DEF EpilogueFreeOutputs, Epilogue, HeldInv, ThingsInv
<1>3. (held \subseteq Things)'
  BY <1>2 DEF HeldInv
<1>4. FlagInv'
  BY <1>1 DEF HeldInv, FlagInv
<1>5. ThingsInv'
  BY <1>1, <1>2 DEF HeldInv, FlagInv, ThingsInv
<1>6. OutcomeInv'
  BY <1>1, <1>2 DEF HeldInv, FlagInv, ThingsInv, OutcomeInv
<1> QED BY <1>3, <1>4, <1>5, <1>6 DEF HeldInv

LEMMA HeldEpilogueCleanup == HeldInv /\ EpilogueCleanup => HeldInv'
<1> SUFFICES ASSUME HeldInv, EpilogueCleanup PROVE HeldInv'
  OBVIOUS
<1>1. /\ pc = "epilogue_cleanup" /\ pc' = "free_parser_result" /\ outcome' = outcome
      /\ flags' = flags /\ failed \subseteq failed'
  BY DEF EpilogueCleanup, Epilogue
<1>2. /\ \A y : y # "inputs" => (y \in held' <=> y \in held)
      /\ "inputs" \in held' => "inputs" \in held /\ "cleanup" \in failed'
  BY <1>1, ReleaseHeld DEF EpilogueCleanup, Epilogue, HeldInv, ThingsInv
<1>3. (held \subseteq Things)'
  BY <1>2 DEF HeldInv
<1>4. FlagInv'
  BY <1>1 DEF HeldInv, FlagInv
<1>5. ThingsInv'
  BY <1>1, <1>2 DEF HeldInv, FlagInv, ThingsInv
<1>6. OutcomeInv'
  BY <1>1, <1>2 DEF HeldInv, FlagInv, ThingsInv, OutcomeInv
<1> QED BY <1>3, <1>4, <1>5, <1>6 DEF HeldInv

LEMMA HeldEpilogueTeardown == HeldInv /\ EpilogueTeardown => HeldInv'
<1> SUFFICES ASSUME HeldInv, EpilogueTeardown PROVE HeldInv'
  OBVIOUS
<1>1. /\ pc = "epilogue_teardown" /\ pc' = "returned" /\ outcome' = outcome
      /\ flags' = flags /\ failed \subseteq failed'
  BY DEF EpilogueTeardown, Epilogue
<1>2. /\ \A y : y # "library" => (y \in held' <=> y \in held)
      /\ "library" \in held' => "library" \in held /\ "teardown" \in failed'
  BY <1>1, ReleaseHeld DEF EpilogueTeardown, Epilogue, HeldInv, ThingsInv
<1>3. (held \subseteq Things)'
  BY <1>2 DEF HeldInv
<1>4. FlagInv'
  BY <1>1 DEF HeldInv, FlagInv
<1>5. ThingsInv'
  BY <1>1, <1>2 DEF HeldInv, FlagInv, ThingsInv
<1>6. OutcomeInv'
  BY <1>1, <1>2 DEF HeldInv, FlagInv, ThingsInv, OutcomeInv
<1> QED BY <1>3, <1>4, <1>5, <1>6 DEF HeldInv

LEMMA HeldNext == HeldInv /\ [Next]_vars => HeldInv'
<1>1. HeldInv /\ UNCHANGED vars => HeldInv'
  BY DEF HeldInv, FlagInv, ThingsInv, OutcomeInv, vars
<1> QED
  BY <1>1, HeldStat, HeldSetup, HeldParser, HeldPrepare, HeldInitOutputs,
     HeldRun, HeldGetPairs, HeldMakePath, HeldOpenOutput, HeldWrite,
     HeldCloseOutput, HeldFreeOutputs, HeldCleanup, HeldEpilogueClose,
     HeldEpilogueFree, HeldEpilogueFreeOutputs, HeldEpilogueCleanup,
     HeldEpilogueFreeParserResult, HeldEpilogueTeardown DEF Next, Step,
     Finished

(***************************************************************************)
(* The invariant: what the extractor holds at each place of main().        *)
(***************************************************************************)
THEOREM ExtractorInvariant == Spec => []HeldInv
BY HeldInit, HeldNext, PTL DEF Spec

(***************************************************************************)
(* Wherever the jump to the epilogue comes from, everything is released    *)
(* once.                                                                   *)
(***************************************************************************)
THEOREM ExtractorReleasesOnce == Spec => []ReleasedOnce
<1>1. ASSUME HeldInv PROVE ReleasedOnce
  <2>1. ASSUME pc = "returned" PROVE
          /\ "outputs" \in held => "free_outputs" \in failed
          /\ "inputs" \in held => "cleanup" \in failed
          /\ "library" \in held => "teardown" \in failed
          /\ {"sources", "output_path", "output", "parser_result"} \cap held = {}
    BY <1>1, <2>1 DEF HeldInv, ThingsInv
  <2>2. held \subseteq Things
    BY <1>1 DEF HeldInv
  <2>3. ASSUME pc = "returned" PROVE held \subseteq {"outputs", "inputs", "library"}
    BY <2>1, <2>2, <2>3
  <2> QED BY <2>1, <2>2, <2>3 DEF ReleasedOnce
<1> QED BY <1>1, ExtractorInvariant, PTL

-----------------------------------------------------------------------------
(* The order of calls                                                       *)

LEMMA LifeValues ==
  ASSUME NEW things, NEW result
  PROVE  /\ "library" \notin things /\ "inputs" \notin things /\ "outputs" \notin things =>
              LifeFrom(things, result) = "down"
         /\ "library" \in things /\ "inputs" \notin things /\ "outputs" \notin things =>
              LifeFrom(things, result) = "up"
         /\ "library" \in things /\ "inputs" \in things /\ "outputs" \notin things =>
              LifeFrom(things, result) = "prepared"
         /\ "library" \in things /\ "inputs" \in things /\ "outputs" \in things =>
              LifeFrom(things, result) = IF result = "fresh" THEN "outputs" ELSE result
<1>1. "inputs" \notin things /\ "outputs" \notin things => {"inputs", "outputs"} \cap things = {}
  OBVIOUS
<1> QED BY <1>1 DEF LifeFrom

\* Life depends on these three things and on the outcome only.
LEMMA LifeFrame ==
  ASSUME NEW h1, NEW h2, NEW result,
         \A y \in {"library", "inputs", "outputs"} : y \in h1 <=> y \in h2
  PROVE  LifeFrom(h1, result) = LifeFrom(h2, result)
<1>1. {"inputs", "outputs"} \cap h1 = {} <=> {"inputs", "outputs"} \cap h2 = {}
  OBVIOUS
<1> QED BY <1>1 DEF LifeFrom

\* Inside the loop, the lifecycle is where main() is.
LoopLife(p, life) ==
  /\ p \in {"stat", "setup"} => life = "down"
  /\ p \in {"parser", "prepare"} => life = "up"
  /\ p \in {"init_outputs", "cleanup"} => life = "prepared"
  /\ p = "run" => life = "outputs"
  /\ p \in Running \ {"run"} => life = "ran"

LEMMA LifeInLoop == ASSUME HeldInv, pc \in Loop PROVE LoopLife(pc, Life)
<1>1. /\ "library" \in held <=> pc \notin {"stat", "setup"}
      /\ "inputs" \in held <=> pc \in Running \cup {"init_outputs", "cleanup"}
      /\ "outputs" \in held <=> pc \in Running
  BY DEF HeldInv, FlagInv, ThingsInv
<1>2. /\ pc = "run" => outcome = "fresh"
      /\ pc \in Running \ {"run"} => outcome = "ran"
  BY DEF HeldInv, OutcomeInv
<1> QED BY <1>1, <1>2, LifeValues DEF Life, LoopLife

LEMMA LifeInLoopNext == ASSUME HeldInv', pc' \in Loop PROVE LoopLife(pc', Life')
<1>1. /\ "library" \in held' <=> pc' \notin {"stat", "setup"}
      /\ "inputs" \in held' <=> pc' \in Running \cup {"init_outputs", "cleanup"}
      /\ "outputs" \in held' <=> pc' \in Running
  BY DEF HeldInv, FlagInv, ThingsInv
<1>2. /\ pc' = "run" => outcome' = "fresh"
      /\ pc' \in Running \ {"run"} => outcome' = "ran"
  BY DEF HeldInv, OutcomeInv
<1> QED BY <1>1, <1>2, LifeValues DEF Life, LoopLife

\* What one step may do to the abstract state.
LifeMove(l, m) ==
  \/ l = m
  \/ l = "down" /\ m = "up"
  \/ l = "up" /\ m \in {"prepared", "down"}
  \/ l = "prepared" /\ m \in {"outputs", "up"}
  \/ l = "outputs" /\ m \in {"ran", "failed"}
  \/ l \in {"ran", "failed"} /\ m = "prepared"

\* The steps within one state of the lifecycle, and those to the next.
LoopMove(p, q) ==
  \/ p \in {"stat", "setup"} /\ q \in {"stat", "setup"}
  \/ p \in {"parser", "prepare"} /\ q \in {"parser", "prepare"}
  \/ p \in Running \ {"run"} /\ q \in Running \ {"run"}
  \/ p = "setup" /\ q = "parser"
  \/ p = "prepare" /\ q = "init_outputs"
  \/ p = "init_outputs" /\ q = "run"
  \/ p = "run" /\ q = "get_reachable_pairs"
  \/ p = "free_outputs" /\ q = "cleanup"
  \/ p = "cleanup" /\ q = "parser"

\* All steps of the loop but fclose.
InLoopSteps ==
  \/ Stat \/ Setup \/ Parser \/ Prepare \/ InitOutputs \/ Run \/ GetPairs \/ MakePath
  \/ OpenOutput \/ write_result \/ FreeOutputs \/ Cleanup

LEMMA LoopMoves ==
  ASSUME NEW p, NEW q, NEW l, NEW m, LoopMove(p, q), LoopLife(p, l), LoopLife(q, m)
  PROVE  LifeMove(l, m)
  BY DEF LoopMove, LoopLife, LifeMove

LEMMA LifeLoopMove == ASSUME HeldInv, HeldInv', LoopMove(pc, pc') PROVE LifeMove(Life, Life')
<1>1. pc \in Loop /\ pc' \in Loop
  BY DEF LoopMove
<1> QED BY <1>1, LifeInLoop, LifeInLoopNext, LoopMoves

LEMMA LifeJump == ASSUME HeldInv, Jump PROVE LifeMove(Life, Life')
<1>1. pc \in Loop /\ held' = held /\ outcome' = IF pc = "run" THEN "failed" ELSE outcome
  BY DEF Jump
<1>2. CASE pc = "run"
  <2>1. "library" \in held /\ "inputs" \in held /\ "outputs" \in held
    BY <1>2 DEF HeldInv, FlagInv, ThingsInv
  <2>2. Life' = "failed"
    BY <1>1, <1>2, <2>1, LifeValues DEF Life
  <2>3. Life = "outputs"
    BY <1>1, <1>2, LifeInLoop DEF LoopLife
  <2> QED BY <2>2, <2>3 DEF LifeMove
<1>3. CASE pc # "run"
  BY <1>1, <1>3 DEF Life, LifeMove
<1> QED BY <1>2, <1>3

LEMMA LifeSame ==
  ASSUME outcome' = outcome, \A y \in {"library", "inputs", "outputs"} : y \in held' <=> y \in held
  PROVE  LifeMove(Life, Life')
<1>1. Life' = Life
  BY LifeFrame DEF Life
<1> QED BY <1>1 DEF LifeMove

\* Once free_outputs and cleanup have been called and have not failed, the
\* epilogue goes back the way the loop came.
LEMMA LifeEpilogue ==
  ASSUME HeldInv, "free_outputs" \notin failed', "cleanup" \notin failed',
         EpilogueFreeOutputs \/ EpilogueCleanup \/ EpilogueTeardown
  PROVE  LifeMove(Life, Life')
<1>1. CASE EpilogueFreeOutputs
  <2>1. pc = "epilogue_free_outputs" /\ outcome' = outcome
    BY <1>1 DEF EpilogueFreeOutputs, Epilogue
  <2>2. CASE "outputs" \notin held
    BY <1>1, <2>1, <2>2, LifeSame DEF EpilogueFreeOutputs, Epilogue, HeldInv, ThingsInv
  <2>3. CASE "outputs" \in held
    <3>1. "library" \in held /\ "inputs" \in held /\ outcome \in {"ran", "failed"}
      BY <2>1, <2>3 DEF HeldInv, FlagInv, ThingsInv, OutcomeInv
    <3>2. held' = held \/ Release({"outputs"})
      BY <1>1 DEF EpilogueFreeOutputs, Epilogue
    <3>3. CASE held' = held
      BY <2>1, <3>3, LifeSame
    <3>4. CASE Release({"outputs"})
      <4>1. \A y : y \in held' <=> y \in held /\ y # "outputs"
        BY <2>3, <3>4, ReleaseHeld
      <4>2. Life' = "prepared"
        BY <3>1, <4>1, LifeValues DEF Life
      <4>3. Life = outcome
        BY <2>3, <3>1, LifeValues DEF Life
      <4> QED BY <3>1, <4>2, <4>3 DEF LifeMove
    <3> QED BY <3>2, <3>3, <3>4
  <2> QED BY <2>2, <2>3
<1>2. CASE EpilogueCleanup
  <2>1. pc = "epilogue_cleanup" /\ outcome' = outcome /\ failed \subseteq failed'
    BY <1>2 DEF EpilogueCleanup, Epilogue
  <2>2. CASE "inputs" \notin held
    BY <1>2, <2>1, <2>2, LifeSame DEF EpilogueCleanup, Epilogue, HeldInv, ThingsInv
  <2>3. CASE "inputs" \in held
    <3>1. "library" \in held /\ "outputs" \notin held
      BY <2>1, <2>3 DEF HeldInv, FlagInv, ThingsInv
    <3>2. held' = held \/ Release({"inputs"})
      BY <1>2 DEF EpilogueCleanup, Epilogue
    <3>3. CASE held' = held
      BY <2>1, <3>3, LifeSame
    <3>4. CASE Release({"inputs"})
      <4>1. \A y : y \in held' <=> y \in held /\ y # "inputs"
        BY <2>3, <3>4, ReleaseHeld
      <4>2. Life' = "up" /\ Life = "prepared"
        BY <2>3, <3>1, <4>1, LifeValues DEF Life
      <4> QED BY <4>2 DEF LifeMove
    <3> QED BY <3>2, <3>3, <3>4
  <2> QED BY <2>2, <2>3
<1>3. CASE EpilogueTeardown
  <2>1. pc = "epilogue_teardown" /\ outcome' = outcome /\ failed \subseteq failed'
    BY <1>3 DEF EpilogueTeardown, Epilogue
  <2>2. CASE "library" \notin held
    BY <1>3, <2>1, <2>2, LifeSame DEF EpilogueTeardown, Epilogue, HeldInv, ThingsInv
  <2>3. CASE "library" \in held
    <3>1. "inputs" \notin held /\ "outputs" \notin held
      BY <2>1 DEF HeldInv, ThingsInv
    <3>2. held' = held \/ Release({"library"})
      BY <1>3 DEF EpilogueTeardown, Epilogue
    <3>3. CASE held' = held
      BY <2>1, <3>3, LifeSame
    <3>4. CASE Release({"library"})
      <4>1. \A y : y \in held' <=> y \in held /\ y # "library"
        BY <2>3, <3>4, ReleaseHeld
      <4>2. Life' = "down" /\ Life = "up"
        BY <2>3, <3>1, <4>1, LifeValues DEF Life
      <4> QED BY <4>2 DEF LifeMove
    <3> QED BY <3>2, <3>3, <3>4
  <2> QED BY <2>2, <2>3
<1> QED BY <1>1, <1>2, <1>3

LEMMA LifeStep ==
  ASSUME HeldInv, HeldInv', Next, "free_outputs" \notin failed', "cleanup" \notin failed'
  PROVE  LifeMove(Life, Life')
<1>1. CASE InLoopSteps
  <2>1. ~Cleanup => Jump \/ LoopMove(pc, pc')
    <3>1. Stat => Jump \/ LoopMove(pc, pc')
      BY DEF Stat, Succeeds, Fails, Jump, LoopMove
    <3>2. Setup => Jump \/ LoopMove(pc, pc')
      BY DEF Setup, Succeeds, Fails, Jump, LoopMove
    <3>3. Parser => Jump \/ LoopMove(pc, pc')
      BY DEF Parser, Succeeds, Fails, Jump, LoopMove
    <3>4. Prepare => Jump \/ LoopMove(pc, pc')
      BY DEF Prepare, Succeeds, Fails, Jump, LoopMove
    <3>5. InitOutputs => Jump \/ LoopMove(pc, pc')
      BY DEF InitOutputs, Succeeds, Fails, Jump, LoopMove
    <3>6. Run => Jump \/ LoopMove(pc, pc')
      BY DEF Run, Succeeds, Fails, Jump, LoopMove
    <3>7. GetPairs => Jump \/ LoopMove(pc, pc')
      BY DEF GetPairs, Succeeds, Fails, Jump, LoopMove
    <3>8. MakePath => Jump \/ LoopMove(pc, pc')
      BY DEF MakePath, Succeeds, Fails, Jump, LoopMove
    <3>9. OpenOutput => Jump \/ LoopMove(pc, pc')
      BY DEF OpenOutput, Succeeds, Fails, Jump, LoopMove
    <3>10. write_result => Jump \/ LoopMove(pc, pc')
      BY DEF write_result, Succeeds, Fails, Jump, LoopMove
    <3>11. FreeOutputs => Jump \/ LoopMove(pc, pc')
      BY DEF FreeOutputs, Succeeds, Fails, Jump, LoopMove
    <3> QED BY <1>1, <3>1, <3>2, <3>3, <3>4, <3>5, <3>6, <3>7, <3>8, <3>9, <3>10, <3>11 DEF InLoopSteps
  <2>4. CASE Cleanup
    <3>1. Jump \/ LoopMove(pc, pc') \/ (pc = "cleanup" /\ outcome' = outcome /\ Release({"inputs"}))
      BY <2>4 DEF Cleanup, CleanupWith, Succeeds, Fails, Jump, LoopMove
    <3>2. CASE pc = "cleanup" /\ outcome' = outcome /\ Release({"inputs"})
      <4>1. "library" \in held /\ "inputs" \in held /\ "outputs" \notin held
        BY <3>2 DEF HeldInv, FlagInv, ThingsInv
      <4>2. \A y : y \in held' <=> y \in held /\ y # "inputs"
        BY <3>2, <4>1, ReleaseHeld
      <4>3. Life' = "up" /\ Life = "prepared"
        BY <4>1, <4>2, LifeValues DEF Life
      <4> QED BY <4>3 DEF LifeMove
    <3> QED BY <3>1, <3>2, LifeJump, LifeLoopMove
  <2>5. CASE ~Cleanup
    BY <2>1, <2>5, LifeJump, LifeLoopMove
  <2> QED BY <2>4, <2>5
<1>2. CASE CloseOutput
  <2>1. CASE pc' = "free_outputs"
    BY <1>2, <2>1, LifeLoopMove DEF CloseOutput, Succeeds, Fails, LoopMove
  <2>2. CASE pc' # "free_outputs"
    <3>1. pc = "fclose" /\ outcome' = outcome /\ Release({"output"})
      BY <1>2, <2>2 DEF CloseOutput, Succeeds, Fails
    <3>2. \A y : y \in held' <=> y \in held /\ y # "output"
      BY <3>1, ReleaseHeld DEF HeldInv, FlagInv, ThingsInv
    <3> QED BY <3>1, <3>2, LifeSame
  <2> QED BY <2>1, <2>2
<1>3. CASE EpilogueClose \/ EpilogueFree \/ EpilogueFreeParserResult
  <2>1. outcome' = outcome
    BY <1>3 DEF EpilogueClose, EpilogueFree, EpilogueFreeParserResult
  <2>2. \A y \in {"library", "inputs", "outputs"} : y \in held' <=> y \in held
    <3>1. CASE EpilogueClose
      BY <3>1, ReleaseHeld DEF EpilogueClose, HeldInv, ThingsInv
    <3>2. CASE EpilogueFree
      BY <3>2, ReleaseHeld DEF EpilogueFree, HeldInv, ThingsInv
    <3>3. CASE EpilogueFreeParserResult
      BY <3>3, ReleaseHeld DEF EpilogueFreeParserResult, HeldInv, ThingsInv
    <3> QED BY <1>3, <3>1, <3>2, <3>3
  <2> QED BY <2>1, <2>2, LifeSame
<1>4. CASE EpilogueFreeOutputs \/ EpilogueCleanup \/ EpilogueTeardown
  BY <1>4, LifeEpilogue
<1>5. CASE Finished
  BY <1>5, LifeSame DEF Finished, vars
<1> QED BY <1>1, <1>2, <1>3, <1>4, <1>5 DEF Next, Step, InLoopSteps

(***************************************************************************)
(* The loop and the epilogue follow the order of calls of adapter.h until  *)
(* free_outputs or cleanup itself fails.                                   *)
(***************************************************************************)
THEOREM ExtractorObeysLifecycle == Spec => LifecycleObeyed
<1>1. ASSUME Init PROVE Lifecycle!Init
  BY <1>1, LifeValues DEF Init, Life, Lifecycle!Init
<1>2. ASSUME HeldInv, HeldInv', [Next]_vars
      PROVE  [failed' \cap {"free_outputs", "cleanup"} = {} => Lifecycle!Next \/ Life' = Life]_vars
  <2>1. CASE failed' \cap {"free_outputs", "cleanup"} = {} /\ Next
    <3>1. "free_outputs" \notin failed' /\ "cleanup" \notin failed'
      BY <2>1
    <3>2. LifeMove(Life, Life')
      BY <1>2, <2>1, <3>1, LifeStep
    <3>3. Lifecycle!Next \/ Life' = Life
      BY <3>2 DEF LifeMove, Lifecycle!Next, Lifecycle!Setup, Lifecycle!Prepare,
         Lifecycle!InitOutputs, Lifecycle!Run, Lifecycle!FreeOutputs, Lifecycle!Cleanup,
         Lifecycle!Teardown
    <3> QED BY <3>3
  <2> QED BY <1>2, <2>1
<1> QED BY <1>1, <1>2, ExtractorInvariant, PTL DEF Spec, LifecycleObeyed

-----------------------------------------------------------------------------
(* What is written                                                          *)

HIDE DEF Things, Running, FlagsOfPlace, ToClose, ToFree, ToFreeOutputs, ToCleanup,
         ToFreeParserResult, ToTeardown, Has, Released, FreedAt, FlagsNest

LEMMA DiskInit == Init => DiskInv
<1> SUFFICES ASSUME Init PROVE DiskInv
  OBVIOUS
<1>1. configs \in Seq(Row) /\ DOMAIN disk = OutputFiles
  BY ExtractorAssumption DEF Init
<1>2. row = 1 /\ pc = "stat" /\ failed = {} /\ status = "EXIT_FAILURE"
  BY DEF Init
<1>3. Written(row - 1)
  BY <1>2 DEF Written
<1> QED BY <1>1, <1>2, <1>3 DEF DiskInv

\* A row's file is one of the output files.
LEMMA PathIsFile == ASSUME DiskInv, NEW r \in 1 .. Len(configs) PROVE output_path(r) \in DOMAIN disk
<1>1. configs[r] \in Row
  BY DEF DiskInv
<1> QED BY <1>1 DEF DiskInv, Row, output_path, OutputFiles

LEMMA DiskFrame ==
  ASSUME configs' = configs, disk' = disk
  PROVE  /\ \A n : Written(n)' <=> Written(n)
         /\ row' = row => (WrittenElsewhere' <=> WrittenElsewhere)
  BY DEF Written, WrittenElsewhere, SameFile, output_path

\* The places of the loop before the row's file is opened, and after it is closed.
BeforeOpen == Loop \ {"write_result", "fclose", "free_outputs", "cleanup"}

Quiet == UNCHANGED <<configs, row, status, disk, failed>>

LEMMA DiskQuiet ==
  ASSUME DiskInv, Quiet,
         \/ pc \in BeforeOpen \ {"stat"} /\ pc' \in BeforeOpen \ {"stat"}
         \/ pc = "write_result" /\ pc' = "fclose"
         \/ pc = "free_outputs" /\ pc' = "cleanup"
  PROVE  DiskInv'
<1>1. /\ \A n : Written(n)' <=> Written(n)
      /\ row' = row => (WrittenElsewhere' <=> WrittenElsewhere)
  BY DiskFrame DEF Quiet
<1>2. CASE pc \in BeforeOpen \ {"stat"} /\ pc' \in BeforeOpen \ {"stat"}
  BY <1>1, <1>2 DEF DiskInv, Quiet, BeforeOpen
<1>3. CASE pc = "write_result" /\ pc' = "fclose"
  BY <1>1, <1>3 DEF DiskInv, Quiet
<1>4. CASE pc = "free_outputs" /\ pc' = "cleanup"
  BY <1>1, <1>4 DEF DiskInv, Quiet
<1> QED BY <1>2, <1>3, <1>4

\* A call of the loop has failed, or there was no row.
DiskJump ==
  /\ pc \in Loop /\ pc' \in {"close", "exit"}
  /\ UNCHANGED <<configs, row, status, disk>>
  /\ pc' = "close" => failed' # {} \/ configs = <<>>

LEMMA DiskJumps == ASSUME DiskInv, DiskJump PROVE DiskInv'
  BY DEF DiskInv, DiskJump

LEMMA DiskStat == DiskInv /\ Stat => DiskInv'
<1> SUFFICES ASSUME DiskInv, Stat PROVE DiskInv'
  OBVIOUS
<1>1. CASE pc' # "close"
  <2>1. pc = "stat" /\ pc' = "setup" /\ Quiet /\ configs # <<>>
    BY <1>1 DEF Stat, Succeeds, Fails, Quiet
  <2>2. row = 1 /\ Len(configs) >= 1
    BY <2>1, EmptySeq, LenProperties DEF DiskInv
  <2>3. Written(row - 1)'
    BY <2>1, <2>2 DEF Quiet, Written
  <2> QED BY <2>1, <2>2, <2>3 DEF DiskInv, Quiet
<1>2. CASE pc' = "close"
  <2>1. DiskJump
    BY <1>2 DEF Stat, Succeeds, Fails, DiskJump
  <2> QED BY <2>1, DiskJumps
<1> QED BY <1>1, <1>2

LEMMA DiskQuietSteps ==
  ASSUME DiskInv,
         \/ Setup \/ Parser \/ Prepare \/ InitOutputs \/ Run \/ GetPairs \/ MakePath
         \/ write_result \/ FreeOutputs
  PROVE  DiskInv'
<1>1. CASE pc' \in {"close", "exit"}
  <2>1. DiskJump
    BY <1>1 DEF Setup, Parser, Prepare, InitOutputs, Run, GetPairs, MakePath, write_result,
                FreeOutputs, Succeeds, Fails, DiskJump
  <2> QED BY <2>1, DiskJumps
<1>2. CASE pc' \notin {"close", "exit"}
  <2>1. Quiet
    BY <1>2 DEF Setup, Parser, Prepare, InitOutputs, Run, GetPairs, MakePath, write_result,
                FreeOutputs, Succeeds, Fails, Quiet
  <2>2. \/ pc \in BeforeOpen \ {"stat"} /\ pc' \in BeforeOpen \ {"stat"}
        \/ pc = "write_result" /\ pc' = "fclose"
        \/ pc = "free_outputs" /\ pc' = "cleanup"
    BY <1>2 DEF Setup, Parser, Prepare, InitOutputs, Run, GetPairs, MakePath, write_result,
                FreeOutputs, Succeeds, Fails, BeforeOpen
  <2> QED BY <2>1, <2>2, DiskQuiet
<1> QED BY <1>1, <1>2

\* Opening the file empties it and leaves the others.
LEMMA DiskOpen == DiskInv /\ OpenOutput => DiskInv'
<1> SUFFICES ASSUME DiskInv, OpenOutput PROVE DiskInv'
  OBVIOUS
<1>1. CASE pc' # "close"
  <2>1. /\ pc = "fopen" /\ pc' = "write_result" /\ UNCHANGED <<configs, row, status, failed>>
        /\ disk' = [disk EXCEPT ![output_path(row)] = 0]
    BY <1>1 DEF OpenOutput, Succeeds, Fails
  <2>2. Written(row - 1)
    BY <2>1 DEF DiskInv
  <2>3. ASSUME NEW r \in 1 .. row - 1, output_path(r) # output_path(row)
        PROVE  disk'[output_path(r)] \in SameFile(r, row - 1)
    <3>1. disk[output_path(r)] \in SameFile(r, row - 1)
      BY <2>2 DEF Written
    <3>2. output_path(r) \in DOMAIN disk
      BY <2>1, PathIsFile DEF DiskInv
    <3> QED BY <2>1, <2>3, <3>1, <3>2
  <2>4. WrittenElsewhere'
    BY <2>1, <2>3 DEF WrittenElsewhere, SameFile, output_path
  <2> QED BY <2>1, <2>4 DEF DiskInv
<1>2. CASE pc' = "close"
  <2>1. DiskJump
    BY <1>2 DEF OpenOutput, Succeeds, Fails, DiskJump
  <2> QED BY <2>1, DiskJumps
<1> QED BY <1>1, <1>2

\* Closing it makes it complete: it now holds this row, also for earlier
\* rows with the same file.
LEMMA DiskClose == DiskInv /\ CloseOutput => DiskInv'
<1> SUFFICES ASSUME DiskInv, CloseOutput PROVE DiskInv'
  OBVIOUS
<1>1. CASE pc' # "close"
  <2>1. /\ pc = "fclose" /\ pc' = "free_outputs" /\ UNCHANGED <<configs, row, status, failed>>
        /\ disk' = [disk EXCEPT ![output_path(row)] = row]
    BY <1>1 DEF CloseOutput, Succeeds, Fails
  <2>2. WrittenElsewhere /\ row \in Nat \ {0} /\ row <= Len(configs)
    BY <2>1 DEF DiskInv
  <2>3. ASSUME NEW r \in 1 .. row PROVE disk'[output_path(r)] \in SameFile(r, row)
    <3>1. output_path(r) \in DOMAIN disk
      BY <2>2, PathIsFile DEF DiskInv
    <3>2. CASE output_path(r) = output_path(row)
      <4>1. disk'[output_path(r)] = row
        BY <2>1, <3>1, <3>2
      <4> QED BY <2>2, <3>2, <4>1 DEF SameFile
    <3>3. CASE output_path(r) # output_path(row)
      <4>1. r \in 1 .. row - 1
        BY <2>2, <3>3
      <4>2. disk[output_path(r)] \in SameFile(r, row - 1)
        BY <2>2, <3>3, <4>1 DEF WrittenElsewhere
      <4>3. disk'[output_path(r)] = disk[output_path(r)]
        BY <2>1, <3>1, <3>3
      <4> QED BY <2>2, <4>2, <4>3 DEF SameFile
    <3> QED BY <3>2, <3>3
  <2>4. Written(row)'
    BY <2>1, <2>3 DEF Written, SameFile, output_path
  <2> QED BY <2>1, <2>2, <2>4 DEF DiskInv
<1>2. CASE pc' = "close"
  <2>1. DiskJump
    BY <1>2 DEF CloseOutput, Succeeds, Fails, DiskJump
  <2> QED BY <2>1, DiskJumps
<1> QED BY <1>1, <1>2

LEMMA DiskCleanup == DiskInv /\ Cleanup => DiskInv'
<1> SUFFICES ASSUME DiskInv, Cleanup PROVE DiskInv'
  OBVIOUS
<1>1. CASE failed' = failed
  <2>1. /\ pc = "cleanup" /\ UNCHANGED <<configs, disk>>
        /\ pc' = IF row = Len(configs) THEN "close" ELSE "parser"
        /\ row' = IF row = Len(configs) THEN row ELSE row + 1
        /\ status' = IF row = Len(configs) THEN "EXIT_SUCCESS" ELSE status
    <3>1. failed = {}
      BY DEF DiskInv, Cleanup, CleanupWith, Succeeds, Fails
    <3> QED BY <1>1, <3>1 DEF Cleanup, CleanupWith, LoopEnd, Succeeds, Fails
  <2>2. /\ Written(row) /\ failed = {} /\ status = "EXIT_FAILURE"
        /\ row \in Nat \ {0} /\ row <= Len(configs) /\ Len(configs) \in Nat
    BY <2>1, LenProperties DEF DiskInv
  <2>3. CASE row = Len(configs)
    <3>1. configs # <<>>
      BY <2>2, <2>3
    <3>2. Written(Len(configs))'
      BY <2>1, <2>2, <2>3 DEF Written, SameFile, output_path
    <3> QED BY <1>1, <2>1, <2>2, <2>3, <3>1, <3>2 DEF DiskInv
  <2>4. CASE row # Len(configs)
    <3>1. Written(row - 1)'
      BY <2>1, <2>2, <2>4 DEF Written, SameFile, output_path
    <3> QED BY <1>1, <2>1, <2>2, <2>4, <3>1 DEF DiskInv
  <2> QED BY <2>3, <2>4
<1>2. CASE failed' # failed
  <2>1. DiskJump
    BY <1>2 DEF Cleanup, CleanupWith, Succeeds, Fails, DiskJump
  <2> QED BY <2>1, DiskJumps
<1> QED BY <1>1, <1>2

\* The epilogue writes nothing; when it fails, it says so.
LEMMA DiskEpilogue ==
  ASSUME DiskInv,
         \/ EpilogueClose \/ EpilogueFree \/ EpilogueFreeOutputs \/ EpilogueCleanup
         \/ EpilogueFreeParserResult \/ EpilogueTeardown
  PROVE  DiskInv'
<1>1. /\ pc \notin Loop \cup {"exit"} /\ pc' \notin Loop \cup {"exit"}
      /\ UNCHANGED <<configs, row, disk>>
  BY DEF EpilogueClose, EpilogueFree, EpilogueFreeOutputs, EpilogueCleanup,
         EpilogueFreeParserResult, EpilogueTeardown, Epilogue
<1>2. \/ UNCHANGED <<status, failed>>
      \/ status' = "EXIT_FAILURE" /\ failed' # {}
  BY DEF EpilogueClose, EpilogueFree, EpilogueFreeOutputs, EpilogueCleanup,
         EpilogueFreeParserResult, EpilogueTeardown, Epilogue
<1>3. Written(Len(configs))' <=> Written(Len(configs))
  BY <1>1 DEF Written, SameFile, output_path
<1> QED BY <1>1, <1>2, <1>3 DEF DiskInv

LEMMA DiskNext == DiskInv /\ [Next]_vars => DiskInv'
<1>1. DiskInv /\ UNCHANGED vars => DiskInv'
  BY DEF DiskInv, Written, WrittenElsewhere, SameFile, output_path, vars
<1> QED
  BY <1>1, DiskStat, DiskQuietSteps, DiskOpen, DiskClose, DiskCleanup, DiskEpilogue
     DEF Next, Step, Finished

(***************************************************************************)
(* Success is reported exactly when no call has failed and there was a     *)
(* row, and then the file of every row that shares it with no other holds  *)
(* that row's pairs.                                                       *)
(***************************************************************************)
THEOREM ExtractorSuccessMeansWritten == Spec => []SuccessMeansWritten
<1>1. ASSUME DiskInv PROVE SuccessMeansWritten
  <2>1. ASSUME pc = "returned" PROVE
          /\ status = "EXIT_SUCCESS" <=> failed = {} /\ configs # <<>>
          /\ status = "EXIT_SUCCESS" => Written(Len(configs))
    BY <1>1, <2>1 DEF DiskInv, Loop
  <2>2. DOMAIN configs = 1 .. Len(configs)
    BY <1>1, LenProperties DEF DiskInv
  <2>3. ASSUME NEW r \in 1 .. Len(configs), disk[output_path(r)] \in SameFile(r, Len(configs)), OwnFile(r)
        PROVE  disk[output_path(r)] = r
    <3>1. PICK s \in r .. Len(configs) : s = disk[output_path(r)] /\ output_path(s) = output_path(r)
      BY <2>3 DEF SameFile
    <3>2. s \in 1 .. Len(configs)
      <4>1. Len(configs) \in Nat
        BY <1>1, LenProperties DEF DiskInv
      <4> QED BY <4>1
    <3> QED BY <2>2, <2>3, <3>1, <3>2 DEF OwnFile
  <2> QED BY <2>1, <2>2, <2>3 DEF SuccessMeansWritten, Written
<1> QED BY <1>1, DiskInit, DiskNext, PTL DEF Spec

=============================================================================
