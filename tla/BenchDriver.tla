---------------------------- MODULE BenchDriver -----------------------------
(***************************************************************************)
(* main() of src/test.c: the loop over the config rows, the reference run  *)
(* of --compute-results, the rounds with --hot, the test mode, and every   *)
(* early return.  A step is one call to an adapter, to the parser, the     *)
(* cache or the results file, with the code up to the next one.            *)
(*                                                                         *)
(* An adapter's static state is modelled by the row whose matrices it uses *)
(* (inputs), the rows whose matrices nobody has freed (held) and the       *)
(* outcomes of the runs whose matrices it holds (outputs).  The tested     *)
(* adapter may be CFL_adv itself, which is also the reference: then they   *)
(* share it.  main() drops the return codes of prepare and, in test mode,  *)
(* of cleanup, and goes on as if they had succeeded.                       *)
(***************************************************************************)
EXTENDS Integers, Sequences

CONSTANTS
  Reference,  \* CFL_adv
  Adapters,   \* the adapters -a may name; Reference is one
  Options,    \* the command lines to start from
  Value,      \* what get_result may return
  MayFail     \* the calls that may return an error

CommandLine ==
  [algo : Adapters, is_multiple_source : BOOLEAN, is_test : BOOLEAN, hot : BOOLEAN,
   bench_parse : BOOLEAN, compute_results : BOOLEAN, rounds_count : Nat \ {0},
   configs_count : Nat]

Calls ==
  {"setup", "parser", "ref_prepare", "ref_init_outputs", "ref_run", "ref_free_outputs",
   "ref_cleanup", "prepare", "init_outputs", "mem_peak_reset", "run", "free_outputs",
   "save_result", "cleanup", "test_cleanup", "teardown"}

NoValue == "none"
NotRun == "not run"

\* The options main() accepts: --compute-results works only with -t.  What
\* get_result returns is none of the two marks.
ASSUME DriverAssumption ==
  /\ Reference \in Adapters
  /\ \A o \in Options : o \in CommandLine /\ (o.compute_results => o.is_test)
  /\ MayFail \subseteq Calls
  /\ NoValue \notin Value /\ NotRun \notin Value

VARIABLES
  opts,              \* the command line; never changes
  pc,                \* the next call, or "returned" or "exit"
  row,               \* the config row, from 1
  round,             \* j, from 1
  is_hot,
  retval,            \* of the last adapter.run()
  has_test_failure,
  expected_result,   \* NoValue until a row sets it
  parser_result,     \* the row whose parser result is held, 0 for none
  library,           \* LAGr_Init has been called and not undone
  inputs,            \* adapter -> the row whose matrices and rules it uses, 0 for none
  held,              \* adapter -> the rows whose matrices it has not freed
  outputs,           \* adapter -> outcomes whose output matrices it holds
  saved,             \* the rows of the results file
  prepared,          \* history: adapter -> calls of prepare no call of cleanup followed
  runs,              \* history: the runs of the tested adapter on this row, "2" is two or more
  refused,           \* history: the tested adapter's prepare failed on this row
  uncleaned,         \* history: the rows whose cleanup failed in test mode
  verdicts           \* history: what test mode printed, row by row

Success == "GrB_SUCCESS"
Failure == "error"
Fresh == [row |-> 0, value |-> NotRun]  \* outputs nothing has run on

loopVars == <<row, round, is_hot>>
resultVars == <<retval, has_test_failure, expected_result>>
inputVars == <<inputs, held, prepared>>
adapterVars == <<inputVars, outputs>>
droppedVars == <<refused, uncleaned>>
logVars == <<saved, runs, verdicts, droppedVars>>
vars == <<opts, pc, loopVars, resultVars, parser_result, library, adapterVars, logVars>>

Init ==
  /\ opts \in Options
  /\ pc = "setup"
  /\ row = 0 /\ round = 0 /\ is_hot = FALSE
  /\ retval = Success /\ has_test_failure = FALSE /\ expected_result = NoValue
  /\ parser_result = 0 /\ library = FALSE
  /\ inputs = [a \in Adapters |-> 0] /\ held = [a \in Adapters |-> {}]
  /\ prepared = [a \in Adapters |-> 0] /\ outputs = [a \in Adapters |-> <<>>]
  /\ saved = <<>> /\ runs = 0 /\ verdicts = <<>> /\ refused = FALSE /\ uncleaned = {}

\* TRY: a call that fails ends the program.
FailsAt(call) ==
  /\ pc = call /\ call \in MayFail
  /\ pc' = "exit"
  /\ UNCHANGED <<opts, loopVars, resultVars, parser_result, library, adapterVars, logVars>>

Last(s) == s[Len(s)]
Front(s) == SubSeq(s, 1, Len(s) - 1)

\* The head of the loop over the rows; with none left, teardown.
NextRow ==
  IF row < opts.configs_count
    THEN pc' = "parser" /\ row' = row + 1
    ELSE pc' = "teardown" /\ UNCHANGED row

\* The adapter's part of a call: what it allocates and frees.  A prepare that
\* finds matrices still there overwrites the pointers to them.
CountPrepare(a) == prepared' = [prepared EXCEPT ![a] = @ + 1] /\ UNCHANGED outputs
CountCleanup(a) == prepared' = [prepared EXCEPT ![a] = @ - 1] /\ UNCHANGED outputs

PrepareOf(a, r) ==
  /\ CountPrepare(a)
  /\ inputs' = [inputs EXCEPT ![a] = r]
  /\ held' = [held EXCEPT ![a] = @ \cup {r}]

CleanupOf(a) ==
  /\ CountCleanup(a)
  /\ inputs' = [inputs EXCEPT ![a] = 0]
  /\ held' = [held EXCEPT ![a] = @ \ {inputs[a]}]

InitOutputsOf(a) == outputs' = [outputs EXCEPT ![a] = Append(@, Fresh)] /\ UNCHANGED inputVars
FreeOutputsOf(a) == outputs' = [outputs EXCEPT ![a] = Front(@)] /\ UNCHANGED inputVars

\* The run computes on the inputs it finds.
RunOf(a, value) ==
  /\ outputs' = [outputs EXCEPT ![a][Len(outputs[a])] = [row |-> inputs[a], value |-> value]]
  /\ UNCHANGED inputVars

-----------------------------------------------------------------------------
(* Before the rounds                                                        *)

Setup ==
  /\ pc = "setup"
  /\ library' = TRUE
  /\ NextRow
  /\ UNCHANGED <<opts, round, is_hot, resultVars, parser_result, adapterVars, logVars>>

\* Mutant: --bench-parse keeps the result.
ParserKeeps ==
  /\ pc = "parser"
  /\ parser_result' = row
  /\ \E v \in Value \cup {NoValue} : expected_result' = v
  /\ IF opts.bench_parse THEN NextRow
     ELSE /\ pc' = IF opts.compute_results THEN "computed_cache_get" ELSE "prepare"
          /\ UNCHANGED row
  /\ UNCHANGED <<opts, round, is_hot, retval, has_test_failure, library, adapterVars, logVars>>

\* With --bench-parse the parser's result is freed at once.
Parser ==
  /\ pc = "parser"
  /\ IF opts.bench_parse
       THEN NextRow /\ UNCHANGED <<parser_result, expected_result>>
       ELSE /\ parser_result' = row
            /\ \E v \in Value \cup {NoValue} : expected_result' = v
            /\ pc' = IF opts.compute_results THEN "computed_cache_get" ELSE "prepare"
            /\ UNCHANGED row
  /\ UNCHANGED <<opts, round, is_hot, retval, has_test_failure, library, adapterVars, logVars>>

computed_cache_get ==
  /\ pc = "computed_cache_get"
  /\ \/ pc' = "prepare" /\ \E v \in Value : expected_result' = v
     \/ pc' = "ref_prepare" /\ UNCHANGED expected_result
  /\ UNCHANGED <<opts, loopVars, retval, has_test_failure, parser_result, library, adapterVars,
                 logVars>>

\* compute_expected_result: six calls in this order, then the cache is written.
RefCall(call, next) == pc = call /\ pc' = next /\ UNCHANGED <<opts, loopVars, retval,
  has_test_failure, parser_result, library, logVars>>

compute_expected_result ==
  \/ /\ RefCall("ref_prepare", "ref_init_outputs")
     /\ PrepareOf(Reference, parser_result) /\ UNCHANGED expected_result
  \/ /\ RefCall("ref_init_outputs", "ref_run")
     /\ InitOutputsOf(Reference) /\ UNCHANGED expected_result
  \/ /\ RefCall("ref_run", "ref_free_outputs")
     /\ \E v \in Value : RunOf(Reference, v) /\ expected_result' = v
  \/ /\ RefCall("ref_free_outputs", "ref_cleanup")
     /\ FreeOutputsOf(Reference) /\ UNCHANGED expected_result
  \/ /\ RefCall("ref_cleanup", "prepare")
     /\ CleanupOf(Reference) /\ UNCHANGED expected_result

\* The return code of prepare is not looked at.
Prepare ==
  /\ pc = "prepare"
  /\ \/ PrepareOf(opts.algo, parser_result) /\ refused' = FALSE
     \/ /\ "prepare" \in MayFail /\ refused' = TRUE
        /\ CountPrepare(opts.algo) /\ UNCHANGED <<inputs, held>>
  /\ parser_result' = 0
  /\ is_hot' = opts.hot
  /\ round' = 1
  /\ runs' = 0
  /\ pc' = "init_outputs"
  /\ UNCHANGED <<opts, row, resultVars, library, saved, uncleaned, verdicts>>

-----------------------------------------------------------------------------
(* A round                                                                  *)

InitOutputs ==
  /\ pc = "init_outputs"
  /\ InitOutputsOf(opts.algo)
  /\ pc' = "mem_peak_reset"
  /\ UNCHANGED <<opts, loopVars, resultVars, parser_result, library, logVars>>

MemPeakReset ==
  /\ pc = "mem_peak_reset"
  /\ pc' = "run"
  /\ UNCHANGED <<opts, loopVars, resultVars, parser_result, library, adapterVars, logVars>>

Run ==
  /\ pc = "run"
  /\ \/ retval' = Success /\ \E v \in Value : RunOf(opts.algo, v)
     \/ "run" \in MayFail /\ retval' = Failure /\ RunOf(opts.algo, NoValue)
  /\ runs' = IF runs < 2 THEN runs + 1 ELSE runs
  /\ pc' = IF opts.is_test THEN "check" ELSE IF is_hot THEN "hot" ELSE "result"
  /\ UNCHANGED <<opts, loopVars, has_test_failure, expected_result, parser_result, library, saved,
                 droppedVars, verdicts>>

\* Test mode: the verdict, then one free_outputs and no further round.  The
\* multiple-source adapters cannot be checked against the value of the row.
Verdict ==
  LET value == Last(outputs[opts.algo]).value IN
  CASE retval # Success -> "Failed"
    [] retval = Success /\ ~opts.compute_results
         /\ (opts.is_multiple_source \/ expected_result = NoValue) -> "Unknown"
    [] OTHER -> IF value = expected_result THEN "OK" ELSE "Wrong"

\* Mutant: the last row decides the exit status.
TestCheckLastRow ==
  /\ pc = "check"
  /\ has_test_failure' = (Verdict \in {"Failed", "Wrong"})
  /\ verdicts' = Append(verdicts, [row |-> row, verdict |-> Verdict, refused |-> refused,
                                   outcome |-> Last(outputs[opts.algo]),
                                   expected |-> expected_result])
  /\ pc' = "free_outputs"
  /\ UNCHANGED <<opts, loopVars, retval, expected_result, parser_result, library, adapterVars,
                 saved, runs, droppedVars>>

TestCheck ==
  /\ pc = "check"
  /\ has_test_failure' = (has_test_failure \/ Verdict \in {"Failed", "Wrong"})
  /\ verdicts' = Append(verdicts, [row |-> row, verdict |-> Verdict, refused |-> refused,
                                   outcome |-> Last(outputs[opts.algo]),
                                   expected |-> expected_result])
  /\ pc' = "free_outputs"
  /\ UNCHANGED <<opts, loopVars, retval, expected_result, parser_result, library, adapterVars,
                 saved, runs, droppedVars>>

\* Mutants: the counter goes back twice, or not at all; the outputs stay; every
\* run is a hot one.
HotRunWith(flag, back, next) ==
  /\ pc = "hot"
  /\ is_hot' = flag
  /\ round' = round - back
  /\ pc' = next
  /\ UNCHANGED <<opts, row, resultVars, parser_result, library, adapterVars, logVars>>
HotRunTwice == HotRunWith(FALSE, 2, "free_outputs")
HotRunCounted == HotRunWith(FALSE, 0, "free_outputs")
HotRunLeaks == HotRunWith(FALSE, 0, "init_outputs")
HotRunForever == HotRunWith(TRUE, 1, "free_outputs")

\* The run that warms up is not measured: j-- and another one.
HotRun ==
  /\ pc = "hot"
  /\ is_hot' = FALSE
  /\ round' = round - 1
  /\ pc' = "free_outputs"
  /\ UNCHANGED <<opts, row, resultVars, parser_result, library, adapterVars, logVars>>

\* get_result reads the outputs whatever the run returned.
GetResult ==
  /\ pc = "result"
  /\ saved' = Append(saved, [row |-> row, round |-> round, run |-> runs, refused |-> refused,
                             outcome |-> Last(outputs[opts.algo]), on_disk |-> FALSE])
  /\ pc' = "free_outputs"
  /\ UNCHANGED <<opts, loopVars, resultVars, parser_result, library, adapterVars, runs,
                 droppedVars, verdicts>>

\* A measured round goes on to save_result, the test to cleanup, the hot run to
\* the same round again.
FreeOutputs ==
  /\ pc = "free_outputs"
  /\ FreeOutputsOf(opts.algo)
  /\ IF opts.is_test THEN pc' = "test_cleanup" /\ UNCHANGED round
     ELSE IF saved # <<>> /\ ~Last(saved).on_disk THEN pc' = "save_result" /\ UNCHANGED round
     ELSE pc' = "init_outputs" /\ round' = round + 1
  /\ UNCHANGED <<opts, row, is_hot, resultVars, parser_result, library, logVars>>

save_result ==
  /\ pc = "save_result"
  /\ saved' = [saved EXCEPT ![Len(saved)].on_disk = TRUE]
  /\ round' = round + 1
  /\ pc' = IF round < opts.rounds_count THEN "init_outputs" ELSE "cleanup"
  /\ UNCHANGED <<opts, row, is_hot, resultVars, parser_result, library, adapterVars, runs,
                 droppedVars, verdicts>>

-----------------------------------------------------------------------------
(* After the rounds                                                         *)

\* Test mode does not look at the return code: "test_cleanup" is its call.
Cleanup ==
  /\ pc \in {"cleanup", "test_cleanup"}
  /\ \/ CleanupOf(opts.algo) /\ UNCHANGED uncleaned
     \/ /\ pc = "test_cleanup" /\ pc \in MayFail /\ uncleaned' = uncleaned \cup {row}
        /\ CountCleanup(opts.algo) /\ UNCHANGED <<inputs, held>>
  /\ NextRow
  /\ UNCHANGED <<opts, round, is_hot, resultVars, parser_result, library, saved, runs, refused,
                 verdicts>>

Teardown ==
  /\ pc = "teardown"
  /\ library' = FALSE
  /\ pc' = "returned"
  /\ UNCHANGED <<opts, loopVars, resultVars, parser_result, adapterVars, logVars>>

\* The calls whose failure ends the program (exit() or return from main).
Fatal ==
  \E call \in Calls \ {"prepare", "run", "test_cleanup"} : FailsAt(call)

Finished == pc \in {"returned", "exit"} /\ UNCHANGED vars

Step ==
  \/ Setup \/ Parser \/ computed_cache_get \/ compute_expected_result \/ Prepare
  \/ InitOutputs \/ MemPeakReset \/ Run \/ TestCheck \/ HotRun \/ GetResult
  \/ FreeOutputs \/ save_result \/ Cleanup \/ Teardown \/ Fatal

Next == Step \/ Finished

Spec == Init /\ [][Next]_vars /\ WF_vars(Step)

-----------------------------------------------------------------------------
(* Properties *)

Outcome == [row : Nat, value : Value \cup {NoValue, NotRun}]

\* The types of the driver's state.
TypeOK ==
  /\ opts \in CommandLine
  /\ pc \in Calls \cup {"computed_cache_get", "check", "hot", "result", "returned", "exit"}
  /\ row \in Nat /\ round \in Nat /\ is_hot \in BOOLEAN
  /\ retval \in {Success, Failure} /\ has_test_failure \in BOOLEAN
  /\ expected_result \in Value \cup {NoValue}
  /\ parser_result \in Nat /\ library \in BOOLEAN
  /\ inputs \in [Adapters -> Nat] /\ held \in [Adapters -> SUBSET Nat]
  /\ prepared \in [Adapters -> Nat] /\ outputs \in [Adapters -> Seq(Outcome)]
  /\ saved \in Seq([row : Nat, round : Nat, run : Nat, refused : BOOLEAN, outcome : Outcome,
                    on_disk : BOOLEAN])
  /\ runs \in 0 .. 2 /\ refused \in BOOLEAN /\ uncleaned \subseteq Nat
  /\ verdicts \in Seq([row : Nat, verdict : {"OK", "Wrong", "Failed", "Unknown"},
                       refused : BOOLEAN, outcome : Outcome, expected : Value \cup {NoValue}])

(***************************************************************************)
(* Where an adapter is in its lifecycle: the calls of prepare no cleanup   *)
(* followed, whatever they returned, and the outputs it has allocated.     *)
(* Outputs held twice have been overwritten and can never be freed.        *)
(***************************************************************************)
LifeFrom(lib, calls, out) ==
  CASE ~lib -> IF calls = 0 /\ out = <<>> THEN "down" ELSE "out of order"
    [] lib /\ calls = 0 -> IF out = <<>> THEN "up" ELSE "out of order"
    [] lib /\ calls = 1 /\ out = <<>> -> "prepared"
    [] lib /\ calls = 1 /\ Len(out) = 1 ->
         IF out[1] = Fresh THEN "outputs"
         ELSE IF out[1].value = NoValue THEN "failed" ELSE "ran"
    [] OTHER -> "out of order"

LifeOf(a) == LifeFrom(library, prepared[a], outputs[a])

TestedLife == INSTANCE AdapterLifecycle WITH life <- LifeOf(opts.algo)
ReferenceLife == INSTANCE AdapterLifecycle WITH life <- LifeOf(Reference)

(***************************************************************************)
(* src/adapters/adapter.h:12 "An adapter must be used in the following     *)
(* order": the calls to the tested and to the reference adapter are made   *)
(* in it, through the hot round that is repeated, the break of test mode,  *)
(* the reference run on the static state of the adapter that is tested     *)
(* next, and whatever prepare and the cleanup of test mode return.         *)
(***************************************************************************)
LifecycleObeyed == TestedLife!Spec /\ ReferenceLife!Spec

(***************************************************************************)
(* The results file has each round of a measured row exactly once, in      *)
(* order, and, with --hot, never the first run of a row.  Each is a run on *)
(* that row's data, or on none at all if the row's prepare failed, never   *)
(* on another row's.  Test mode runs each row once and saves nothing.      *)
(***************************************************************************)
BetweenRows == pc \in {"parser", "teardown", "returned"}
RowsDone == IF pc = "parser" THEN row - 1 ELSE row

RoundsSavedOnce ==
  /\ \A k \in DOMAIN saved :
       /\ ~opts.is_test
       /\ saved[k].outcome.row = IF saved[k].refused THEN 0 ELSE saved[k].row
       /\ opts.hot => saved[k].run = 2
  /\ pc = "test_cleanup" => runs = 1
  /\ BetweenRows =>
       IF opts.bench_parse \/ opts.is_test THEN saved = <<>>
       ELSE /\ Len(saved) = RowsDone * opts.rounds_count
            /\ \A k \in DOMAIN saved :
                 /\ saved[k].row = 1 + ((k - 1) \div opts.rounds_count)
                 /\ saved[k].round = 1 + ((k - 1) % opts.rounds_count)

(***************************************************************************)
(* A verdict is about the row it is printed for: it follows a run on that  *)
(* row's data, or, if the row's prepare failed, on none or on those of a   *)
(* row whose cleanup failed.  "[OK]" is printed only for the value that    *)
(* was expected.  When main() returns, every row has its verdict, and the  *)
(* exit status is a failure exactly when one of them is.                   *)
(***************************************************************************)
VerdictsHonest ==
  /\ \A k \in DOMAIN verdicts :
       LET v == verdicts[k] IN
       /\ v.row = k
       /\ IF v.refused THEN v.outcome.row \in {0} \cup uncleaned ELSE v.outcome.row = k
       /\ v.verdict = "OK" => v.outcome.value = v.expected
       /\ v.outcome.value = NoValue => v.verdict = "Failed"
  /\ pc = "returned" =>
       /\ has_test_failure <=>
            \E k \in DOMAIN verdicts : verdicts[k].verdict \in {"Failed", "Wrong"}
       /\ opts.is_test /\ ~opts.bench_parse => Len(verdicts) = opts.configs_count

\* The rows whose matrices the adapter's own cleanup refused to free.
Kept(a) == IF a = opts.algo THEN uncleaned ELSE {}

(***************************************************************************)
(* A run that ends normally holds nothing: not the library, not the        *)
(* parser's result, no matrix of either adapter, not even of a row whose   *)
(* prepare failed; only what a cleanup that failed left is still there.    *)
(***************************************************************************)
NothingHeldAtReturn ==
  pc = "returned" =>
    /\ ~library /\ parser_result = 0
    /\ \A a \in Adapters : held[a] \subseteq Kept(a) /\ outputs[a] = <<>>

\* The rounds come to an end although the hot round decrements their counter.
Terminates == <>(pc \in {"returned", "exit"})

\* src/test.c:431 "outputs are not valid after a failed run, so the result is
\* not checked": no row of the results file comes from a failed run.
SavedResultsValid == 
  \A k \in DOMAIN saved : saved[k].on_disk => saved[k].outcome.value # NoValue
=============================================================================
