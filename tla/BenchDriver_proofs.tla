------------------------- MODULE BenchDriver_proofs -------------------------
(***************************************************************************)
(* For any adapters, options, number of rows and rounds, and whichever     *)
(* calls fail, those whose codes main() drops too: the driver of           *)
(* src/test.c calls the tested and the reference adapter in the order of   *)
(* adapter.h, also when they are the same, holds nothing when it returns   *)
(* but what a failed cleanup left, prints honest verdicts and saves every  *)
(* measured round once.                                                    *)
(***************************************************************************)
EXTENDS BenchDriver, TLAPS

(***************************************************************************)
(* What each adapter has allocated follows from the place main() is at.    *)
(***************************************************************************)
BeforePrepare ==
  {"computed_cache_get", "ref_prepare", "ref_init_outputs", "ref_run", "ref_free_outputs",
   "ref_cleanup", "prepare"}

InputsHeld(a) ==
  \/ a = Reference /\ pc \in {"ref_init_outputs", "ref_run", "ref_free_outputs", "ref_cleanup"}
  \/ a = opts.algo /\ pc \in {"init_outputs", "mem_peak_reset", "run", "check", "hot", "result",
                              "free_outputs", "save_result", "cleanup", "test_cleanup"}

FreshHeld(a) ==
  \/ a = Reference /\ pc = "ref_run"
  \/ a = opts.algo /\ pc \in {"mem_peak_reset", "run"}

RanHeld(a) ==
  \/ a = Reference /\ pc = "ref_free_outputs"
  \/ a = opts.algo /\ pc \in {"check", "hot", "result", "free_outputs"}

OneOutcome(out) == \E o \in Outcome : out = <<o>> /\ o # Fresh

Holds(a) ==
  /\ prepared[a] = IF InputsHeld(a) THEN 1 ELSE 0
  /\ FreshHeld(a) => outputs[a] = <<Fresh>>
  /\ RanHeld(a) => OneOutcome(outputs[a])
  /\ ~FreshHeld(a) /\ ~RanHeld(a) => outputs[a] = <<>>

InputTypes ==
  /\ inputs \in [Adapters -> Nat] /\ held \in [Adapters -> SUBSET Nat]
  /\ prepared \in [Adapters -> Nat]

Typed ==
  /\ opts \in Options /\ row \in Nat
  /\ InputTypes /\ outputs \in [Adapters -> Seq(Outcome)]

\* The row the loop is at is a row, and the parser's result is that row's
\* until prepare has taken it.
RowInv ==
  /\ pc = "parser" => row >= 1
  /\ IF pc \in BeforePrepare THEN parser_result \in Nat \ {0} ELSE parser_result = 0

LifeInv ==
  /\ Typed
  /\ pc # "exit" =>
       /\ library = (pc \notin {"setup", "returned"})
       /\ RowInv
       /\ \A a \in Adapters : Holds(a)

-----------------------------------------------------------------------------
(* Lemmas about one adapter's part of a call                                *)

\* The command line names adapters.
LEMMA OptionTypes ==
  ASSUME opts \in Options
  PROVE  opts.algo \in Adapters /\ Reference \in Adapters /\ opts.configs_count \in Nat
BY DriverAssumption DEF CommandLine

\* The abstract state of a prepared adapter with one run's outputs.
LEMMA LifeOfOutputs ==
  ASSUME NEW o
  PROVE  LifeFrom(TRUE, 1, <<o>>) =
           IF o = Fresh THEN "outputs" ELSE IF o.value = NoValue THEN "failed" ELSE "ran"
<1>1. 1 # 0 /\ <<o>> # <<>> /\ Len(<<o>>) = 1 /\ <<o>>[1] = o
  OBVIOUS
<1> QED BY <1>1 DEF LifeFrom

\* The abstract state that a place in main() stands for.
LEMMA LifeAt ==
  ASSUME LifeInv, pc # "exit", NEW a \in Adapters
  PROVE  /\ FreshHeld(a) => LifeOf(a) = "outputs"
         /\ RanHeld(a) => LifeOf(a) \in {"ran", "failed"}
         /\ InputsHeld(a) /\ ~FreshHeld(a) /\ ~RanHeld(a) => LifeOf(a) = "prepared"
         /\ ~InputsHeld(a) /\ pc \notin {"setup", "returned"} => LifeOf(a) = "up"
         /\ pc \in {"setup", "returned"} => LifeOf(a) = "down"
<1>1. Holds(a) /\ library = (pc \notin {"setup", "returned"})
  BY DEF LifeInv
<1>2. (FreshHeld(a) \/ RanHeld(a) => InputsHeld(a))
      /\ (InputsHeld(a) => pc \notin {"setup", "returned"})
      /\ ~(FreshHeld(a) /\ RanHeld(a))
  BY DEF FreshHeld, RanHeld, InputsHeld
<1>3. ASSUME FreshHeld(a) PROVE LifeOf(a) = "outputs"
  <2>1. prepared[a] = 1 /\ outputs[a] = <<Fresh>> /\ library = TRUE
    BY <1>1, <1>2, <1>3 DEF Holds
  <2> QED BY <2>1, LifeOfOutputs DEF LifeOf
<1>4. ASSUME RanHeld(a) PROVE LifeOf(a) \in {"ran", "failed"}
  <2>1. PICK o \in Outcome : outputs[a] = <<o>> /\ o # Fresh
    BY <1>1, <1>4 DEF Holds, OneOutcome
  <2>2. prepared[a] = 1 /\ library = TRUE
    BY <1>1, <1>2, <1>4 DEF Holds
  <2> QED BY <2>1, <2>2, LifeOfOutputs DEF LifeOf
<1>5. ASSUME InputsHeld(a), ~FreshHeld(a), ~RanHeld(a) PROVE LifeOf(a) = "prepared"
  <2>1. prepared[a] = 1 /\ outputs[a] = <<>> /\ library
    BY <1>1, <1>2, <1>5 DEF Holds
  <2> QED BY <2>1 DEF LifeOf, LifeFrom
<1>6. ASSUME ~InputsHeld(a)
      PROVE  LifeOf(a) = IF pc \in {"setup", "returned"} THEN "down" ELSE "up"
  <2>1. prepared[a] = 0 /\ outputs[a] = <<>>
    BY <1>1, <1>2, <1>6 DEF Holds
  <2>2. LifeFrom(TRUE, 0, <<>>) = "up" /\ LifeFrom(FALSE, 0, <<>>) = "down"
    BY DEF LifeFrom
  <2>3. library = IF pc \in {"setup", "returned"} THEN FALSE ELSE TRUE
    BY <1>1
  <2> QED BY <2>1, <2>2, <2>3 DEF LifeOf
<1> QED BY <1>2, <1>3, <1>4, <1>5, <1>6

\* A call of prepare, refused or not, is one call of prepare.
LEMMA PrepareHolds ==
  ASSUME Typed, NEW a \in Adapters, NEW r \in Nat, prepared[a] = 0,
         PrepareOf(a, r) \/ (CountPrepare(a) /\ UNCHANGED <<inputs, held>>)
  PROVE  /\ InputTypes' /\ outputs' = outputs
         /\ prepared'[a] = 1 /\ \A b \in Adapters \ {a} : prepared'[b] = prepared[b]
<1>1. prepared' = [prepared EXCEPT ![a] = prepared[a] + 1] /\ outputs' = outputs
  BY DEF PrepareOf, CountPrepare
<1>2. prepared' = [prepared EXCEPT ![a] = 1]
  BY <1>1
<1>3. inputs \in [Adapters -> Nat] /\ held \in [Adapters -> SUBSET Nat] /\ prepared \in [Adapters -> Nat]
  BY DEF Typed, InputTypes
<1>4. inputs' \in [Adapters -> Nat] /\ held' \in [Adapters -> SUBSET Nat]
  <2>1. CASE PrepareOf(a, r)
    <3>1. held[a] \cup {r} \in SUBSET Nat
      BY <1>3
    <3>2. inputs' = [inputs EXCEPT ![a] = r] /\ held' = [held EXCEPT ![a] = held[a] \cup {r}]
      BY <2>1 DEF PrepareOf
    <3> QED BY <1>3, <3>1, <3>2
  <2>2. CASE UNCHANGED <<inputs, held>>
    BY <1>3, <2>2
  <2> QED BY <2>1, <2>2
<1> QED BY <1>1, <1>2, <1>3, <1>4 DEF InputTypes

\* And a call of cleanup is one call of cleanup.
LEMMA CleanupHolds ==
  ASSUME Typed, NEW a \in Adapters, prepared[a] = 1,
         CleanupOf(a) \/ (CountCleanup(a) /\ UNCHANGED <<inputs, held>>)
  PROVE  /\ InputTypes' /\ outputs' = outputs
         /\ prepared'[a] = 0 /\ \A b \in Adapters \ {a} : prepared'[b] = prepared[b]
<1>1. prepared' = [prepared EXCEPT ![a] = prepared[a] - 1] /\ outputs' = outputs
  BY DEF CleanupOf, CountCleanup
<1>2. prepared' = [prepared EXCEPT ![a] = 0]
  BY <1>1
<1>3. inputs \in [Adapters -> Nat] /\ held \in [Adapters -> SUBSET Nat] /\ prepared \in [Adapters -> Nat]
  BY DEF Typed, InputTypes
<1>4. inputs' \in [Adapters -> Nat] /\ held' \in [Adapters -> SUBSET Nat]
  <2>1. CASE CleanupOf(a)
    <3>1. held[a] \ {inputs[a]} \in SUBSET Nat
      BY <1>3
    <3>2. inputs' = [inputs EXCEPT ![a] = 0] /\ held' = [held EXCEPT ![a] = held[a] \ {inputs[a]}]
      BY <2>1 DEF CleanupOf
    <3> QED BY <1>3, <3>1, <3>2
  <2>2. CASE UNCHANGED <<inputs, held>>
    BY <1>3, <2>2
  <2> QED BY <2>1, <2>2
<1> QED BY <1>1, <1>2, <1>3, <1>4 DEF InputTypes

\* init_outputs makes outputs nothing has run on.
LEMMA InitOutputsHolds ==
  ASSUME Typed, NEW a \in Adapters, outputs[a] = <<>>, InitOutputsOf(a)
  PROVE  /\ outputs' \in [Adapters -> Seq(Outcome)] /\ InputTypes' /\ prepared' = prepared
         /\ outputs'[a] = <<Fresh>> /\ \A b \in Adapters \ {a} : outputs'[b] = outputs[b]
<1>1. outputs' = [outputs EXCEPT ![a] = <<Fresh>>] /\ UNCHANGED inputVars
  BY DEF InitOutputsOf
<1>2. <<Fresh>> \in Seq(Outcome)
  BY DEF Fresh, Outcome
<1> QED BY <1>1, <1>2 DEF Typed, InputTypes, inputVars

\* free_outputs frees what is there.
LEMMA FreeOutputsHolds ==
  ASSUME Typed, NEW a \in Adapters, OneOutcome(outputs[a]), FreeOutputsOf(a)
  PROVE  /\ outputs' \in [Adapters -> Seq(Outcome)] /\ InputTypes' /\ prepared' = prepared
         /\ outputs'[a] = <<>> /\ \A b \in Adapters \ {a} : outputs'[b] = outputs[b]
<1>1. PICK o \in Outcome : outputs[a] = <<o>>
  BY DEF OneOutcome
<1>2. Front(outputs[a]) = <<>>
  BY <1>1 DEF Front
<1>3. outputs' = [outputs EXCEPT ![a] = <<>>] /\ UNCHANGED inputVars
  BY <1>2 DEF FreeOutputsOf
<1> QED BY <1>3 DEF Typed, InputTypes, inputVars

\* A run, failed or not, on whatever inputs it finds, leaves the outcome of a
\* run: no fresh outputs are one.
LEMMA RunOutcome ==
  ASSUME Typed, NEW a \in Adapters, outputs[a] = <<Fresh>>,
         NEW value \in Value \cup {NoValue}, RunOf(a, value)
  PROVE  \E o \in Outcome :
           /\ outputs' = [outputs EXCEPT ![a] = <<o>>] /\ UNCHANGED inputVars
           /\ o.row = inputs[a] /\ o.value = value /\ o # Fresh
<1> DEFINE o == [row |-> inputs[a], value |-> value]
<1>1. o \in Outcome /\ o.row = inputs[a] /\ o.value = value /\ o # Fresh
  <2>1. value # NotRun
    BY DriverAssumption DEF NoValue, NotRun
  <2>2. o.value = value /\ Fresh.value = NotRun
    BY DEF Fresh
  <2>3. inputs[a] \in Nat
    BY DEF Typed, InputTypes
  <2> QED BY <2>1, <2>2, <2>3 DEF Outcome
<1> HIDE DEF o
<1>2. [outputs[a] EXCEPT ![Len(outputs[a])] = o] = <<o>>
  <2>1. Len(<<Fresh>>) = 1 /\ [<<Fresh>> EXCEPT ![1] = o] = <<o>>
    OBVIOUS
  <2> QED BY <2>1
<1>3. outputs' = [outputs EXCEPT ![a] = <<o>>] /\ UNCHANGED inputVars
  BY <1>2 DEF RunOf, o
<1> QED BY <1>1, <1>3

LEMMA RunHolds ==
  ASSUME Typed, NEW a \in Adapters, outputs[a] = <<Fresh>>,
         NEW value \in Value \cup {NoValue}, RunOf(a, value)
  PROVE  /\ outputs' \in [Adapters -> Seq(Outcome)] /\ InputTypes' /\ prepared' = prepared
         /\ OneOutcome(outputs'[a]) /\ \A b \in Adapters \ {a} : outputs'[b] = outputs[b]
<1>1. PICK o \in Outcome :
        /\ outputs' = [outputs EXCEPT ![a] = <<o>>] /\ UNCHANGED inputVars /\ o # Fresh
  BY RunOutcome
<1>2. <<o>> \in Seq(Outcome)
  OBVIOUS
<1> QED BY <1>1, <1>2 DEF Typed, InputTypes, inputVars, OneOutcome
-----------------------------------------------------------------------------
(* The invariant                                                            *)

\* The calls that allocate and free nothing.
LEMMA FrameHolds ==
  ASSUME Typed, opts' = opts, row' \in Nat, UNCHANGED adapterVars
  PROVE  Typed'
BY DEF Typed, InputTypes, adapterVars, inputVars

\* The head of the loop over the rows.
LEMMA NextRowInv ==
  ASSUME Typed, NextRow
  PROVE  /\ row' \in Nat
         /\ (pc' = "parser" /\ row' >= 1) \/ pc' = "teardown"
BY DEF Typed, NextRow

\* Nothing is held before setup.
LEMMA LifeInit ==
  ASSUME Init
  PROVE  LifeInv
<1>1. Typed
  BY DEF Init, Typed, InputTypes
<1>2. \A a \in Adapters : Holds(a)
  BY DEF Init, Holds, InputsHeld, FreshHeld, RanHeld
<1> QED BY <1>1, <1>2 DEF Init, LifeInv, RowInv, BeforePrepare

\* Where main() is decides what an adapter holds, if the step leaves both alone.
LEMMA SameHolds ==
  ASSUME NEW a, Holds(a), prepared'[a] = prepared[a], outputs'[a] = outputs[a],
         InputsHeld(a)' <=> InputsHeld(a), FreshHeld(a)' <=> FreshHeld(a),
         RanHeld(a)' <=> RanHeld(a)
  PROVE  Holds(a)'
BY DEF Holds

\* Every call of main() keeps what is held in step with the place it is at.
LEMMA LifeNext ==
  ASSUME LifeInv, [Next]_vars
  PROVE  LifeInv'
<1> USE DEF LifeInv, adapterVars, inputVars
<1>1. Typed /\ opts.algo \in Adapters /\ Reference \in Adapters
  BY OptionTypes DEF Typed
<1>2. CASE Setup
  <2>1. /\ opts' = opts /\ UNCHANGED adapterVars /\ library' = TRUE
        /\ parser_result' = parser_result /\ pc = "setup" /\ NextRow
    BY <1>2 DEF Setup, resultVars, logVars
  <2>2. Typed' /\ ((pc' = "parser" /\ row' >= 1) \/ pc' = "teardown")
    BY <1>1, <2>1, NextRowInv, FrameHolds
  <2>3. RowInv'
    BY <2>1, <2>2 DEF RowInv, BeforePrepare
  <2>4. ASSUME NEW a \in Adapters PROVE Holds(a)'
    BY <2>1, <2>2 DEF Holds, InputsHeld, FreshHeld, RanHeld
  <2> QED BY <2>1, <2>2, <2>3, <2>4
<1>3. CASE Parser
  <2>1. /\ opts' = opts /\ UNCHANGED adapterVars /\ library' = library
        /\ pc = "parser"
    BY <1>3 DEF Parser, logVars
  <2>2. CASE opts.bench_parse
    <3>1. NextRow /\ parser_result' = parser_result
      BY <1>3, <2>2 DEF Parser
    <3>2. Typed' /\ ((pc' = "parser" /\ row' >= 1) \/ pc' = "teardown")
      BY <1>1, <2>1, <3>1, NextRowInv, FrameHolds
    <3>3. RowInv'
      BY <2>1, <3>1, <3>2 DEF RowInv, BeforePrepare
    <3>4. ASSUME NEW a \in Adapters PROVE Holds(a)'
      BY <2>1, <3>2 DEF Holds, InputsHeld, FreshHeld, RanHeld
    <3> QED BY <2>1, <3>2, <3>3, <3>4
  <2>3. CASE ~opts.bench_parse
    <3>1. parser_result' = row /\ row' = row /\ pc' \in {"computed_cache_get", "prepare"}
      BY <1>3, <2>3 DEF Parser
    <3>2. Typed'
      BY <1>1, <2>1, <3>1 DEF Typed, InputTypes
    <3>3. RowInv'
      BY <1>1, <2>1, <3>1 DEF Typed, RowInv, BeforePrepare
    <3>4. ASSUME NEW a \in Adapters PROVE Holds(a)'
      BY <2>1, <3>1 DEF Holds, InputsHeld, FreshHeld, RanHeld
    <3> QED BY <2>1, <3>1, <3>2, <3>3, <3>4
  <2> QED BY <2>2, <2>3
<1>4. CASE computed_cache_get
  <2>1. /\ opts' = opts /\ row' = row /\ UNCHANGED adapterVars
        /\ library' = library /\ parser_result' = parser_result
        /\ pc = "computed_cache_get" /\ pc' \in {"prepare", "ref_prepare"}
    BY <1>4 DEF computed_cache_get, loopVars, logVars
  <2>2. Typed'
    BY <1>1, <2>1 DEF Typed, InputTypes
  <2>3. RowInv'
    BY <2>1 DEF RowInv, BeforePrepare
  <2>4. ASSUME NEW a \in Adapters PROVE Holds(a)'
    BY <2>1 DEF Holds, InputsHeld, FreshHeld, RanHeld
  <2> QED BY <2>1, <2>2, <2>3, <2>4
<1>5. CASE compute_expected_result
  <2>1. /\ opts' = opts /\ row' = row /\ library' = library /\ parser_result' = parser_result
        /\ pc \in BeforePrepare /\ pc' \in BeforePrepare
    BY <1>5 DEF compute_expected_result, RefCall, loopVars, logVars, BeforePrepare
  <2>2. RowInv'
    BY <2>1 DEF RowInv, BeforePrepare
  <2>3. library' = (pc' \notin {"setup", "returned"})
    BY <2>1 DEF BeforePrepare
  <2>4. Holds(Reference) /\ parser_result \in Nat \ {0}
    BY <1>1, <2>1 DEF RowInv, BeforePrepare
  <2>5. CASE pc = "ref_prepare" /\ pc' = "ref_init_outputs" /\ PrepareOf(Reference, parser_result)
    <3>1. prepared[Reference] = 0 /\ outputs[Reference] = <<>>
      BY <2>4, <2>5 DEF Holds, InputsHeld, FreshHeld, RanHeld
    <3>2. Typed'
      BY <1>1, <2>1, <2>4, <2>5, <3>1, PrepareHolds DEF Typed
    <3>3. ASSUME NEW a \in Adapters \ {Reference} PROVE Holds(a)'
      BY <1>1, <2>1, <2>4, <2>5, <3>1, <3>3, PrepareHolds DEF Holds, InputsHeld, FreshHeld, RanHeld
    <3>4. Holds(Reference)'
      BY <1>1, <2>1, <2>4, <2>5, <3>1, PrepareHolds DEF Holds, InputsHeld, FreshHeld, RanHeld
    <3> QED BY <2>2, <2>3, <3>2, <3>3, <3>4
  <2>6. CASE pc = "ref_init_outputs" /\ pc' = "ref_run" /\ InitOutputsOf(Reference)
    <3>1. prepared[Reference] = 1 /\ outputs[Reference] = <<>>
      BY <2>4, <2>6 DEF Holds, InputsHeld, FreshHeld, RanHeld
    <3>2. Typed'
      BY <1>1, <2>1, <2>4, <2>6, <3>1, InitOutputsHolds DEF Typed
    <3>3. ASSUME NEW a \in Adapters \ {Reference} PROVE Holds(a)'
      BY <1>1, <2>1, <2>4, <2>6, <3>1, <3>3, InitOutputsHolds DEF Holds, InputsHeld, FreshHeld, RanHeld
    <3>4. Holds(Reference)'
      <4>1. prepared'[Reference] = 1 /\ outputs'[Reference] = <<Fresh>>
        BY <1>1, <2>6, <3>1, InitOutputsHolds
      <4>2. InputsHeld(Reference)' /\ FreshHeld(Reference)' /\ ~RanHeld(Reference)'
        BY <2>6 DEF InputsHeld, FreshHeld, RanHeld
      <4> QED BY <4>1, <4>2 DEF Holds
    <3> QED BY <2>2, <2>3, <3>2, <3>3, <3>4
  <2>7. CASE pc = "ref_run" /\ pc' = "ref_free_outputs" /\ \E v \in Value : RunOf(Reference, v)
    <3>1. prepared[Reference] = 1 /\ outputs[Reference] = <<Fresh>>
      <4>1. InputsHeld(Reference) /\ FreshHeld(Reference)
        BY <2>7 DEF InputsHeld, FreshHeld
      <4> QED BY <2>4, <4>1 DEF Holds
    <3>2. Typed'
      BY <1>1, <2>1, <2>4, <2>7, <3>1, RunHolds DEF Typed
    <3>3. ASSUME NEW a \in Adapters \ {Reference} PROVE Holds(a)'
      BY <1>1, <2>1, <2>4, <2>7, <3>1, <3>3, RunHolds DEF Holds, InputsHeld, FreshHeld, RanHeld
    <3>4. Holds(Reference)'
      BY <1>1, <2>1, <2>4, <2>7, <3>1, RunHolds DEF Holds, InputsHeld, FreshHeld, RanHeld
    <3> QED BY <2>2, <2>3, <3>2, <3>3, <3>4
  <2>8. CASE pc = "ref_free_outputs" /\ pc' = "ref_cleanup" /\ FreeOutputsOf(Reference)
    <3>1. prepared[Reference] = 1 /\ OneOutcome(outputs[Reference])
      BY <2>4, <2>8 DEF Holds, InputsHeld, FreshHeld, RanHeld
    <3>2. Typed'
      BY <1>1, <2>1, <2>4, <2>8, <3>1, FreeOutputsHolds DEF Typed
    <3>3. ASSUME NEW a \in Adapters \ {Reference} PROVE Holds(a)'
      BY <1>1, <2>1, <2>4, <2>8, <3>1, <3>3, FreeOutputsHolds DEF Holds, InputsHeld, FreshHeld, RanHeld
    <3>4. Holds(Reference)'
      BY <1>1, <2>1, <2>4, <2>8, <3>1, FreeOutputsHolds DEF Holds, InputsHeld, FreshHeld, RanHeld
    <3> QED BY <2>2, <2>3, <3>2, <3>3, <3>4
  <2>9. CASE pc = "ref_cleanup" /\ pc' = "prepare" /\ CleanupOf(Reference)
    <3>1. prepared[Reference] = 1 /\ outputs[Reference] = <<>>
      BY <2>4, <2>9 DEF Holds, InputsHeld, FreshHeld, RanHeld
    <3>2. Typed'
      BY <1>1, <2>1, <2>4, <2>9, <3>1, CleanupHolds DEF Typed
    <3>3. ASSUME NEW a \in Adapters \ {Reference} PROVE Holds(a)'
      BY <1>1, <2>1, <2>4, <2>9, <3>1, <3>3, CleanupHolds DEF Holds, InputsHeld, FreshHeld, RanHeld
    <3>4. Holds(Reference)'
      BY <1>1, <2>1, <2>4, <2>9, <3>1, CleanupHolds DEF Holds, InputsHeld, FreshHeld, RanHeld
    <3> QED BY <2>2, <2>3, <3>2, <3>3, <3>4
  <2> QED BY <1>5, <2>5, <2>6, <2>7, <2>8, <2>9 DEF compute_expected_result, RefCall
<1>6. CASE Prepare
  <2>1. /\ opts' = opts /\ row' = row /\ library' = library /\ parser_result' = 0
        /\ pc = "prepare" /\ pc' = "init_outputs"
        /\ PrepareOf(opts.algo, parser_result)
             \/ (CountPrepare(opts.algo) /\ UNCHANGED <<inputs, held>>)
    BY <1>6 DEF Prepare, resultVars
  <2>2. /\ RowInv' /\ library' = (pc' \notin {"setup", "returned"})
        /\ parser_result \in Nat \ {0}
    BY <2>1 DEF RowInv, BeforePrepare
  <2>3. prepared[opts.algo] = 0 /\ outputs[opts.algo] = <<>>
    BY <1>1, <2>1 DEF Holds, InputsHeld, FreshHeld, RanHeld
  <2>4. Typed'
    BY <1>1, <2>1, <2>2, <2>3, PrepareHolds DEF Typed
  <2>5. ASSUME NEW a \in Adapters \ {opts.algo} PROVE Holds(a)'
    BY <1>1, <2>1, <2>2, <2>3, <2>5, PrepareHolds DEF Holds, InputsHeld, FreshHeld, RanHeld
  <2>6. Holds(opts.algo)'
    BY <1>1, <2>1, <2>2, <2>3, PrepareHolds DEF Holds, InputsHeld, FreshHeld, RanHeld
  <2> QED BY <2>1, <2>2, <2>4, <2>5, <2>6
<1>7. CASE InitOutputs
  <2>1. /\ opts' = opts /\ row' = row /\ library' = library /\ parser_result' = parser_result
        /\ pc = "init_outputs" /\ pc' = "mem_peak_reset" /\ InitOutputsOf(opts.algo)
    BY <1>7 DEF InitOutputs, loopVars, logVars
  <2>2. RowInv' /\ library' = (pc' \notin {"setup", "returned"})
    BY <2>1 DEF RowInv, BeforePrepare
  <2>3. prepared[opts.algo] = 1 /\ outputs[opts.algo] = <<>>
    BY <1>1, <2>1 DEF Holds, InputsHeld, FreshHeld, RanHeld
  <2>4. Typed'
    BY <1>1, <2>1, <2>3, InitOutputsHolds DEF Typed
  <2>5. ASSUME NEW a \in Adapters \ {opts.algo} PROVE Holds(a)'
    BY <1>1, <2>1, <2>3, <2>5, InitOutputsHolds DEF Holds, InputsHeld, FreshHeld, RanHeld
  <2>6. Holds(opts.algo)'
    BY <1>1, <2>1, <2>3, InitOutputsHolds DEF Holds, InputsHeld, FreshHeld, RanHeld
  <2> QED BY <2>1, <2>2, <2>4, <2>5, <2>6
<1>8. CASE Run
  <2>1. /\ opts' = opts /\ row' = row /\ library' = library /\ parser_result' = parser_result
        /\ pc = "run" /\ pc' \in {"check", "hot", "result"}
        /\ \E value \in Value \cup {NoValue} : RunOf(opts.algo, value)
    BY <1>8 DEF Run, loopVars
  <2>2. RowInv' /\ library' = (pc' \notin {"setup", "returned"})
    BY <2>1 DEF RowInv, BeforePrepare
  <2>3. prepared[opts.algo] = 1 /\ outputs[opts.algo] = <<Fresh>>
    BY <1>1, <2>1 DEF Holds, InputsHeld, FreshHeld, RanHeld
  <2>4. Typed'
    BY <1>1, <2>1, <2>3, RunHolds DEF Typed
  <2>5. ASSUME NEW a \in Adapters \ {opts.algo} PROVE Holds(a)'
    BY <1>1, <2>1, <2>3, <2>5, RunHolds DEF Holds, InputsHeld, FreshHeld, RanHeld
  <2>6. Holds(opts.algo)'
    BY <1>1, <2>1, <2>3, RunHolds DEF Holds, InputsHeld, FreshHeld, RanHeld
  <2> QED BY <2>1, <2>2, <2>4, <2>5, <2>6
<1>9. CASE FreeOutputs
  <2>1. /\ opts' = opts /\ row' = row /\ library' = library /\ parser_result' = parser_result
        /\ pc = "free_outputs" /\ FreeOutputsOf(opts.algo)
        /\ pc' \in {"test_cleanup", "save_result", "init_outputs"}
    BY <1>9 DEF FreeOutputs, resultVars, logVars
  <2>2. RowInv' /\ library' = (pc' \notin {"setup", "returned"})
    BY <2>1 DEF RowInv, BeforePrepare
  <2>3. prepared[opts.algo] = 1 /\ OneOutcome(outputs[opts.algo])
    BY <1>1, <2>1 DEF Holds, InputsHeld, FreshHeld, RanHeld
  <2>4. Typed'
    BY <1>1, <2>1, <2>3, FreeOutputsHolds DEF Typed
  <2>5. ASSUME NEW a \in Adapters \ {opts.algo} PROVE Holds(a)'
    BY <1>1, <2>1, <2>3, <2>5, FreeOutputsHolds DEF Holds, InputsHeld, FreshHeld, RanHeld
  <2>6. Holds(opts.algo)'
    BY <1>1, <2>1, <2>3, FreeOutputsHolds DEF Holds, InputsHeld, FreshHeld, RanHeld
  <2> QED BY <2>1, <2>2, <2>4, <2>5, <2>6
<1>10. CASE Cleanup
  <2>1. /\ opts' = opts /\ library' = library /\ parser_result' = parser_result
        /\ pc \in {"cleanup", "test_cleanup"} /\ NextRow
        /\ CleanupOf(opts.algo) \/ (CountCleanup(opts.algo) /\ UNCHANGED <<inputs, held>>)
    BY <1>10 DEF Cleanup, resultVars
  <2>2. row' \in Nat /\ ((pc' = "parser" /\ row' >= 1) \/ pc' = "teardown")
    BY <1>1, <2>1, NextRowInv
  <2>3. RowInv' /\ library' = (pc' \notin {"setup", "returned"})
    BY <2>1, <2>2 DEF RowInv, BeforePrepare
  <2>4. prepared[opts.algo] = 1 /\ outputs[opts.algo] = <<>>
    BY <1>1, <2>1 DEF Holds, InputsHeld, FreshHeld, RanHeld
  <2>5. Typed'
    BY <1>1, <2>1, <2>2, <2>4, CleanupHolds DEF Typed
  <2>6. ASSUME NEW a \in Adapters \ {opts.algo} PROVE Holds(a)'
    BY <1>1, <2>1, <2>2, <2>4, <2>6, CleanupHolds DEF Holds, InputsHeld, FreshHeld, RanHeld
  <2>7. Holds(opts.algo)'
    BY <1>1, <2>1, <2>2, <2>4, CleanupHolds DEF Holds, InputsHeld, FreshHeld, RanHeld
  <2> QED BY <2>1, <2>2, <2>3, <2>5, <2>6, <2>7
<1>11. CASE Teardown
  <2>1. /\ opts' = opts /\ row' = row /\ UNCHANGED adapterVars
        /\ library' = FALSE /\ parser_result' = parser_result
        /\ pc = "teardown" /\ pc' = "returned"
    BY <1>11 DEF Teardown, loopVars, logVars
  <2>2. Typed' /\ RowInv'
    BY <1>1, <2>1 DEF Typed, InputTypes, RowInv, BeforePrepare
  <2>3. ASSUME NEW a \in Adapters PROVE Holds(a)'
    BY <2>1 DEF Holds, InputsHeld, FreshHeld, RanHeld
  <2> QED BY <2>1, <2>2, <2>3
<1>12. CASE MemPeakReset \/ TestCheck \/ HotRun \/ GetResult \/ save_result
  <2>1. /\ opts' = opts /\ row' = row /\ UNCHANGED adapterVars
        /\ library' = library /\ parser_result' = parser_result
        /\ \/ pc = "mem_peak_reset" /\ pc' = "run"
           \/ pc \in {"check", "hot", "result"} /\ pc' = "free_outputs"
           \/ pc = "save_result" /\ pc' \in {"init_outputs", "cleanup"}
    BY <1>12 DEF MemPeakReset, TestCheck, HotRun, GetResult, save_result, loopVars
  <2>2. Typed' /\ RowInv'
    BY <1>1, <2>1 DEF Typed, InputTypes, RowInv, BeforePrepare
  <2>3. library' = (pc' \notin {"setup", "returned"}) /\ pc # "exit"
    BY <2>1
  <2>4. ASSUME NEW a \in Adapters PROVE Holds(a)'
    <3>1. /\ InputsHeld(a)' <=> InputsHeld(a)
          /\ FreshHeld(a)' <=> FreshHeld(a)
          /\ RanHeld(a)' <=> RanHeld(a)
      BY <2>1 DEF InputsHeld, FreshHeld, RanHeld
    <3> QED BY <2>1, <2>3, <3>1, SameHolds
  <2> QED BY <2>2, <2>3, <2>4
<1>13. CASE Fatal
  <2>1. pc' = "exit" /\ opts' = opts /\ row' = row /\ UNCHANGED adapterVars
    BY <1>13 DEF Fatal, FailsAt, loopVars
  <2> QED BY <1>1, <2>1 DEF Typed, InputTypes
<1>14. CASE UNCHANGED vars
  <2>1. /\ opts' = opts /\ pc' = pc /\ row' = row /\ UNCHANGED adapterVars
        /\ library' = library /\ parser_result' = parser_result
    BY <1>14 DEF vars, loopVars
  <2> QED BY <2>1 DEF Typed, InputTypes, RowInv, Holds, InputsHeld, FreshHeld, RanHeld
<1> QED BY <1>2, <1>3, <1>4, <1>5, <1>6, <1>7, <1>8, <1>9, <1>10, <1>11, <1>12, <1>13, <1>14
        DEF Next, Step, Finished
-----------------------------------------------------------------------------
(* The refinement                                                           *)

\* What one step may do to the abstract state of an adapter.
LifeMove(old, new) ==
  \/ new = old
  \/ old = "down" /\ new = "up"
  \/ old = "up" /\ new \in {"prepared", "down"}
  \/ old = "prepared" /\ new \in {"outputs", "up"}
  \/ old = "outputs" /\ new \in {"ran", "failed"}
  \/ old \in {"ran", "failed"} /\ new = "prepared"

\* A step that allocates and frees nothing is no step of the lifecycle.
LEMMA LifeFrame ==
  ASSUME library' = library, prepared' = prepared, outputs' = outputs, NEW a
  PROVE  LifeMove(LifeOf(a), LifeOf(a)')
BY DEF LifeMove, LifeOf

\* LifeAt after a step.
LEMMA LifeAtNext ==
  ASSUME LifeInv', pc' # "exit", NEW a \in Adapters
  PROVE  /\ FreshHeld(a)' => LifeOf(a)' = "outputs"
         /\ RanHeld(a)' => LifeOf(a)' \in {"ran", "failed"}
         /\ InputsHeld(a)' /\ ~FreshHeld(a)' /\ ~RanHeld(a)' => LifeOf(a)' = "prepared"
         /\ ~InputsHeld(a)' /\ pc' \notin {"setup", "returned"} => LifeOf(a)' = "up"
         /\ pc' \in {"setup", "returned"} => LifeOf(a)' = "down"
<1>1. (LifeInv /\ pc # "exit" =>
         /\ FreshHeld(a) => LifeOf(a) = "outputs"
         /\ RanHeld(a) => LifeOf(a) \in {"ran", "failed"}
         /\ InputsHeld(a) /\ ~FreshHeld(a) /\ ~RanHeld(a) => LifeOf(a) = "prepared"
         /\ ~InputsHeld(a) /\ pc \notin {"setup", "returned"} => LifeOf(a) = "up"
         /\ pc \in {"setup", "returned"} => LifeOf(a) = "down")'
  BY LifeAt, PTL
<1> QED BY <1>1

\* Whatever step main() takes, each adapter takes at most one of the lifecycle.
LEMMA LifeStep ==
  ASSUME LifeInv, LifeInv', [Next]_vars, NEW a \in Adapters
  PROVE  LifeMove(LifeOf(a), LifeOf(a)')
<1>1. CASE Setup
  <2>1. pc = "setup" /\ pc' \in {"parser", "teardown"}
    BY <1>1 DEF Setup, NextRow
  <2>2. LifeOf(a) = "down" /\ LifeOf(a)' = "up"
    BY <2>1, LifeAt, LifeAtNext DEF InputsHeld
  <2> QED BY <2>2 DEF LifeMove
<1>2. CASE compute_expected_result
  <2>1. opts' = opts
    BY <1>2 DEF compute_expected_result, RefCall
  <2>2. \/ pc = "ref_prepare" /\ pc' = "ref_init_outputs"
        \/ pc = "ref_init_outputs" /\ pc' = "ref_run"
        \/ pc = "ref_run" /\ pc' = "ref_free_outputs"
        \/ pc = "ref_free_outputs" /\ pc' = "ref_cleanup"
        \/ pc = "ref_cleanup" /\ pc' = "prepare"
    BY <1>2 DEF compute_expected_result, RefCall
  <2>3. CASE a # Reference
    <3>1. ~InputsHeld(a) /\ ~InputsHeld(a)'
      BY <2>1, <2>2, <2>3 DEF InputsHeld
    <3>2. LifeOf(a) = "up" /\ LifeOf(a)' = "up"
      BY <2>2, <3>1, LifeAt, LifeAtNext
    <3> QED BY <3>2 DEF LifeMove
  <2>4. CASE a = Reference
    <3>1. \/ LifeOf(a) = "up" /\ LifeOf(a)' = "prepared"
          \/ LifeOf(a) = "prepared" /\ LifeOf(a)' = "outputs"
          \/ LifeOf(a) = "outputs" /\ LifeOf(a)' \in {"ran", "failed"}
          \/ LifeOf(a) \in {"ran", "failed"} /\ LifeOf(a)' = "prepared"
          \/ LifeOf(a) = "prepared" /\ LifeOf(a)' = "up"
      BY <2>1, <2>2, <2>4, LifeAt, LifeAtNext DEF InputsHeld, FreshHeld, RanHeld
    <3> QED BY <3>1 DEF LifeMove
  <2> QED BY <2>3, <2>4
<1>3. CASE Prepare \/ InitOutputs \/ Run \/ FreeOutputs \/ Cleanup
  <2>1. opts' = opts
    BY <1>3 DEF Prepare, InitOutputs, Run, FreeOutputs, Cleanup
  <2>2. \/ pc = "prepare" /\ pc' = "init_outputs"
        \/ pc = "init_outputs" /\ pc' = "mem_peak_reset"
        \/ pc = "run" /\ pc' \in {"check", "hot", "result"}
        \/ pc = "free_outputs" /\ pc' \in {"test_cleanup", "save_result", "init_outputs"}
        \/ pc \in {"cleanup", "test_cleanup"} /\ pc' \in {"parser", "teardown"}
    BY <1>3 DEF Prepare, InitOutputs, Run, FreeOutputs, Cleanup, NextRow
  <2>3. CASE a # opts.algo
    <3>1. ~InputsHeld(a) /\ ~InputsHeld(a)'
      BY <2>1, <2>2, <2>3 DEF InputsHeld
    <3>2. LifeOf(a) = "up" /\ LifeOf(a)' = "up"
      BY <2>2, <3>1, LifeAt, LifeAtNext
    <3> QED BY <3>2 DEF LifeMove
  <2>4. CASE a = opts.algo
    <3>1. \/ LifeOf(a) = "up" /\ LifeOf(a)' = "prepared"
          \/ LifeOf(a) = "prepared" /\ LifeOf(a)' = "outputs"
          \/ LifeOf(a) = "outputs" /\ LifeOf(a)' \in {"ran", "failed"}
          \/ LifeOf(a) \in {"ran", "failed"} /\ LifeOf(a)' = "prepared"
          \/ LifeOf(a) = "prepared" /\ LifeOf(a)' = "up"
      BY <2>1, <2>2, <2>4, LifeAt, LifeAtNext DEF InputsHeld, FreshHeld, RanHeld
    <3> QED BY <3>1 DEF LifeMove
  <2> QED BY <2>3, <2>4
<1>4. CASE Teardown
  <2>1. pc = "teardown" /\ pc' = "returned"
    BY <1>4 DEF Teardown
  <2>2. LifeOf(a) = "up" /\ LifeOf(a)' = "down"
    BY <2>1, LifeAt, LifeAtNext DEF InputsHeld
  <2> QED BY <2>2 DEF LifeMove
<1>5. CASE \/ Parser \/ computed_cache_get \/ MemPeakReset \/ TestCheck \/ HotRun \/ GetResult
           \/ save_result \/ Fatal \/ UNCHANGED vars
  <2>1. library' = library /\ prepared' = prepared /\ outputs' = outputs
    BY <1>5 DEF Parser, computed_cache_get, MemPeakReset, TestCheck, HotRun, GetResult,
                save_result, Fatal, FailsAt, vars, adapterVars, inputVars
  <2> QED BY <2>1, LifeFrame
<1> QED BY <1>1, <1>2, <1>3, <1>4, <1>5 DEF Next, Step, Finished

(***************************************************************************)
(* The invariant: what each adapter holds at each place of main().         *)
(***************************************************************************)
THEOREM DriverInvariant == Spec => []LifeInv
BY LifeInit, LifeNext, PTL DEF Spec

(***************************************************************************)
(* The driver calls both adapters in the order of adapter.h: its calls,    *)
(* whatever they return, implement the lifecycle.                          *)
(***************************************************************************)
THEOREM DriverObeysLifecycle == Spec => LifecycleObeyed
<1>1. ASSUME Init PROVE TestedLife!Init /\ ReferenceLife!Init
  <2>1. LifeFrom(FALSE, 0, <<>>) = "down"
    BY DEF LifeFrom
  <2>2. \A a \in Adapters : LifeOf(a) = "down"
    BY <1>1, <2>1 DEF Init, LifeOf
  <2>3. opts.algo \in Adapters /\ Reference \in Adapters
    BY <1>1, OptionTypes DEF Init
  <2> QED BY <2>2, <2>3 DEF TestedLife!Init, ReferenceLife!Init
<1>2. ASSUME LifeInv, LifeInv', [Next]_vars
      PROVE  [TestedLife!Next]_(LifeOf(opts.algo)) /\ [ReferenceLife!Next]_(LifeOf(Reference))
  <2>1. opts.algo \in Adapters /\ Reference \in Adapters
    BY <1>2, OptionTypes DEF LifeInv, Typed
  <2>2. opts' = opts
    BY <1>2 DEF Next, Step, Setup, Parser, computed_cache_get, compute_expected_result, RefCall,
                Prepare, InitOutputs, MemPeakReset, Run, TestCheck, HotRun, GetResult, FreeOutputs,
                save_result, Cleanup, Teardown, Fatal, FailsAt, Finished, vars
  <2>3. \A a \in Adapters : LifeMove(LifeOf(a), LifeOf(a)')
    BY <1>2, LifeStep
  <2>4. LifeMove(LifeOf(Reference), LifeOf(Reference)')
    BY <2>1, <2>3
  <2>5. LifeMove(LifeOf(opts.algo), LifeOf(opts.algo)')
    BY <2>1, <2>2, <2>3 DEF LifeOf
  <2>6. [ReferenceLife!Next]_(LifeOf(Reference))
    BY <2>4 DEF LifeMove, ReferenceLife!Next, ReferenceLife!Setup, ReferenceLife!Prepare,
       ReferenceLife!InitOutputs, ReferenceLife!Run, ReferenceLife!FreeOutputs,
       ReferenceLife!Cleanup, ReferenceLife!Teardown
  <2>7. [TestedLife!Next]_(LifeOf(opts.algo))
    BY <2>5 DEF LifeMove, TestedLife!Next, TestedLife!Setup, TestedLife!Prepare,
       TestedLife!InitOutputs, TestedLife!Run, TestedLife!FreeOutputs,
       TestedLife!Cleanup, TestedLife!Teardown
  <2> QED BY <2>6, <2>7
<1> QED BY <1>1, <1>2, DriverInvariant, PTL
        DEF Spec, LifecycleObeyed, TestedLife!Spec, ReferenceLife!Spec
-----------------------------------------------------------------------------
(* The verdicts of test mode                                                *)

VerdictRecord ==
  [row : Nat, verdict : {"OK", "Wrong", "Failed", "Unknown"}, refused : BOOLEAN,
   outcome : Outcome, expected : Value \cup {NoValue}]

Honest(v, k, left) ==
  /\ v.row = k
  /\ IF v.refused THEN v.outcome.row \in {0} \cup left ELSE v.outcome.row = k
  /\ v.verdict = "OK" => v.outcome.value = v.expected
  /\ v.outcome.value = NoValue => v.verdict = "Failed"

Bad(v) == v.verdict \in {"Failed", "Wrong"}

LogInv ==
  /\ verdicts \in Seq(VerdictRecord)
  /\ \A k \in 1 .. Len(verdicts) : Honest(verdicts[k], k, uncleaned)
  /\ has_test_failure \in BOOLEAN
  /\ has_test_failure <=> \E k \in 1 .. Len(verdicts) : Bad(verdicts[k])
  /\ expected_result \in Value \cup {NoValue}
  /\ refused \in BOOLEAN /\ uncleaned \subseteq Nat

\* How many rows have had their verdict.
Checked ==
  CASE pc = "setup" -> 0
    [] pc \in {"free_outputs", "test_cleanup", "teardown", "returned"} -> row
    [] OTHER -> row - 1

Rounds == {"init_outputs", "mem_peak_reset", "run", "check", "hot", "result", "free_outputs",
           "save_result", "cleanup", "test_cleanup"}

\* All that is computed with and on belongs to the row the loop is at.
PlaceInv ==
  /\ pc = "setup" => row = 0
  /\ pc \notin {"setup", "teardown", "returned"} => row >= 1
  /\ row <= opts.configs_count
  /\ pc \in {"teardown", "returned"} => row = opts.configs_count
  /\ opts.bench_parse => pc \in {"setup", "parser", "teardown", "returned"}
  /\ pc \in BeforePrepare => parser_result = row
  /\ pc \in Rounds =>
       IF refused THEN inputs[opts.algo] \in {0} \cup uncleaned ELSE inputs[opts.algo] = row
  /\ ~opts.is_test => uncleaned = {}
  /\ pc \in {"hot", "result", "save_result", "cleanup"} => ~opts.is_test
  /\ pc = "test_cleanup" => opts.is_test
  /\ pc = "check" =>
       /\ opts.is_test
       /\ \E o \in Outcome :
            /\ outputs[opts.algo] = <<o>> /\ o.row = inputs[opts.algo]
            /\ retval = Success => o.value # NoValue
  /\ Len(verdicts) = IF opts.is_test /\ ~opts.bench_parse THEN Checked ELSE 0

(***************************************************************************)
(* What an adapter uses and has not freed: the row the loop is at, between *)
(* prepare and cleanup, and what a failed cleanup of it left.              *)
(***************************************************************************)
InUse(a) == IF InputsHeld(a) THEN {row} ELSE {}

HeldBy(a) ==
  /\ inputs[a] \in {0} \cup Kept(a) \cup InUse(a)
  /\ held[a] \subseteq Kept(a) \cup InUse(a)
  /\ row \in held[a] => inputs[a] = row \/ row \in Kept(a) \/ ~InputsHeld(a)

HeldInv == \A a \in Adapters : HeldBy(a)

Placed == LogInv /\ (pc # "exit" => PlaceInv)
VerdictInv == Placed /\ (pc # "exit" => HeldInv)

\* Nothing has been said before setup.
LEMMA VerdictInit ==
  ASSUME Init
  PROVE  VerdictInv
<1>1. LogInv
  <2>1. /\ verdicts = <<>> /\ has_test_failure = FALSE /\ expected_result = NoValue
        /\ Len(verdicts) = 0 /\ 1 .. Len(verdicts) = {}
    BY DEF Init
  <2>2. verdicts \in Seq(VerdictRecord)
    BY <2>1
  <2>3. ~ \E k \in 1 .. Len(verdicts) : Bad(verdicts[k])
    BY <2>1
  <2>4. refused = FALSE /\ uncleaned = {}
    BY DEF Init
  <2> QED BY <2>1, <2>2, <2>3, <2>4 DEF LogInv
<1>2. opts.configs_count \in Nat
  BY OptionTypes DEF Init
<1>3. PlaceInv
  BY <1>2 DEF Init, PlaceInv, Checked, BeforePrepare, Rounds
<1>4. HeldInv
  BY DEF Init, HeldInv, HeldBy, InputsHeld
<1> QED BY <1>1, <1>3, <1>4 DEF VerdictInv, Placed

\* The verdict printed for a row is honest, and a bad one is remembered.
LEMMA CheckStep ==
  ASSUME LogInv, PlaceInv, Typed, pc = "check", TestCheck
  PROVE  LogInv' /\ Len(verdicts') = Len(verdicts) + 1
<1>1. PICK o \in Outcome :
        /\ outputs[opts.algo] = <<o>> /\ o.row = inputs[opts.algo]
        /\ retval = Success => o.value # NoValue
  BY DEF PlaceInv
<1>2. Last(outputs[opts.algo]) = o
  BY <1>1 DEF Last
<1> DEFINE v == [row |-> row, verdict |-> Verdict, refused |-> refused, outcome |-> o,
                  expected |-> expected_result]
<1>3. /\ verdicts' = Append(verdicts, v)
      /\ has_test_failure' = (has_test_failure \/ Verdict \in {"Failed", "Wrong"})
      /\ expected_result' = expected_result /\ refused' = refused /\ uncleaned' = uncleaned
  BY <1>2 DEF TestCheck, droppedVars
<1>4. /\ Verdict \in {"OK", "Wrong", "Failed", "Unknown"}
      /\ Verdict = "OK" => o.value = expected_result
      /\ retval # Success => Verdict = "Failed"
  BY <1>2 DEF Verdict
<1>5. /\ Len(verdicts) \in Nat /\ row = Len(verdicts) + 1
  <2>1. Len(verdicts) = row - 1
    BY DEF PlaceInv, Checked
  <2>2. row \in Nat /\ row >= 1
    BY DEF PlaceInv, Typed
  <2> QED BY <2>1, <2>2
<1>6. v \in VerdictRecord
  BY <1>4, <1>5 DEF LogInv, VerdictRecord
<1>7. Honest(v, Len(verdicts) + 1, uncleaned)
  <2>1. IF refused THEN o.row \in {0} \cup uncleaned ELSE o.row = row
    BY <1>1 DEF PlaceInv, Rounds
  <2>2. v.row = row /\ v.verdict = Verdict /\ v.refused = refused /\ v.outcome = o
        /\ v.expected = expected_result
    OBVIOUS
  <2> HIDE DEF v
  <2> QED BY <1>1, <1>4, <1>5, <2>1, <2>2 DEF Honest
<1>8. Bad(v) <=> Verdict \in {"Failed", "Wrong"}
  BY DEF Bad
<1> HIDE DEF v
<1>9. /\ verdicts' \in Seq(VerdictRecord) /\ Len(verdicts') = Len(verdicts) + 1
      /\ \A k \in 1 .. Len(verdicts) : verdicts'[k] = verdicts[k]
      /\ verdicts'[Len(verdicts) + 1] = v
  BY <1>3, <1>6 DEF LogInv
<1>10. ASSUME NEW k \in 1 .. Len(verdicts') PROVE Honest(verdicts'[k], k, uncleaned')
  <2>1. k \in 1 .. Len(verdicts) \/ k = Len(verdicts) + 1
    BY <1>5, <1>9
  <2>2. Honest(verdicts'[k], k, uncleaned)
    BY <1>7, <1>9, <2>1 DEF LogInv
  <2> QED BY <1>3, <2>2 DEF Honest
<1>11. has_test_failure' <=> \E k \in 1 .. Len(verdicts') : Bad(verdicts'[k])
  <2>1. has_test_failure' <=> has_test_failure \/ Bad(v)
    BY <1>3, <1>8
  <2>2. (\E k \in 1 .. Len(verdicts') : Bad(verdicts'[k]))
          <=> (\E k \in 1 .. Len(verdicts) : Bad(verdicts[k])) \/ Bad(v)
    <3>1. /\ \A k \in 1 .. Len(verdicts') : k \in 1 .. Len(verdicts) \/ k = Len(verdicts) + 1
          /\ \A k \in 1 .. Len(verdicts) : k \in 1 .. Len(verdicts')
          /\ Len(verdicts) + 1 \in 1 .. Len(verdicts')
      BY <1>5, <1>9
    <3> QED BY <1>9, <3>1
  <2> QED BY <2>1, <2>2 DEF LogInv
<1>12. has_test_failure' \in BOOLEAN
  BY <1>3
<1>13. refused' \in BOOLEAN /\ uncleaned' \subseteq Nat
  BY <1>3 DEF LogInv
<1> QED BY <1>3, <1>9, <1>10, <1>11, <1>12, <1>13 DEF LogInv

\* The head of the loop: the verdicts of the rows so far are there, if wanted.
LEMMA NextRowPlace ==
  ASSUME Typed, NextRow, opts' = opts, verdicts' = verdicts, pc \notin BeforePrepare,
         row \in Nat, row <= opts.configs_count, ~opts.is_test => uncleaned' = {},
         Len(verdicts) = IF opts.is_test /\ ~opts.bench_parse THEN row ELSE 0
  PROVE  PlaceInv'
<1>1. opts.configs_count \in Nat
  BY OptionTypes DEF Typed
<1>2. CASE row < opts.configs_count
  <2>1. pc' = "parser" /\ row' = row + 1
    BY <1>2 DEF NextRow
  <2> QED BY <1>1, <1>2, <2>1 DEF PlaceInv, Checked, BeforePrepare, Rounds
<1>3. CASE ~(row < opts.configs_count)
  <2>1. pc' = "teardown" /\ row' = row
    BY <1>3 DEF NextRow
  <2> QED BY <1>1, <1>3, <2>1 DEF PlaceInv, Checked, BeforePrepare, Rounds
<1> QED BY <1>2, <1>3

\* The verdicts stay as they are; one more cleanup may fail.
LEMMA LogFrame ==
  ASSUME LogInv, verdicts' = verdicts, has_test_failure' = has_test_failure,
         expected_result' \in Value \cup {NoValue}, refused' \in BOOLEAN,
         uncleaned \subseteq uncleaned', uncleaned' \subseteq Nat
  PROVE  LogInv'
<1>1. ASSUME NEW k \in 1 .. Len(verdicts') PROVE Honest(verdicts'[k], k, uncleaned')
  <2>1. Honest(verdicts[k], k, uncleaned) /\ verdicts'[k] = verdicts[k]
    BY DEF LogInv
  <2> QED BY <2>1 DEF Honest
<1> QED BY <1>1 DEF LogInv

\* Every call of main() keeps verdicts, rows and outcomes together.
LEMMA PlaceNext ==
  ASSUME LifeInv, LifeInv', Placed, pc # "exit" => HeldInv, [Next]_vars
  PROVE  Placed'
<1>1. /\ Typed /\ Typed' /\ LogInv /\ opts.algo \in Adapters /\ Reference \in Adapters
      /\ opts.configs_count \in Nat /\ row \in Nat
      /\ expected_result \in Value \cup {NoValue} /\ refused \in BOOLEAN /\ uncleaned \subseteq Nat
  BY OptionTypes DEF LifeInv, Typed, Placed, LogInv
<1>2. CASE Setup
  <2>1. /\ opts' = opts /\ verdicts' = verdicts /\ has_test_failure' = has_test_failure
        /\ expected_result' = expected_result /\ pc = "setup" /\ NextRow
        /\ refused' = refused /\ uncleaned' = uncleaned
    BY <1>2 DEF Setup, resultVars, logVars, droppedVars
  <2>2. row = 0 /\ Len(verdicts) = 0 /\ (~opts.is_test => uncleaned' = {})
    BY <2>1 DEF Placed, PlaceInv, Checked
  <2>3. PlaceInv'
    BY <1>1, <2>1, <2>2, NextRowPlace DEF BeforePrepare
  <2> QED BY <1>1, <2>1, <2>3, LogFrame DEF Placed
<1>3. CASE Parser
  <2>1. /\ opts' = opts /\ verdicts' = verdicts /\ has_test_failure' = has_test_failure
        /\ refused' = refused /\ uncleaned' = uncleaned /\ pc = "parser" /\ PlaceInv
    BY <1>3 DEF Parser, logVars, droppedVars, Placed
  <2>2. CASE opts.bench_parse
    <3>1. NextRow /\ expected_result' = expected_result
      BY <1>3, <2>2 DEF Parser
    <3>2. Len(verdicts) = 0 /\ row <= opts.configs_count /\ (~opts.is_test => uncleaned' = {})
      BY <2>1, <2>2 DEF PlaceInv
    <3>3. PlaceInv'
      BY <1>1, <2>1, <2>2, <3>1, <3>2, NextRowPlace DEF BeforePrepare
    <3> QED BY <1>1, <2>1, <3>1, <3>3, LogFrame DEF Placed
  <2>3. CASE ~opts.bench_parse
    <3>1. /\ parser_result' = row /\ row' = row /\ pc' \in {"computed_cache_get", "prepare"}
          /\ expected_result' \in Value \cup {NoValue}
      BY <1>3, <2>3 DEF Parser
    <3>2. PlaceInv'
      BY <1>1, <2>1, <2>3, <3>1 DEF PlaceInv, Checked, BeforePrepare, Rounds
    <3> QED BY <1>1, <2>1, <3>1, <3>2, LogFrame DEF Placed
  <2> QED BY <2>2, <2>3
<1>4. CASE computed_cache_get \/ compute_expected_result
  <2>1. /\ opts' = opts /\ row' = row /\ parser_result' = parser_result
        /\ verdicts' = verdicts /\ has_test_failure' = has_test_failure
        /\ pc \in BeforePrepare /\ pc' \in BeforePrepare
        /\ expected_result' \in Value \cup {NoValue}
        /\ refused' = refused /\ uncleaned' = uncleaned
    BY <1>1, <1>4 DEF computed_cache_get, compute_expected_result, RefCall, loopVars, logVars,
                      droppedVars, BeforePrepare
  <2>2. PlaceInv /\ PlaceInv'
    BY <1>1, <2>1 DEF Placed, PlaceInv, Checked, BeforePrepare, Rounds
  <2> QED BY <1>1, <2>1, <2>2, LogFrame DEF Placed
<1>5. CASE Prepare
  <2>1. /\ opts' = opts /\ row' = row /\ verdicts' = verdicts
        /\ has_test_failure' = has_test_failure /\ expected_result' = expected_result
        /\ pc = "prepare" /\ pc' = "init_outputs" /\ uncleaned' = uncleaned
        /\ refused' \in BOOLEAN /\ PlaceInv /\ HeldInv
    BY <1>5 DEF Prepare, resultVars, Placed
  <2>2. parser_result = row
    BY <2>1 DEF PlaceInv, BeforePrepare
  <2>3. IF refused' THEN inputs'[opts.algo] \in {0} \cup uncleaned ELSE inputs'[opts.algo] = row
    <3>1. CASE PrepareOf(opts.algo, parser_result) /\ refused' = FALSE
      BY <1>1, <2>2, <3>1 DEF PrepareOf, Typed, InputTypes
    <3>2. CASE UNCHANGED inputs /\ refused' = TRUE
      <4>1. ~InputsHeld(opts.algo)
        BY <2>1 DEF InputsHeld
      <4> QED BY <1>1, <2>1, <3>2, <4>1 DEF HeldInv, HeldBy, InUse, Kept
    <3> QED BY <1>5, <3>1, <3>2 DEF Prepare
  <2>4. PlaceInv'
    BY <1>1, <2>1, <2>3 DEF PlaceInv, Checked, BeforePrepare, Rounds
  <2> QED BY <1>1, <2>1, <2>4, LogFrame DEF Placed
<1>6. CASE InitOutputs \/ MemPeakReset \/ HotRun \/ GetResult \/ FreeOutputs \/ save_result
  <2>1. /\ opts' = opts /\ row' = row /\ inputs' = inputs /\ verdicts' = verdicts
        /\ has_test_failure' = has_test_failure /\ expected_result' = expected_result
        /\ refused' = refused /\ uncleaned' = uncleaned
    BY <1>6 DEF InitOutputs, MemPeakReset, HotRun, GetResult, FreeOutputs, save_result,
                InitOutputsOf, FreeOutputsOf, loopVars, resultVars, logVars, adapterVars, inputVars,
                droppedVars
  <2>2. \/ pc = "init_outputs" /\ pc' = "mem_peak_reset"
        \/ pc = "mem_peak_reset" /\ pc' = "run"
        \/ pc \in {"hot", "result"} /\ pc' = "free_outputs"
        \/ pc = "free_outputs" /\ opts.is_test /\ pc' = "test_cleanup"
        \/ pc = "free_outputs" /\ ~opts.is_test /\ pc' \in {"save_result", "init_outputs"}
        \/ pc = "save_result" /\ pc' \in {"init_outputs", "cleanup"}
    BY <1>6 DEF InitOutputs, MemPeakReset, HotRun, GetResult, FreeOutputs, save_result
  <2>3. PlaceInv
    BY <2>2 DEF Placed
  <2>4. PlaceInv'
    BY <1>1, <2>1, <2>2, <2>3 DEF PlaceInv, Checked, BeforePrepare, Rounds
  <2> QED BY <1>1, <2>1, <2>4, LogFrame DEF Placed
<1>7. CASE Run
  <2>1. /\ opts' = opts /\ row' = row /\ verdicts' = verdicts
        /\ has_test_failure' = has_test_failure /\ expected_result' = expected_result
        /\ refused' = refused /\ uncleaned' = uncleaned
        /\ pc = "run" /\ pc' \in {"check", "hot", "result"}
        /\ (pc' = "check") <=> opts.is_test
        /\ PlaceInv
    BY <1>7 DEF Run, loopVars, droppedVars, Placed
  <2>2. PICK value \in Value \cup {NoValue} :
          RunOf(opts.algo, value) /\ (retval' = Success => value # NoValue)
    BY <1>7, DriverAssumption DEF Run, Success, Failure
  <2>3. outputs[opts.algo] = <<Fresh>>
    BY <1>1, <2>1 DEF LifeInv, Holds, FreshHeld
  <2>4. PICK o \in Outcome :
          /\ outputs' = [outputs EXCEPT ![opts.algo] = <<o>>] /\ UNCHANGED inputVars
          /\ o.row = inputs[opts.algo] /\ o.value = value
    BY <1>1, <2>2, <2>3, RunOutcome
  <2>5. outputs'[opts.algo] = <<o>> /\ inputs' = inputs
    BY <1>1, <2>4 DEF Typed, inputVars
  <2>6. o.row = inputs'[opts.algo] /\ (retval' = Success => o.value # NoValue)
    BY <2>2, <2>4, <2>5
  <2>7. PlaceInv'
    BY <1>1, <2>1, <2>5, <2>6 DEF PlaceInv, Checked, BeforePrepare, Rounds
  <2> QED BY <1>1, <2>1, <2>7, LogFrame DEF Placed
<1>8. CASE TestCheck
  <2>1. /\ opts' = opts /\ row' = row /\ inputs' = inputs
        /\ pc = "check" /\ pc' = "free_outputs" /\ PlaceInv
        /\ refused' = refused /\ uncleaned' = uncleaned
    BY <1>8 DEF TestCheck, loopVars, adapterVars, inputVars, droppedVars, Placed
  <2>2. LogInv' /\ Len(verdicts') = Len(verdicts) + 1
    BY <1>1, <1>8, <2>1, CheckStep
  <2>3. Len(verdicts) = row - 1 /\ opts.is_test /\ ~opts.bench_parse
    BY <2>1 DEF PlaceInv, Checked
  <2>4. Len(verdicts') = row
    BY <1>1, <2>2, <2>3
  <2>5. PlaceInv'
    BY <1>1, <2>1, <2>3, <2>4 DEF PlaceInv, Checked, BeforePrepare, Rounds
  <2> QED BY <2>2, <2>5 DEF Placed
<1>9. CASE Cleanup
  <2>1. /\ opts' = opts /\ verdicts' = verdicts /\ has_test_failure' = has_test_failure
        /\ expected_result' = expected_result
        /\ pc \in {"cleanup", "test_cleanup"} /\ NextRow /\ PlaceInv
        /\ refused' = refused
        /\ uncleaned' = uncleaned \/ (pc = "test_cleanup" /\ uncleaned' = uncleaned \cup {row})
    BY <1>9 DEF Cleanup, resultVars, Placed
  <2>2. Len(verdicts) = (IF opts.is_test /\ ~opts.bench_parse THEN row ELSE 0)
        /\ row <= opts.configs_count /\ (~opts.is_test => uncleaned' = {})
    BY <2>1 DEF PlaceInv, Checked
  <2>3. PlaceInv'
    BY <1>1, <2>1, <2>2, NextRowPlace DEF BeforePrepare
  <2>4. uncleaned \subseteq uncleaned' /\ uncleaned' \subseteq Nat
    BY <1>1, <2>1
  <2> QED BY <1>1, <2>1, <2>3, <2>4, LogFrame DEF Placed
<1>10. CASE Teardown
  <2>1. /\ opts' = opts /\ row' = row /\ verdicts' = verdicts
        /\ has_test_failure' = has_test_failure /\ expected_result' = expected_result
        /\ refused' = refused /\ uncleaned' = uncleaned
        /\ pc = "teardown" /\ pc' = "returned" /\ PlaceInv
    BY <1>10 DEF Teardown, loopVars, resultVars, logVars, droppedVars, Placed
  <2>2. PlaceInv'
    BY <1>1, <2>1 DEF PlaceInv, Checked, BeforePrepare, Rounds
  <2> QED BY <1>1, <2>1, <2>2, LogFrame DEF Placed
<1>11. CASE Fatal
  <2>1. /\ pc' = "exit" /\ verdicts' = verdicts /\ has_test_failure' = has_test_failure
        /\ expected_result' = expected_result /\ refused' = refused /\ uncleaned' = uncleaned
    BY <1>11 DEF Fatal, FailsAt, resultVars, logVars, droppedVars
  <2> QED BY <1>1, <2>1, LogFrame DEF Placed
<1>12. CASE UNCHANGED vars
  <2>1. /\ opts' = opts /\ row' = row /\ verdicts' = verdicts /\ pc' = pc
        /\ has_test_failure' = has_test_failure /\ expected_result' = expected_result
        /\ inputs' = inputs /\ outputs' = outputs /\ parser_result' = parser_result
        /\ retval' = retval /\ refused' = refused /\ uncleaned' = uncleaned
    BY <1>12 DEF vars, loopVars, resultVars, logVars, adapterVars, inputVars, droppedVars
  <2> QED BY <1>1, <2>1, LogFrame DEF Placed, PlaceInv, Checked
<1> QED BY <1>2, <1>3, <1>4, <1>5, <1>6, <1>7, <1>8, <1>9, <1>10, <1>11, <1>12
        DEF Next, Step, Finished

\* An adapter a step leaves alone, in its place or between two rows.
LEMMA HeldFrame ==
  ASSUME NEW a, HeldBy(a), opts' = opts, inputs'[a] = inputs[a], held'[a] = held[a],
         uncleaned' = uncleaned \/ a # opts.algo, InputsHeld(a)' <=> InputsHeld(a),
         row' = row \/ ~InputsHeld(a)
  PROVE  HeldBy(a)'
<1>1. Kept(a)' = Kept(a) /\ InUse(a)' = InUse(a)
  BY DEF Kept, InUse
<1> QED BY <1>1 DEF HeldBy

\* An adapter that takes the matrices of the row, or is refused them.
LEMMA HeldPrepare ==
  ASSUME Typed, NEW a \in Adapters, HeldBy(a), opts' = opts, row' = row, uncleaned' = uncleaned,
         ~InputsHeld(a), InputsHeld(a)',
         PrepareOf(a, row) \/ UNCHANGED <<inputs, held>>
  PROVE  /\ HeldBy(a)'
         /\ \A b \in Adapters \ {a} : inputs'[b] = inputs[b] /\ held'[b] = held[b]
<1>1. Kept(a)' = Kept(a) /\ InUse(a)' = {row} /\ InUse(a) = {}
  BY DEF Kept, InUse
<1>2. inputs[a] \in {0} \cup Kept(a) /\ held[a] \subseteq Kept(a)
  BY <1>1 DEF HeldBy
<1>3. CASE PrepareOf(a, row)
  <2>1. inputs'[a] = row /\ held'[a] = held[a] \cup {row}
    BY <1>3 DEF PrepareOf, Typed, InputTypes
  <2> QED BY <1>1, <1>2, <1>3, <2>1 DEF HeldBy, PrepareOf, Typed, InputTypes
<1>4. CASE UNCHANGED <<inputs, held>>
  BY <1>1, <1>2, <1>4 DEF HeldBy
<1> QED BY <1>3, <1>4

\* An adapter that frees the matrices of the row, or keeps them: then it is
\* the tested one.
LEMMA HeldCleanup ==
  ASSUME Typed, NEW a \in Adapters, HeldBy(a), opts' = opts,
         InputsHeld(a), ~InputsHeld(a)',
         \/ CleanupOf(a) /\ uncleaned' = uncleaned
         \/ UNCHANGED <<inputs, held>> /\ uncleaned' = uncleaned \cup {row} /\ a = opts.algo
  PROVE  /\ HeldBy(a)'
         /\ \A b \in Adapters \ {a} : inputs'[b] = inputs[b] /\ held'[b] = held[b]
<1>1. InUse(a)' = {} /\ InUse(a) = {row}
  BY DEF InUse
<1>2. CASE CleanupOf(a) /\ uncleaned' = uncleaned
  <2>1. inputs'[a] = 0 /\ held'[a] = held[a] \ {inputs[a]} /\ Kept(a)' = Kept(a)
    BY <1>2 DEF CleanupOf, Typed, InputTypes, Kept
  <2>2. held'[a] \subseteq Kept(a)
    BY <1>1, <2>1 DEF HeldBy
  <2> QED BY <1>1, <1>2, <2>1, <2>2 DEF HeldBy, CleanupOf, Typed, InputTypes
<1>3. CASE UNCHANGED <<inputs, held>> /\ uncleaned' = uncleaned \cup {row} /\ a = opts.algo
  <2>1. Kept(a) = uncleaned /\ Kept(a)' = uncleaned \cup {row}
    BY <1>3 DEF Kept
  <2> QED BY <1>1, <1>3, <2>1 DEF HeldBy
<1> QED BY <1>2, <1>3

\* Every call of main() keeps what the adapters hold in step with the rows.
LEMMA HeldNext ==
  ASSUME LifeInv, PlaceInv, HeldInv, pc # "exit", pc' # "exit", [Next]_vars
  PROVE  HeldInv'
<1>1. Typed /\ opts.algo \in Adapters /\ Reference \in Adapters
  BY OptionTypes DEF LifeInv, Typed
<1>2. CASE Setup \/ Parser \/ computed_cache_get \/ Teardown
  <2>1. /\ opts' = opts /\ inputs' = inputs /\ held' = held /\ uncleaned' = uncleaned
    BY <1>2 DEF Setup, Parser, computed_cache_get, Teardown, adapterVars, inputVars, logVars,
                droppedVars
  <2>2. /\ pc \in {"setup", "parser", "computed_cache_get", "teardown"}
        /\ pc' \in {"parser", "computed_cache_get", "ref_prepare", "prepare", "teardown", "returned"}
    BY <1>2 DEF Setup, Parser, computed_cache_get, Teardown, NextRow
  <2>3. ASSUME NEW a \in Adapters PROVE ~InputsHeld(a) /\ ~InputsHeld(a)'
    BY <2>2 DEF InputsHeld
  <2> QED BY <2>1, <2>3, HeldFrame DEF HeldInv
<1>3. CASE InitOutputs \/ MemPeakReset \/ Run \/ TestCheck \/ HotRun \/ GetResult \/ FreeOutputs
           \/ save_result \/ UNCHANGED vars
  <2>1. /\ opts' = opts /\ row' = row /\ inputs' = inputs /\ held' = held /\ uncleaned' = uncleaned
    BY <1>3 DEF InitOutputs, MemPeakReset, Run, TestCheck, HotRun, GetResult, FreeOutputs,
                save_result, InitOutputsOf, RunOf, FreeOutputsOf, loopVars, adapterVars, inputVars,
                logVars, droppedVars, vars
  <2>2. \/ pc' = pc
        \/ /\ pc \in {"init_outputs", "mem_peak_reset", "run", "check", "hot", "result",
                      "free_outputs", "save_result"}
           /\ pc' \in {"init_outputs", "mem_peak_reset", "run", "check", "hot", "result",
                       "free_outputs", "save_result", "cleanup", "test_cleanup"}
    BY <1>3 DEF InitOutputs, MemPeakReset, Run, TestCheck, HotRun, GetResult, FreeOutputs,
                save_result, vars
  <2>3. ASSUME NEW a \in Adapters PROVE InputsHeld(a)' <=> InputsHeld(a)
    BY <2>1, <2>2 DEF InputsHeld
  <2> QED BY <2>1, <2>3, HeldFrame DEF HeldInv
<1>4. CASE compute_expected_result
  <2>1. /\ opts' = opts /\ row' = row /\ uncleaned' = uncleaned /\ parser_result = row
        /\ pc \in BeforePrepare
    BY <1>4 DEF compute_expected_result, RefCall, loopVars, logVars, droppedVars, BeforePrepare,
                PlaceInv
  <2>2. \/ pc = "ref_prepare" /\ pc' = "ref_init_outputs" /\ PrepareOf(Reference, row)
        \/ pc = "ref_cleanup" /\ pc' = "prepare" /\ CleanupOf(Reference)
        \/ /\ inputs' = inputs /\ held' = held
           /\ \/ pc = "ref_init_outputs" /\ pc' = "ref_run"
              \/ pc = "ref_run" /\ pc' = "ref_free_outputs"
              \/ pc = "ref_free_outputs" /\ pc' = "ref_cleanup"
    BY <1>4, <2>1 DEF compute_expected_result, RefCall, InitOutputsOf, RunOf, FreeOutputsOf, inputVars
  <2>3. ASSUME NEW a \in Adapters \ {Reference} PROVE ~InputsHeld(a) /\ ~InputsHeld(a)'
    BY <2>1, <2>2, <2>3 DEF InputsHeld
  <2>4. HeldBy(Reference)'
           /\ \A b \in Adapters \ {Reference} : inputs'[b] = inputs[b] /\ held'[b] = held[b]
    <3>1. HeldBy(Reference)
      BY <1>1 DEF HeldInv
    <3>2. CASE pc = "ref_prepare" /\ pc' = "ref_init_outputs" /\ PrepareOf(Reference, row)
      <4>1. ~InputsHeld(Reference) /\ InputsHeld(Reference)'
        BY <2>1, <3>2 DEF InputsHeld
      <4> QED BY <1>1, <2>1, <3>1, <3>2, <4>1, HeldPrepare
    <3>3. CASE pc = "ref_cleanup" /\ pc' = "prepare" /\ CleanupOf(Reference)
      <4>1. InputsHeld(Reference) /\ ~InputsHeld(Reference)'
        BY <2>1, <3>3 DEF InputsHeld
      <4> QED BY <1>1, <2>1, <3>1, <3>3, <4>1, HeldCleanup
    <3>4. CASE /\ inputs' = inputs /\ held' = held
               /\ \/ pc = "ref_init_outputs" /\ pc' = "ref_run"
                  \/ pc = "ref_run" /\ pc' = "ref_free_outputs"
                  \/ pc = "ref_free_outputs" /\ pc' = "ref_cleanup"
      <4>1. InputsHeld(Reference) /\ InputsHeld(Reference)'
        BY <2>1, <3>4 DEF InputsHeld
      <4> QED BY <2>1, <3>1, <3>4, <4>1, HeldFrame
    <3> QED BY <2>2, <3>2, <3>3, <3>4
  <2>5. ASSUME NEW a \in Adapters \ {Reference} PROVE HeldBy(a)'
    <3>1. HeldBy(a)
      BY DEF HeldInv
    <3> QED BY <2>1, <2>3, <2>4, <3>1, HeldFrame
  <2> QED BY <2>4, <2>5 DEF HeldInv
<1>5. CASE Prepare \/ Cleanup
  <2>1. opts' = opts
    BY <1>5 DEF Prepare, Cleanup
  <2>2. \/ /\ pc = "prepare" /\ pc' = "init_outputs" /\ row' = row /\ uncleaned' = uncleaned
           /\ parser_result = row
           /\ PrepareOf(opts.algo, row) \/ UNCHANGED <<inputs, held>>
        \/ /\ pc \in {"cleanup", "test_cleanup"} /\ pc' \in {"parser", "teardown"}
           /\ \/ CleanupOf(opts.algo) /\ uncleaned' = uncleaned
              \/ UNCHANGED <<inputs, held>> /\ uncleaned' = uncleaned \cup {row}
    BY <1>5 DEF Prepare, Cleanup, NextRow, PlaceInv, BeforePrepare
  <2>3. ASSUME NEW a \in Adapters \ {opts.algo} PROVE ~InputsHeld(a) /\ ~InputsHeld(a)'
    BY <2>1, <2>2, <2>3 DEF InputsHeld
  <2>4. HeldBy(opts.algo)'
           /\ \A b \in Adapters \ {opts.algo} : inputs'[b] = inputs[b] /\ held'[b] = held[b]
    <3>1. HeldBy(opts.algo)
      BY <1>1 DEF HeldInv
    <3>2. CASE /\ pc = "prepare" /\ pc' = "init_outputs" /\ row' = row /\ uncleaned' = uncleaned
               /\ PrepareOf(opts.algo, row) \/ UNCHANGED <<inputs, held>>
      <4>1. ~InputsHeld(opts.algo) /\ InputsHeld(opts.algo)'
        BY <2>1, <3>2 DEF InputsHeld
      <4> QED BY <1>1, <2>1, <3>1, <3>2, <4>1, HeldPrepare
    <3>3. CASE /\ pc \in {"cleanup", "test_cleanup"} /\ pc' \in {"parser", "teardown"}
               /\ \/ CleanupOf(opts.algo) /\ uncleaned' = uncleaned
                  \/ UNCHANGED <<inputs, held>> /\ uncleaned' = uncleaned \cup {row}
      <4>1. InputsHeld(opts.algo) /\ ~InputsHeld(opts.algo)'
        BY <2>1, <3>3 DEF InputsHeld
      <4> QED BY <1>1, <2>1, <3>1, <3>3, <4>1, HeldCleanup
    <3> QED BY <2>2, <3>2, <3>3
  <2>5. ASSUME NEW a \in Adapters \ {opts.algo} PROVE HeldBy(a)'
    <3>1. HeldBy(a) /\ a # opts.algo
      BY DEF HeldInv
    <3>2. ~InputsHeld(a) /\ ~InputsHeld(a)' /\ inputs'[a] = inputs[a] /\ held'[a] = held[a]
      BY <2>3, <2>4
    <3> QED BY <2>1, <3>1, <3>2, HeldFrame
  <2> QED BY <1>1, <2>1, <2>4, <2>5 DEF HeldInv
<1>6. CASE Fatal
  BY <1>6 DEF Fatal, FailsAt
<1> QED BY <1>2, <1>3, <1>4, <1>5, <1>6 DEF Next, Step, Finished

LEMMA VerdictNext ==
  ASSUME LifeInv, LifeInv', VerdictInv, [Next]_vars
  PROVE  VerdictInv'
<1>1. Placed'
  BY PlaceNext DEF VerdictInv
<1>2. ASSUME pc' # "exit" PROVE HeldInv'
  <2>1. CASE pc # "exit"
    BY <1>2, <2>1, HeldNext DEF VerdictInv, Placed
  <2>2. CASE pc = "exit"
    BY <1>2, <2>2 DEF Next, Step, Setup, Parser, computed_cache_get, compute_expected_result, RefCall,
       Prepare, InitOutputs, MemPeakReset, Run, TestCheck, HotRun, GetResult, FreeOutputs,
       save_result, Cleanup, Teardown, Fatal, FailsAt, Calls, Finished, vars
  <2> QED BY <2>1, <2>2
<1> QED BY <1>1, <1>2 DEF VerdictInv

(***************************************************************************)
(* Test mode's verdicts are honest for any number of rows and whatever     *)
(* fails: each follows a run on that row's data unless its prepare failed, *)
(* an [OK] is the value that was expected, and the exit status is a        *)
(* failure exactly when one row's verdict is.                              *)
(***************************************************************************)
THEOREM DriverVerdictsHonest == Spec => []VerdictsHonest
<1>1. ASSUME LifeInv, VerdictInv PROVE VerdictsHonest
  <2>1. DOMAIN verdicts = 1 .. Len(verdicts)
    BY <1>1 DEF VerdictInv, Placed, LogInv
  <2>2. ASSUME NEW k \in DOMAIN verdicts PROVE Honest(verdicts[k], k, uncleaned)
    BY <1>1, <2>1 DEF VerdictInv, Placed, LogInv
  <2>3. ASSUME pc = "returned"
        PROVE  /\ has_test_failure <=> \E k \in DOMAIN verdicts : Bad(verdicts[k])
               /\ opts.is_test /\ ~opts.bench_parse => Len(verdicts) = opts.configs_count
    BY <1>1, <2>1, <2>3 DEF VerdictInv, Placed, LogInv, PlaceInv, Checked
  <2> QED BY <2>2, <2>3 DEF VerdictsHonest, Honest, Bad
<1>2. Init => VerdictInv
  BY VerdictInit
<1>3. LifeInv /\ LifeInv' /\ VerdictInv /\ [Next]_vars => VerdictInv'
  BY VerdictNext
<1> QED BY <1>1, <1>2, <1>3, DriverInvariant, PTL DEF Spec


(***************************************************************************)
(* When main() returns, nothing is held, however many rows there were and  *)
(* whichever of them were refused, but what a failed cleanup left.         *)
(***************************************************************************)
THEOREM DriverHoldsNothing == Spec => []NothingHeldAtReturn
<1>1. ASSUME LifeInv, VerdictInv PROVE NothingHeldAtReturn
  <2>1. ASSUME pc = "returned", NEW a \in Adapters
        PROVE  held[a] \subseteq Kept(a) /\ outputs[a] = <<>>
    <3>1. Holds(a) /\ HeldBy(a) /\ ~InputsHeld(a) /\ ~FreshHeld(a) /\ ~RanHeld(a)
      BY <1>1, <2>1 DEF LifeInv, VerdictInv, HeldInv, InputsHeld, FreshHeld, RanHeld
    <3> QED BY <3>1 DEF Holds, HeldBy, InUse
  <2> QED BY <1>1, <2>1 DEF LifeInv, RowInv, BeforePrepare, NothingHeldAtReturn
<1>2. Init => VerdictInv
  BY VerdictInit
<1>3. LifeInv /\ LifeInv' /\ VerdictInv /\ [Next]_vars => VerdictInv'
  BY VerdictNext
<1> QED BY <1>1, <1>2, <1>3, DriverInvariant, PTL DEF Spec


-----------------------------------------------------------------------------
(***************************************************************************)
(* The results file.  Which round of which row the loop is in follows from *)
(* the number of rounds saved: the warm-up of --hot is round 0 when its    *)
(* outputs are freed, and a round saved but not yet on disk is the last.   *)
(***************************************************************************)

Places ==
  Calls \cup {"computed_cache_get", "check", "hot", "result", "returned", "exit"}

SavedRecord ==
  [row : Nat, round : Nat, run : Nat, refused : BOOLEAN, outcome : Outcome, on_disk : BOOLEAN]

RoundTypes ==
  /\ pc \in Places
  /\ round \in Nat /\ is_hot \in BOOLEAN /\ runs \in 0 .. 2
  /\ retval \in {Success, Failure} /\ library \in BOOLEAN /\ parser_result \in Nat
  /\ saved \in Seq(SavedRecord)

Measured == ~opts.is_test /\ ~opts.bench_parse

\* A line of the results file: the round of the row its number says.
SavedOK(s, k) ==
  /\ s.row = 1 + ((k - 1) \div opts.rounds_count)
  /\ s.round = 1 + ((k - 1) % opts.rounds_count)
  /\ s.outcome.row = IF s.refused THEN 0 ELSE s.row
  /\ opts.hot => s.run = 2

SavedInv ==
  /\ ~Measured => saved = <<>>
  /\ \A k \in 1 .. Len(saved) : SavedOK(saved[k], k)

\* The rounds of the rows before this one, and of this one.
RowsBefore == (row - 1) * opts.rounds_count

Pending == pc = "save_result" \/ (pc = "free_outputs" /\ round > 0)

CountInv ==
  /\ pc = "setup" => Len(saved) = 0
  /\ pc \in {"teardown", "returned", "cleanup"} => Len(saved) = RowsBefore + opts.rounds_count
  /\ pc = "parser" \/ pc \in BeforePrepare => Len(saved) = RowsBefore
  /\ pc \in {"init_outputs", "mem_peak_reset", "run", "hot", "result"} =>
       round \in 1 .. opts.rounds_count /\ Len(saved) = RowsBefore + (round - 1)
  /\ pc = "free_outputs" => round \in 0 .. opts.rounds_count /\ Len(saved) = RowsBefore + round
  /\ pc = "save_result" => round \in 1 .. opts.rounds_count /\ Len(saved) = RowsBefore + round
  /\ \A k \in 1 .. Len(saved) : saved[k].on_disk = FALSE <=> Pending /\ k = Len(saved)

\* How often the tested adapter has run on this row.
RunsInv ==
  /\ pc \in {"init_outputs", "mem_peak_reset", "run"} =>
       /\ opts.is_test => runs = 0
       /\ is_hot => runs = 0 /\ round = 1
       /\ opts.hot /\ ~is_hot => runs \in 1 .. 2
  /\ pc \in {"check", "test_cleanup"} => runs = 1 /\ opts.is_test
  /\ pc = "hot" => runs = 1 /\ round = 1
  /\ pc = "result" => ~is_hot /\ (opts.hot => runs = 2)
  /\ pc = "free_outputs" =>
       /\ opts.is_test => runs = 1
       /\ ~opts.is_test => ~is_hot /\ (opts.hot => runs \in 1 .. 2)
  /\ pc = "save_result" => ~is_hot /\ (opts.hot => runs \in 1 .. 2)
  /\ pc \in {"hot", "result"} =>
       \E o \in Outcome :
         outputs[opts.algo] = <<o>> /\ o.row = IF refused THEN 0 ELSE row

RoundsInv ==
  /\ RoundTypes /\ SavedInv
  /\ pc # "exit" => RunsInv /\ (Measured => CountInv)

\* Division by the number of rounds gives back row and round.
LEMMA RoundOfNumber ==
  ASSUME NEW R \in Nat \ {0}, NEW a \in Nat, NEW b \in 0 .. R - 1
  PROVE  (a * R + b) \div R = a /\ (a * R + b) % R = b
  BY Z3

\* The types of the command line a proof cites.
LEMMA RoundsCount ==
  ASSUME opts \in Options
  PROVE  /\ opts.rounds_count \in Nat \ {0} /\ opts.configs_count \in Nat
         /\ opts.is_test \in BOOLEAN /\ opts.hot \in BOOLEAN /\ opts.bench_parse \in BOOLEAN
         /\ opts \in CommandLine
  BY DriverAssumption DEF CommandLine

LEMMA RoundsInit ==
  ASSUME Init
  PROVE  RoundsInv
<1>1. saved = <<>> /\ Len(saved) = 0 /\ pc = "setup" /\ 1 .. Len(saved) = {}
  BY DEF Init
<1>2. saved \in Seq(SavedRecord)
  BY <1>1
<1>3. RoundTypes
  <2>1. pc \in Places
    BY <1>1 DEF Places, Calls
  <2>2. round = 0 /\ is_hot = FALSE /\ runs = 0 /\ retval = Success /\ library = FALSE /\ parser_result = 0
    BY DEF Init
  <2>3. is_hot \in BOOLEAN /\ library \in BOOLEAN /\ retval \in {Success, Failure}
    BY <2>2
  <2>4. round \in Nat /\ runs \in 0 .. 2 /\ parser_result \in Nat
    BY <2>2
  <2> QED
    BY <1>2, <2>1, <2>3, <2>4 DEF RoundTypes
<1>4. SavedInv /\ RunsInv
  BY <1>1 DEF SavedInv, RunsInv
<1>5. CountInv
  BY <1>1 DEF CountInv, BeforePrepare
<1> QED
  BY <1>3, <1>4, <1>5 DEF RoundsInv

\* The head of the loop: the rounds of one more row are done.
LEMMA NextRowRounds ==
  ASSUME opts \in Options, row \in Nat, NextRow, opts' = opts, saved' = saved,
         SavedInv, RoundTypes, RoundTypes',
         Measured => /\ Len(saved) = row * opts.rounds_count
                     /\ \A k \in 1 .. Len(saved) : saved[k].on_disk # FALSE
  PROVE  RoundsInv'
<1>1. opts.rounds_count \in Nat /\ Len(saved) \in Nat
  BY RoundsCount DEF RoundTypes
<1>2. \/ pc' = "parser" /\ row' = row + 1
      \/ pc' = "teardown" /\ row' = row
  BY DEF NextRow
<1>3. SavedInv' /\ Measured' = Measured
  BY DEF SavedInv, SavedOK, Measured
<1>4. RunsInv'
  BY <1>2 DEF RunsInv
<1>5. ASSUME Measured PROVE CountInv'
  <2>1. Len(saved) = row * opts.rounds_count /\ \A k \in 1 .. Len(saved) : saved[k].on_disk # FALSE
    BY <1>5
  <2>2. CASE pc' = "parser" /\ row' = row + 1
    <3>1. (row' - 1) * opts.rounds_count = row * opts.rounds_count
      BY <2>2
    <3> QED
      BY <2>1, <2>2, <3>1 DEF CountInv, RowsBefore, Pending, BeforePrepare
  <2>3. CASE pc' = "teardown" /\ row' = row
    <3>1. (row - 1) * opts.rounds_count + opts.rounds_count = row * opts.rounds_count
      BY <1>1
    <3> QED
      BY <2>1, <2>3, <3>1 DEF CountInv, RowsBefore, Pending, BeforePrepare
  <2> QED
    BY <1>2, <2>2, <2>3
<1> QED
  BY <1>3, <1>4, <1>5 DEF RoundsInv

\* The row done is the last of the rows counted.
LEMMA RowDone ==
  ASSUME opts \in Options, row \in Nat
  PROVE  RowsBefore + opts.rounds_count = row * opts.rounds_count
<1>1. opts.rounds_count \in Nat
  BY RoundsCount
<1> QED
  BY <1>1 DEF RowsBefore

\* The steps that go to the head of the loop.
LEMMA RoundsNextRow ==
  ASSUME RoundsInv, LifeInv, PlaceInv, RoundTypes',
         Setup \/ (Parser /\ opts.bench_parse) \/ Cleanup
  PROVE  RoundsInv'
<1>1. opts \in Options /\ row \in Nat /\ SavedInv /\ RoundTypes
  BY DEF LifeInv, Typed, RoundsInv
<1>2. NextRow /\ opts' = opts /\ saved' = saved
  BY DEF Setup, Parser, Cleanup, logVars
<1>3. ASSUME Measured
      PROVE  /\ Len(saved) = row * opts.rounds_count
             /\ \A k \in 1 .. Len(saved) : saved[k].on_disk # FALSE
  <2>1. CASE Setup
    <3>1. row = 0 /\ Len(saved) = 0 /\ opts.rounds_count \in Nat
      BY <1>1, <1>3, <2>1, RoundsCount DEF Setup, RoundsInv, CountInv, PlaceInv
    <3> QED
      BY <3>1
  <2>2. CASE Parser /\ opts.bench_parse
    BY <1>3, <2>2 DEF Measured
  <2>3. CASE Cleanup
    <3>1. pc = "cleanup"
      BY <1>3, <2>3 DEF Cleanup, Measured, RoundsInv, RunsInv
    <3>2. CountInv
      BY <1>3, <3>1 DEF RoundsInv
    <3> QED
      BY <1>1, <3>1, <3>2, RowDone DEF CountInv, Pending
  <2> QED
    BY <2>1, <2>2, <2>3
<1> QED
  BY <1>1, <1>2, <1>3, NextRowRounds

\* The steps that save nothing and stay in their round.
LEMMA RoundsSameRound ==
  ASSUME RoundsInv, PlaceInv, RoundTypes', opts' = opts, row' = row, saved' = saved,
         round' = round, is_hot' = is_hot, runs' = runs, refused' = refused,
         \/ pc = "parser" /\ ~opts.bench_parse /\ pc' \in BeforePrepare
         \/ pc \in BeforePrepare /\ pc' \in BeforePrepare
         \/ pc = "init_outputs" /\ pc' = "mem_peak_reset"
         \/ pc = "mem_peak_reset" /\ pc' = "run"
         \/ pc = "check" /\ pc' = "free_outputs"
         \/ pc = "teardown" /\ pc' = "returned"
         \/ pc' = "exit"
         \/ pc' = pc /\ outputs' = outputs
  PROVE  RoundsInv'
<1>1. SavedInv' /\ Measured' = Measured /\ RowsBefore' = RowsBefore
  BY DEF RoundsInv, SavedInv, SavedOK, Measured, RowsBefore
<1>2. ASSUME pc' # "exit" PROVE RunsInv'
  BY <1>2 DEF RoundsInv, RunsInv, BeforePrepare
<1>3. ASSUME Measured, pc' # "exit" PROVE CountInv'
  <2>1. pc # "exit" /\ pc # "check"
    BY <1>3 DEF PlaceInv, Measured, BeforePrepare
  <2>2. CountInv
    BY <1>3, <2>1 DEF RoundsInv
  <2>3. Pending' <=> Pending
    BY <1>3, <2>1 DEF Pending, BeforePrepare
  <2> QED
    BY <1>1, <1>3, <2>1, <2>2, <2>3 DEF CountInv, BeforePrepare
<1> QED
  BY <1>1, <1>2, <1>3 DEF RoundsInv

\* prepare begins with round 1, or with the warm-up that is not counted.
LEMMA RoundsPrepare ==
  ASSUME RoundsInv, opts \in Options, RoundTypes', Prepare
  PROVE  RoundsInv'
<1>1. /\ pc = "prepare" /\ pc' = "init_outputs" /\ opts' = opts /\ row' = row /\ saved' = saved
      /\ round' = 1 /\ is_hot' = opts.hot /\ runs' = 0
  BY DEF Prepare
<1>2. SavedInv' /\ Measured' = Measured /\ RowsBefore' = RowsBefore
  BY <1>1 DEF RoundsInv, SavedInv, SavedOK, Measured, RowsBefore
<1>3. RunsInv'
  BY <1>1 DEF RunsInv
<1>4. ASSUME Measured PROVE CountInv'
  <2>1. CountInv /\ Len(saved) = RowsBefore /\ Len(saved) \in Nat /\ opts.rounds_count \in Nat \ {0}
    BY <1>1, <1>4, RoundsCount DEF RoundsInv, CountInv, BeforePrepare, RoundTypes
  <2>2. ~Pending /\ ~Pending'
    BY <1>1 DEF Pending
  <2>3. Len(saved) = RowsBefore + (1 - 1) /\ 1 \in 1 .. opts.rounds_count
    BY <2>1
  <2> QED
    BY <1>1, <1>2, <2>1, <2>2, <2>3 DEF CountInv, BeforePrepare
<1> QED
  BY <1>1, <1>2, <1>3, <1>4 DEF RoundsInv

\* A run of the tested adapter, counted.
LEMMA RoundsRun ==
  ASSUME RoundsInv, LifeInv, PlaceInv, RoundTypes', Run
  PROVE  RoundsInv'
<1>1. /\ pc = "run" /\ opts' = opts /\ row' = row /\ saved' = saved /\ round' = round
      /\ is_hot' = is_hot /\ runs' = (IF runs < 2 THEN runs + 1 ELSE runs) /\ refused' = refused
      /\ pc' = (IF opts.is_test THEN "check" ELSE IF is_hot THEN "hot" ELSE "result")
  BY DEF Run, loopVars, droppedVars
<1>2. SavedInv' /\ Measured' = Measured /\ RowsBefore' = RowsBefore
  BY <1>1 DEF RoundsInv, SavedInv, SavedOK, Measured, RowsBefore
<1>3. ASSUME ~opts.is_test
      PROVE  \E o \in Outcome : outputs'[opts.algo] = <<o>> /\ o.row = IF refused THEN 0 ELSE row
  <2>1. PICK value \in Value \cup {NoValue} : RunOf(opts.algo, value)
    BY DEF Run
  <2>2. Typed /\ opts.algo \in Adapters /\ outputs \in [Adapters -> Seq(Outcome)]
    BY OptionTypes DEF LifeInv, Typed
  <2>3. outputs[opts.algo] = <<Fresh>>
    BY <1>1, <2>2 DEF LifeInv, Holds, FreshHeld
  <2>4. inputs[opts.algo] = IF refused THEN 0 ELSE row
    BY <1>1, <1>3 DEF PlaceInv, Rounds
  <2>5. PICK o \in Outcome :
          outputs' = [outputs EXCEPT ![opts.algo] = <<o>>] /\ o.row = inputs[opts.algo]
    BY <2>1, <2>2, <2>3, RunOutcome
  <2> QED
    BY <2>2, <2>4, <2>5
<1>4. RunsInv'
  <2>1. RunsInv /\ runs \in 0 .. 2
    BY <1>1 DEF RoundsInv, RoundTypes
  <2> QED
    BY <1>1, <1>3, <2>1 DEF RunsInv
<1>5. ASSUME Measured PROVE CountInv'
  <2>1. CountInv /\ ~opts.is_test
    BY <1>1, <1>5 DEF RoundsInv, Measured
  <2>2. pc' \in {"hot", "result"} /\ ~Pending /\ ~Pending'
    BY <1>1, <2>1 DEF Pending
  <2> QED
    BY <1>1, <1>2, <2>1, <2>2 DEF CountInv, BeforePrepare
<1> QED
  BY <1>1, <1>2, <1>4, <1>5 DEF RoundsInv

\* The warm-up takes its round back.
LEMMA RoundsHotRun ==
  ASSUME RoundsInv, opts \in Options, PlaceInv, RoundTypes', HotRun
  PROVE  RoundsInv'
<1>1. /\ pc = "hot" /\ pc' = "free_outputs" /\ opts' = opts /\ row' = row /\ saved' = saved
      /\ is_hot' = FALSE /\ round' = round - 1 /\ runs' = runs
  BY DEF HotRun, logVars
<1>2. SavedInv' /\ Measured' = Measured /\ RowsBefore' = RowsBefore
  BY <1>1 DEF RoundsInv, SavedInv, SavedOK, Measured, RowsBefore
<1>3. runs = 1 /\ round = 1 /\ ~opts.is_test
  BY <1>1 DEF RoundsInv, RunsInv, PlaceInv
<1>4. RunsInv'
  BY <1>1, <1>3 DEF RunsInv
<1>5. ASSUME Measured PROVE CountInv'
  <2>1. CountInv /\ Len(saved) = RowsBefore + (1 - 1) /\ Len(saved) \in Nat /\ opts.rounds_count \in Nat
    BY <1>1, <1>3, <1>5, RoundsCount DEF RoundsInv, CountInv, RoundTypes
  <2>2. round' = 0 /\ ~Pending /\ ~Pending'
    BY <1>1, <1>3 DEF Pending
  <2> QED
    BY <1>1, <1>2, <2>1, <2>2 DEF CountInv, BeforePrepare
<1> QED
  BY <1>1, <1>2, <1>4, <1>5 DEF RoundsInv

\* A round is measured: it is the next line of the results file.
LEMMA RoundsGetResult ==
  ASSUME RoundsInv, LifeInv, PlaceInv, RoundTypes', GetResult, refused \in BOOLEAN
  PROVE  RoundsInv'
<1>1. PICK o \in Outcome : outputs[opts.algo] = <<o>> /\ o.row = IF refused THEN 0 ELSE row
  BY DEF RoundsInv, RunsInv, GetResult
<1> DEFINE s == [row |-> row, round |-> round, run |-> runs, refused |-> refused, outcome |-> o,
                  on_disk |-> FALSE]
<1>2. /\ pc = "result" /\ pc' = "free_outputs" /\ opts' = opts /\ row' = row
      /\ is_hot' = is_hot /\ round' = round /\ runs' = runs /\ saved' = Append(saved, s)
  BY <1>1 DEF GetResult, loopVars, Last
<1>3. /\ Measured /\ ~opts.is_test /\ ~is_hot /\ (opts.hot => runs = 2)
      /\ opts.rounds_count \in Nat \ {0} /\ row \in Nat /\ row >= 1
  BY <1>2, RoundsCount DEF LifeInv, Typed, PlaceInv, Measured, RoundsInv, RunsInv
<1>4. CountInv /\ SavedInv /\ round \in 1 .. opts.rounds_count /\ Len(saved) = RowsBefore + (round - 1)
  BY <1>2, <1>3 DEF RoundsInv, CountInv
<1>5. saved \in Seq(SavedRecord) /\ round \in Nat /\ runs \in 0 .. 2
  BY DEF RoundsInv, RoundTypes
<1>6. s \in SavedRecord
  BY <1>3, <1>5 DEF SavedRecord
<1>7. /\ s.row = row /\ s.round = round /\ s.run = runs /\ s.refused = refused
      /\ s.outcome = o /\ s.on_disk = FALSE
  OBVIOUS
<1> HIDE DEF s
<1>8. /\ Len(saved) \in Nat /\ Len(saved') = Len(saved) + 1 /\ saved'[Len(saved) + 1] = s
      /\ \A k \in 1 .. Len(saved) : saved'[k] = saved[k]
  BY <1>2, <1>5, <1>6
<1>9. \A k \in 1 .. Len(saved') : k \in 1 .. Len(saved) \/ k = Len(saved) + 1
  BY <1>8
<1>10. SavedOK(s, Len(saved) + 1)
  <2>1. row - 1 \in Nat /\ round - 1 \in 0 .. opts.rounds_count - 1
    BY <1>3, <1>4
  <2>2. PICK a \in Nat, b \in 0 .. opts.rounds_count - 1 : a = row - 1 /\ b = round - 1
    BY <2>1
  <2>3. (a * opts.rounds_count + b) \div opts.rounds_count = a /\ (a * opts.rounds_count + b) % opts.rounds_count = b
    BY <1>3, RoundOfNumber
  <2>4. (Len(saved) + 1) - 1 = a * opts.rounds_count + b
    <3>1. Len(saved) = a * opts.rounds_count + b
      BY <1>4, <2>2 DEF RowsBefore
    <3> QED
      BY <1>8, <3>1
  <2>5. row = 1 + a /\ round = 1 + b
    BY <1>3, <1>5, <2>2
  <2> QED
    BY <1>1, <1>3, <1>7, <2>3, <2>4, <2>5 DEF SavedOK
<1>11. SavedInv'
  <2>1. \A k : \A t : SavedOK(t, k)' <=> SavedOK(t, k)
    BY <1>2 DEF SavedOK
  <2>2. Measured'
    BY <1>2, <1>3 DEF Measured
  <2>3. ASSUME NEW k \in 1 .. Len(saved') PROVE SavedOK(saved'[k], k)
    BY <1>4, <1>8, <1>9, <1>10 DEF SavedInv
  <2>4. ASSUME NEW k \in 1 .. Len(saved') PROVE SavedOK(saved[k], k)'
    BY <1>2, <2>3 DEF SavedOK
  <2> QED
    BY <2>2, <2>4 DEF SavedInv
<1>12. RunsInv'
  BY <1>2, <1>3 DEF RunsInv
<1>13. CountInv'
  <2>1. Pending' /\ ~Pending /\ RowsBefore' = RowsBefore
    BY <1>2, <1>4 DEF Pending, RowsBefore
  <2>2. Len(saved') = RowsBefore + round /\ round \in 0 .. opts.rounds_count
    <3>1. RowsBefore \in Nat
      <4>1. row - 1 \in Nat /\ opts.rounds_count \in Nat
        BY <1>3
      <4> QED
        BY <4>1 DEF RowsBefore
    <3> QED
      BY <1>4, <1>5, <1>8, <3>1
  <2>3. ASSUME NEW k \in 1 .. Len(saved') PROVE saved'[k].on_disk = FALSE <=> k = Len(saved')
    <3>1. CASE k = Len(saved) + 1
      BY <1>7, <1>8, <3>1
    <3>2. CASE k \in 1 .. Len(saved)
      BY <1>4, <1>8, <2>1, <3>2 DEF CountInv
    <3> QED
      BY <1>9, <3>1, <3>2
  <2> QED
    BY <1>2, <2>1, <2>2, <2>3 DEF CountInv, BeforePrepare
<1> QED
  BY <1>2, <1>11, <1>12, <1>13 DEF RoundsInv

\* The outputs are freed: the round goes to disk, or the warm-up is over.
LEMMA RoundsFreeOutputs ==
  ASSUME RoundsInv, LifeInv, PlaceInv, RoundTypes', FreeOutputs
  PROVE  RoundsInv'
<1>1. /\ pc = "free_outputs" /\ opts' = opts /\ row' = row /\ saved' = saved
      /\ is_hot' = is_hot /\ runs' = runs
      /\ \/ opts.is_test /\ pc' = "test_cleanup" /\ round' = round
         \/ ~opts.is_test /\ saved # <<>> /\ ~Last(saved).on_disk /\ pc' = "save_result" /\ round' = round
         \/ /\ ~opts.is_test /\ (saved = <<>> \/ Last(saved).on_disk)
            /\ pc' = "init_outputs" /\ round' = round + 1
  BY DEF FreeOutputs, logVars
<1>2. SavedInv' /\ Measured' = Measured /\ RowsBefore' = RowsBefore
  BY <1>1 DEF RoundsInv, SavedInv, SavedOK, Measured, RowsBefore
<1>3. RunsInv /\ opts.rounds_count \in Nat \ {0} /\ saved \in Seq(SavedRecord) /\ round \in Nat
  BY <1>1, RoundsCount DEF LifeInv, Typed, RoundsInv, RoundTypes
<1>4. CASE opts.is_test
  BY <1>1, <1>2, <1>3, <1>4 DEF RoundsInv, RunsInv, Measured
<1>5. CASE ~opts.is_test
  <2>1. /\ Measured /\ CountInv /\ round \in 0 .. opts.rounds_count /\ Len(saved) = RowsBefore + round
        /\ Len(saved) \in Nat
    BY <1>1, <1>3, <1>5 DEF PlaceInv, Measured, RoundsInv, CountInv
  <2>2. RowsBefore \in Nat
    <3>1. row - 1 \in Nat
      BY <1>1 DEF PlaceInv, LifeInv, Typed
    <3> QED
      BY <1>3, <3>1 DEF RowsBefore
  <2>3. saved # <<>> => Len(saved) \in 1 .. Len(saved) /\ Last(saved) = saved[Len(saved)]
    BY <1>3, <2>1 DEF Last
  <2>4. saved # <<>> => saved[Len(saved)].on_disk \in BOOLEAN
    <3>1. saved # <<>> => saved[Len(saved)] \in SavedRecord
      BY <1>3, <2>3
    <3> QED
      BY <3>1 DEF SavedRecord
  <2>5. CASE round = 0
    <3>1. ~Pending
      BY <1>1, <2>5 DEF Pending
    <3>2. saved # <<>> => saved[Len(saved)].on_disk = TRUE
      BY <2>1, <2>3, <2>4, <3>1 DEF CountInv
    <3>3. pc' = "init_outputs" /\ round' = 1
      BY <1>1, <1>5, <2>3, <2>5, <3>2
    <3>4. RunsInv'
      BY <1>1, <1>3, <1>5, <3>3 DEF RunsInv
    <3>5. ~Pending' /\ 1 \in 1 .. opts.rounds_count /\ Len(saved) = RowsBefore + (1 - 1)
      BY <1>3, <2>1, <2>2, <2>5, <3>3 DEF Pending
    <3>6. CountInv'
      BY <1>1, <1>2, <2>1, <3>1, <3>3, <3>5 DEF CountInv, BeforePrepare
    <3> QED
      BY <1>2, <3>4, <3>6 DEF RoundsInv
  <2>6. CASE round # 0
    <3>1. Pending /\ round \in 1 .. opts.rounds_count
      BY <1>1, <2>1, <2>6 DEF Pending
    <3>2. Len(saved) \in 1 .. Len(saved) /\ saved # <<>>
      BY <2>1, <2>2, <3>1
    <3>3. saved[Len(saved)].on_disk = FALSE
      BY <2>1, <3>1, <3>2 DEF CountInv
    <3>4. pc' = "save_result" /\ round' = round
      BY <1>1, <1>5, <2>3, <3>2, <3>3
    <3>5. RunsInv'
      BY <1>1, <1>3, <1>5, <3>4 DEF RunsInv
    <3>6. Pending'
      BY <3>4 DEF Pending
    <3>7. CountInv'
      BY <1>1, <1>2, <2>1, <3>1, <3>4, <3>6 DEF CountInv, BeforePrepare
    <3> QED
      BY <1>2, <3>5, <3>7 DEF RoundsInv
  <2> QED
    BY <2>5, <2>6
<1> QED
  BY <1>4, <1>5

\* save_result: the round is on disk, and the next one begins or none is left.
LEMMA RoundsSave ==
  ASSUME RoundsInv, LifeInv, PlaceInv, RoundTypes', save_result
  PROVE  RoundsInv'
<1>1. /\ pc = "save_result" /\ opts' = opts /\ row' = row /\ is_hot' = is_hot /\ runs' = runs
      /\ round' = round + 1 /\ saved' = [saved EXCEPT ![Len(saved)].on_disk = TRUE]
      /\ pc' = (IF round < opts.rounds_count THEN "init_outputs" ELSE "cleanup")
  BY DEF save_result
<1>2. /\ Measured /\ Measured' /\ RowsBefore' = RowsBefore
      /\ opts.rounds_count \in Nat \ {0} /\ ~opts.is_test
  BY <1>1, RoundsCount DEF LifeInv, Typed, PlaceInv, Measured, RowsBefore
<1>3. /\ CountInv /\ SavedInv /\ RunsInv /\ round \in 1 .. opts.rounds_count
      /\ Len(saved) = RowsBefore + round
      /\ saved \in Seq(SavedRecord) /\ Len(saved) \in Nat
  BY <1>1, <1>2 DEF RoundsInv, CountInv, RoundTypes
<1>4. RowsBefore \in Nat
  <2>1. row - 1 \in Nat
    BY <1>1 DEF PlaceInv, LifeInv, Typed
  <2> QED
    BY <1>2, <2>1 DEF RowsBefore
<1>5. PICK n \in Nat : n = Len(saved)
  BY <1>3
<1>6. saved[n] \in SavedRecord /\ n \in 1 .. Len(saved)
  BY <1>3, <1>4, <1>5
<1>7. /\ Len(saved') = Len(saved) /\ \A k \in 1 .. Len(saved) : k # n => saved'[k] = saved[k]
      /\ saved'[n] = [saved[n] EXCEPT !.on_disk = TRUE]
  BY <1>1, <1>3, <1>5, <1>6
<1>8. /\ saved'[n].on_disk = TRUE /\ saved'[n].row = saved[n].row /\ saved'[n].round = saved[n].round
      /\ saved'[n].run = saved[n].run /\ saved'[n].outcome = saved[n].outcome
      /\ saved'[n].refused = saved[n].refused
  BY <1>6, <1>7 DEF SavedRecord
<1>9. SavedInv'
  <2>1. ASSUME NEW k \in 1 .. Len(saved') PROVE SavedOK(saved[k], k)'
    <3>1. SavedOK(saved[k], k)
      BY <1>3, <1>7 DEF SavedInv
    <3>2. /\ saved'[k].row = saved[k].row /\ saved'[k].round = saved[k].round
          /\ saved'[k].run = saved[k].run /\ saved'[k].outcome = saved[k].outcome
          /\ saved'[k].refused = saved[k].refused
      BY <1>7, <1>8
    <3> QED
      BY <1>1, <3>1, <3>2 DEF SavedOK
  <2> QED
    BY <1>2, <2>1 DEF SavedInv
<1>10. RunsInv'
  BY <1>1, <1>2, <1>3 DEF RunsInv
<1>11. \A k \in 1 .. Len(saved') : saved'[k].on_disk # FALSE
  <2>1. Pending
    BY <1>1 DEF Pending
  <2>2. \A k \in 1 .. Len(saved) : k # n => saved[k].on_disk # FALSE
    BY <1>3, <1>5, <2>1 DEF CountInv
  <2> QED
    BY <1>7, <1>8, <2>2
<1>12. ~Pending'
  BY <1>1 DEF Pending
<1>13. CASE round < opts.rounds_count
  <2>1. pc' = "init_outputs" /\ round + 1 \in 1 .. opts.rounds_count /\ Len(saved') = RowsBefore + ((round + 1) - 1)
    BY <1>1, <1>2, <1>3, <1>4, <1>7, <1>13
  <2>2. CountInv'
    BY <1>1, <1>2, <1>11, <1>12, <2>1 DEF CountInv, BeforePrepare
  <2> QED
    BY <1>9, <1>10, <2>2 DEF RoundsInv
<1>14. CASE ~(round < opts.rounds_count)
  <2>1. pc' = "cleanup" /\ Len(saved') = RowsBefore + opts.rounds_count
    BY <1>1, <1>2, <1>3, <1>4, <1>7, <1>14
  <2>2. CountInv'
    BY <1>1, <1>2, <1>11, <1>12, <2>1 DEF CountInv, BeforePrepare
  <2> QED
    BY <1>9, <1>10, <2>2 DEF RoundsInv
<1> QED
  BY <1>13, <1>14

\* What save_result writes to: the round saved last, its flag still down.
LEMMA SaveTypes ==
  ASSUME RoundsInv, LifeInv, PlaceInv, save_result
  PROVE  saved' \in Seq(SavedRecord)
<1>1. /\ pc = "save_result" /\ saved' = [saved EXCEPT ![Len(saved)].on_disk = TRUE]
      /\ saved \in Seq(SavedRecord) /\ Len(saved) \in Nat
  BY DEF save_result, RoundsInv, RoundTypes
<1>2. Measured
  BY <1>1 DEF PlaceInv, Measured, BeforePrepare
<1>3. round \in 1 .. opts.rounds_count /\ Len(saved) = RowsBefore + round /\ opts.rounds_count \in Nat
  BY <1>1, <1>2, RoundsCount DEF LifeInv, Typed, RoundsInv, CountInv
<1>4. RowsBefore \in Nat
  <2>1. row - 1 \in Nat
    BY <1>1 DEF PlaceInv, LifeInv, Typed
  <2> QED
    BY <1>3, <2>1 DEF RowsBefore
<1>5. PICK n \in Nat : n = Len(saved)
  BY <1>1
<1>6. n \in 1 .. Len(saved) /\ saved[n] \in SavedRecord
  BY <1>1, <1>3, <1>4, <1>5
<1>7. [saved[n] EXCEPT !.on_disk = TRUE] \in SavedRecord
  BY <1>6 DEF SavedRecord
<1> DEFINE t == [saved[n] EXCEPT !.on_disk = TRUE]
<1>8. saved' = [saved EXCEPT ![n] = t]
  BY <1>1, <1>5
<1> HIDE DEF t
<1>9. t \in SavedRecord
  BY <1>7 DEF t
<1>10. saved \in [1 .. Len(saved) -> SavedRecord]
  BY <1>1
<1>11. saved' \in [1 .. Len(saved) -> SavedRecord]
  BY <1>8, <1>9, <1>10
<1> QED
  BY <1>1, <1>11

\* A line of the results file is a round and an outcome of this row.
LEMMA ResultTypes ==
  ASSUME RoundsInv, LifeInv, GetResult, refused \in BOOLEAN
  PROVE  saved' \in Seq(SavedRecord)
<1>1. PICK o \in Outcome : outputs[opts.algo] = <<o>>
  BY DEF RoundsInv, RunsInv, GetResult
<1> DEFINE s == [row |-> row, round |-> round, run |-> runs, refused |-> refused, outcome |-> o,
                  on_disk |-> FALSE]
<1>2. saved' = Append(saved, s)
  BY <1>1 DEF GetResult, Last
<1>3. row \in Nat /\ round \in Nat /\ runs \in Nat /\ saved \in Seq(SavedRecord)
  BY DEF LifeInv, Typed, RoundsInv, RoundTypes
<1>4. s \in SavedRecord
  BY <1>3 DEF SavedRecord
<1> HIDE DEF s
<1> QED
  BY <1>2, <1>3, <1>4

\* The types of the loop's own data.
LEMMA RoundTypesNext ==
  ASSUME RoundsInv, LifeInv, pc # "exit" => PlaceInv, refused \in BOOLEAN, [Next]_vars
  PROVE  RoundTypes'
<1>1. RoundTypes /\ row \in Nat
  BY DEF RoundsInv, LifeInv, Typed
<1>2. pc' \in Places
  <2>1. pc \in Places
    BY <1>1 DEF RoundTypes
  <2>2. NextRow => pc' \in Places
    BY DEF NextRow, Places, Calls
  <2>3. Setup \/ Parser \/ Cleanup => NextRow \/ pc' \in {"computed_cache_get", "prepare"}
    BY DEF Setup, Parser, Cleanup
  <2>4. computed_cache_get \/ compute_expected_result \/ Prepare => pc' \in BeforePrepare \cup {"init_outputs"}
    BY DEF computed_cache_get, compute_expected_result, RefCall, Prepare, BeforePrepare
  <2>5. InitOutputs \/ MemPeakReset \/ Run \/ TestCheck \/ HotRun \/ GetResult \/ FreeOutputs
          \/ save_result \/ Teardown \/ Fatal
          => pc' \in {"mem_peak_reset", "run", "check", "hot", "result", "free_outputs", "test_cleanup",
                      "save_result", "init_outputs", "cleanup", "returned", "exit"}
    BY DEF InitOutputs, MemPeakReset, Run, TestCheck, HotRun, GetResult, FreeOutputs, save_result,
           Teardown, Fatal, FailsAt
  <2>6. UNCHANGED vars => pc' = pc
    BY DEF vars
  <2> QED
    BY <2>1, <2>2, <2>3, <2>4, <2>5, <2>6 DEF Next, Step, Finished, Places, Calls, BeforePrepare
<1>3. CASE Setup \/ Parser \/ computed_cache_get \/ compute_expected_result \/ InitOutputs \/ MemPeakReset
           \/ TestCheck \/ Cleanup \/ Teardown \/ Fatal \/ UNCHANGED vars
  <2>1. /\ round' = round /\ is_hot' = is_hot /\ runs' = runs /\ retval' = retval /\ saved' = saved
    BY <1>3 DEF Setup, Parser, computed_cache_get, compute_expected_result, RefCall, InitOutputs,
                MemPeakReset, TestCheck, Cleanup, Teardown, Fatal, FailsAt, vars, loopVars, resultVars, logVars
  <2>2. library' \in {library, TRUE, FALSE} /\ parser_result' \in {parser_result, row}
    BY <1>3 DEF Setup, Parser, computed_cache_get, compute_expected_result, RefCall, InitOutputs,
                MemPeakReset, TestCheck, Cleanup, Teardown, Fatal, FailsAt, vars
  <2> QED
    BY <1>1, <1>2, <2>1, <2>2 DEF RoundTypes
<1>4. CASE Prepare
  <2>1. /\ round' = 1 /\ is_hot' = opts.hot /\ runs' = 0 /\ retval' = retval /\ saved' = saved
        /\ library' = library /\ parser_result' = 0
    BY <1>4 DEF Prepare, resultVars
  <2>2. opts.hot \in BOOLEAN
    BY RoundsCount DEF LifeInv, Typed
  <2> QED
    BY <1>1, <1>2, <2>1, <2>2 DEF RoundTypes
<1>5. CASE Run
  <2>1. /\ round' = round /\ is_hot' = is_hot /\ runs' = (IF runs < 2 THEN runs + 1 ELSE runs)
        /\ retval' \in {Success, Failure} /\ saved' = saved
        /\ library' = library /\ parser_result' = parser_result
    BY <1>5 DEF Run, loopVars
  <2>2. runs' \in 0 .. 2
    BY <1>1, <2>1 DEF RoundTypes
  <2> QED
    BY <1>1, <1>2, <2>1, <2>2 DEF RoundTypes
<1>6. CASE HotRun
  <2>1. /\ round' = round - 1 /\ is_hot' = FALSE /\ runs' = runs /\ retval' = retval /\ saved' = saved
        /\ library' = library /\ parser_result' = parser_result
    BY <1>6 DEF HotRun, resultVars, logVars
  <2>2. round = 1
    BY <1>6 DEF HotRun, RoundsInv, RunsInv
  <2>3. round' \in Nat
    BY <2>1, <2>2
  <2> QED
    BY <1>1, <1>2, <2>1, <2>3 DEF RoundTypes
<1>7. CASE GetResult
  <2>1. /\ round' = round /\ is_hot' = is_hot /\ runs' = runs /\ retval' = retval
        /\ library' = library /\ parser_result' = parser_result
    BY <1>7 DEF GetResult, loopVars, resultVars
  <2>2. saved' \in Seq(SavedRecord)
    BY <1>7, ResultTypes
  <2> QED
    BY <1>1, <1>2, <2>1, <2>2 DEF RoundTypes
<1>8. CASE FreeOutputs
  <2>1. /\ round' = round \/ round' = round + 1
        /\ is_hot' = is_hot /\ runs' = runs /\ retval' = retval /\ saved' = saved
        /\ library' = library /\ parser_result' = parser_result
    BY <1>8 DEF FreeOutputs, resultVars, logVars
  <2> QED
    BY <1>1, <1>2, <2>1 DEF RoundTypes
<1>9. CASE save_result
  <2>1. /\ round' = round + 1 /\ is_hot' = is_hot /\ runs' = runs /\ retval' = retval
        /\ library' = library /\ parser_result' = parser_result /\ pc # "exit"
    BY <1>9 DEF save_result, resultVars
  <2>2. saved' \in Seq(SavedRecord)
    BY <1>9, <2>1, SaveTypes
  <2> QED
    BY <1>1, <1>2, <2>1, <2>2 DEF RoundTypes
<1> QED
  BY <1>3, <1>4, <1>5, <1>6, <1>7, <1>8, <1>9 DEF Next, Step, Finished

\* Every call of main() keeps the results file in step with the loop.
LEMMA RoundsNext ==
  ASSUME RoundsInv, LifeInv, pc # "exit" => PlaceInv, refused \in BOOLEAN, [Next]_vars
  PROVE  RoundsInv'
<1>1. RoundTypes'
  BY RoundTypesNext
<1>2. CASE UNCHANGED vars
  <2>1. /\ opts' = opts /\ pc' = pc /\ row' = row /\ round' = round /\ is_hot' = is_hot /\ runs' = runs
        /\ refused' = refused
        /\ outputs' = outputs /\ saved' = saved
    BY <1>2 DEF vars, loopVars, logVars, adapterVars, droppedVars
  <2> QED
    BY <1>1, <2>1 DEF RoundsInv, SavedInv, SavedOK, Measured, RunsInv, CountInv, RowsBefore, Pending
<1>3. CASE Step
  <2>1. pc # "exit"
    BY <1>3 DEF Step, Setup, Parser, computed_cache_get, compute_expected_result, RefCall, Prepare,
                InitOutputs, MemPeakReset, Run, TestCheck, HotRun, GetResult, FreeOutputs, save_result,
                Cleanup, Teardown, Fatal, FailsAt, Calls
  <2>2. PlaceInv /\ opts \in Options
    BY <2>1 DEF LifeInv, Typed
  <2>3. CASE Setup \/ (Parser /\ opts.bench_parse) \/ Cleanup
    BY <1>1, <2>2, <2>3, RoundsNextRow
  <2>4. CASE Parser /\ ~opts.bench_parse
    <3>1. /\ opts' = opts /\ row' = row /\ saved' = saved /\ round' = round /\ is_hot' = is_hot /\ runs' = runs
        /\ refused' = refused
          /\ pc = "parser" /\ pc' \in BeforePrepare
      BY <2>4 DEF Parser, logVars, droppedVars, BeforePrepare
    <3> QED
      BY <1>1, <2>2, <2>4, <3>1, RoundsSameRound
  <2>5. CASE computed_cache_get \/ compute_expected_result
    <3>1. /\ opts' = opts /\ row' = row /\ saved' = saved /\ round' = round /\ is_hot' = is_hot /\ runs' = runs
        /\ refused' = refused
          /\ pc \in BeforePrepare /\ pc' \in BeforePrepare
      BY <2>5 DEF computed_cache_get, compute_expected_result, RefCall, loopVars, logVars, droppedVars,
                BeforePrepare
    <3> QED
      BY <1>1, <2>2, <3>1, RoundsSameRound
  <2>6. CASE InitOutputs \/ MemPeakReset \/ TestCheck \/ Teardown \/ Fatal
    <3>1. /\ opts' = opts /\ row' = row /\ saved' = saved /\ round' = round /\ is_hot' = is_hot /\ runs' = runs
        /\ refused' = refused
          /\ \/ pc = "init_outputs" /\ pc' = "mem_peak_reset"
             \/ pc = "mem_peak_reset" /\ pc' = "run"
             \/ pc = "check" /\ pc' = "free_outputs"
             \/ pc = "teardown" /\ pc' = "returned"
             \/ pc' = "exit"
      BY <2>6 DEF InitOutputs, MemPeakReset, TestCheck, Teardown, Fatal, FailsAt, loopVars, logVars, droppedVars
    <3> QED
      BY <1>1, <2>2, <3>1, RoundsSameRound
  <2>7. CASE Prepare
    BY <1>1, <2>2, <2>7, RoundsPrepare
  <2>8. CASE Run
    BY <1>1, <2>2, <2>8, RoundsRun
  <2>9. CASE HotRun
    BY <1>1, <2>2, <2>9, RoundsHotRun
  <2>10. CASE GetResult
    BY <1>1, <2>2, <2>10, RoundsGetResult
  <2>11. CASE FreeOutputs
    BY <1>1, <2>2, <2>11, RoundsFreeOutputs
  <2>12. CASE save_result
    BY <1>1, <2>2, <2>12, RoundsSave
  <2> QED
    BY <1>3, <2>3, <2>4, <2>5, <2>6, <2>7, <2>8, <2>9, <2>10, <2>11, <2>12 DEF Step
<1> QED
  BY <1>2, <1>3 DEF Next, Finished

(***************************************************************************)
(* The driver's state keeps its types for any adapters, options, rows and  *)
(* rounds: no round number goes below zero, and what is read from outputs  *)
(* and from the results file is there to be read.                          *)
(***************************************************************************)
THEOREM DriverTyped == Spec => []TypeOK
<1>1. ASSUME LifeInv, VerdictInv, RoundsInv PROVE TypeOK
  <2>1. opts \in CommandLine /\ row \in Nat
    BY <1>1, RoundsCount DEF LifeInv, Typed
  <2>2. InputTypes /\ outputs \in [Adapters -> Seq(Outcome)]
    BY <1>1 DEF LifeInv, Typed
  <2>3. /\ has_test_failure \in BOOLEAN /\ expected_result \in Value \cup {NoValue}
        /\ verdicts \in Seq(VerdictRecord) /\ refused \in BOOLEAN /\ uncleaned \subseteq Nat
    BY <1>1 DEF VerdictInv, Placed, LogInv
  <2>4. RoundTypes
    BY <1>1 DEF RoundsInv
  <2> QED
    BY <2>1, <2>2, <2>3, <2>4 DEF TypeOK, InputTypes, RoundTypes, Places, SavedRecord, VerdictRecord
<1>2. Init => VerdictInv /\ RoundsInv
  BY VerdictInit, RoundsInit
<1>3. LifeInv /\ LifeInv' /\ VerdictInv /\ [Next]_vars => VerdictInv'
  BY VerdictNext
<1>4. LifeInv /\ VerdictInv /\ RoundsInv /\ [Next]_vars => RoundsInv'
  BY RoundsNext DEF VerdictInv, Placed, LogInv
<1> QED
  BY <1>1, <1>2, <1>3, <1>4, DriverInvariant, PTL DEF Spec

(***************************************************************************)
(* The results file has each round of each measured row once and in order, *)
(* a run on that row's data or, if it was refused, on none, with --hot     *)
(* never the row's first run, and nothing of test mode: for any number of  *)
(* rows and of rounds and whatever fails.                                  *)
(***************************************************************************)
THEOREM DriverSavesRoundsOnce == Spec => []RoundsSavedOnce
<1>1. ASSUME LifeInv, VerdictInv, RoundsInv PROVE RoundsSavedOnce
  <2>1. /\ DOMAIN saved = 1 .. Len(saved) /\ SavedInv
        /\ (pc # "exit" => RunsInv /\ PlaceInv /\ (Measured => CountInv))
        /\ opts \in Options /\ row \in Nat
    BY <1>1 DEF RoundsInv, RoundTypes, VerdictInv, Placed, LifeInv, Typed
  <2>2. ASSUME NEW k \in DOMAIN saved PROVE SavedOK(saved[k], k) /\ Measured
    <3>1. saved # <<>>
      BY <2>1, <2>2
    <3> QED
      BY <2>1, <2>2, <3>1 DEF SavedInv
  <2>3. pc = "test_cleanup" => runs = 1
    BY <2>1 DEF RunsInv
  <2>4. ASSUME BetweenRows, Measured PROVE Len(saved) = RowsDone * opts.rounds_count
    <3>1. CountInv
      BY <2>1, <2>4 DEF BetweenRows
    <3>2. CASE pc = "parser"
      BY <3>1, <3>2 DEF CountInv, RowsBefore, RowsDone
    <3>3. CASE pc # "parser"
      BY <2>1, <2>4, <3>1, <3>3, RowDone DEF CountInv, BetweenRows, RowsDone
    <3> QED
      BY <3>2, <3>3
  <2>5. ~Measured => saved = <<>>
    BY <2>1 DEF SavedInv
  <2> QED
    BY <2>2, <2>3, <2>4, <2>5 DEF RoundsSavedOnce, SavedOK, Measured
<1>2. Init => VerdictInv /\ RoundsInv
  BY VerdictInit, RoundsInit
<1>3. LifeInv /\ LifeInv' /\ VerdictInv /\ [Next]_vars => VerdictInv'
  BY VerdictNext
<1>4. LifeInv /\ VerdictInv /\ RoundsInv /\ [Next]_vars => RoundsInv'
  BY RoundsNext DEF VerdictInv, Placed, LogInv
<1> QED
  BY <1>1, <1>2, <1>3, <1>4, DriverInvariant, PTL DEF Spec
=============================================================================
