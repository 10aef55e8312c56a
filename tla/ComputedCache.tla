--------------------------- MODULE ComputedCache ----------------------------
(***************************************************************************)
(* .cache/computed_results.csv (src/computed_cache.c) as test.c uses it    *)
(* with --compute-results: a run parses the files, asks the cache for the  *)
(* expected value, computes and appends it on a miss, and compares.  The   *)
(* key of a line holds the modification times of the files, in seconds,    *)
(* taken anew by every call.  Runs may overlap; the user edits files at    *)
(* any time.                                                               *)
(*                                                                         *)
(* The value computed from some data is modelled by the data itself, the   *)
(* versions of the files that were read.                                   *)
(***************************************************************************)
EXTENDS Integers, Sequences

CONSTANTS
  Files,       \* the files of a config row, in the order parser() reads them
  Runs,        \* the runs of the program that may overlap
  SameSecond,  \* whether a file may be edited twice within a second
  MaxVersion,  \* bound: the versions of a file
  MaxLines     \* bound: lines of the cache

ASSUME CacheAssumption ==
  /\ Len(Files) \in Nat \ {0} /\ DOMAIN Files = 1 .. Len(Files)
  /\ \A m, n \in DOMAIN Files : Files[m] = Files[n] => m = n
  /\ SameSecond \in BOOLEAN
  /\ MaxVersion \in Nat /\ MaxLines \in Nat

VARIABLES
  clock,     \* seconds
  version,   \* file -> the version of its contents
  mtime,     \* file -> st_mtime
  cache,     \* the lines of the cache: key and value
  pc,        \* run -> its next call
  data,      \* run -> the versions parser() has read so far
  expected,  \* run -> expected_result, as the data it was computed from
  quiet      \* history: no edit has come during a run or in the second of the last one

fileVars == <<clock, version, mtime, quiet>>
vars == <<fileVars, cache, pc, data, expected>>

FileSet == {Files[n] : n \in DOMAIN Files}

Init ==
  /\ clock = 1
  /\ version = [f \in FileSet |-> 1] /\ mtime = [f \in FileSet |-> 1]
  /\ cache = <<>>
  /\ pc = [r \in Runs |-> "parser"]
  /\ data = [r \in Runs |-> <<>>] /\ expected = [r \in Runs |-> <<>>]
  /\ quiet = TRUE

\* The user saves a new version of a file.
Edit(f) ==
  /\ version[f] < MaxVersion
  /\ \E time \in (IF SameSecond THEN {clock, clock + 1} ELSE {clock + 1}) :
       /\ clock' = time
       /\ mtime' = [mtime EXCEPT ![f] = time]
       /\ quiet' = /\ quiet /\ time # mtime[f]
                   /\ \A r \in Runs : pc[r] = "parser" /\ data[r] = <<>>
  /\ version' = [version EXCEPT ![f] = @ + 1]
  /\ UNCHANGED <<cache, pc, data, expected>>

Go(r, next) == pc' = [pc EXCEPT ![r] = next]

\* parser() reads one file after the other.
Parser(r) ==
  /\ pc[r] = "parser"
  /\ data' = [data EXCEPT ![r] = Append(@, version[Files[Len(@) + 1]])]
  /\ IF Len(data[r]) + 1 = Len(Files) THEN Go(r, "get") ELSE UNCHANGED pc
  /\ UNCHANGED <<fileVars, cache, expected>>

\* Mutant: only the first file's time is in the key.
make_key_FirstFile == <<mtime[Files[1]]>>
make_key == [n \in DOMAIN Files |-> mtime[Files[n]]]

LinesOf(key) == {n \in DOMAIN cache : cache[n].key = key}

\* The last line with the key wins.
computed_cache_get(r) ==
  /\ pc[r] = "get"
  /\ \/ \E n \in LinesOf(make_key) :
          /\ \A m \in LinesOf(make_key) : m <= n
          /\ expected' = [expected EXCEPT ![r] = cache[n].value]
          /\ Go(r, "check")
     \/ LinesOf(make_key) = {} /\ Go(r, "compute") /\ UNCHANGED expected
  /\ UNCHANGED <<fileVars, cache, data>>

\* CFL_adv on what the parser has read.
compute_expected_result(r) ==
  /\ pc[r] = "compute"
  /\ expected' = [expected EXCEPT ![r] = data[r]]
  /\ Go(r, "put")
  /\ UNCHANGED <<fileVars, cache, data>>

\* Mutant: the line is written with times taken as zero, those of a missing file.
computed_cache_put_NoTimes(r) ==
  /\ pc[r] = "put" /\ Len(cache) < MaxLines
  /\ cache' = Append(cache, [key |-> [n \in DOMAIN Files |-> 0], value |-> expected[r]])
  /\ Go(r, "check")
  /\ UNCHANGED <<fileVars, data, expected>>

computed_cache_put(r) ==
  /\ pc[r] = "put" /\ Len(cache) < MaxLines
  /\ cache' = Append(cache, [key |-> make_key, value |-> expected[r]])
  /\ Go(r, "check")
  /\ UNCHANGED <<fileVars, data, expected>>

\* The adapter's result, computed from data, is compared; the next run starts.
Check(r) ==
  /\ pc[r] = "check"
  /\ Go(r, "parser")
  /\ data' = [data EXCEPT ![r] = <<>>] /\ expected' = [expected EXCEPT ![r] = <<>>]
  /\ UNCHANGED <<fileVars, cache>>

Next ==
  \/ \E f \in FileSet : Edit(f)
  \/ \E r \in Runs :
       \/ Parser(r) \/ computed_cache_get(r) \/ compute_expected_result(r)
       \/ computed_cache_put(r) \/ Check(r)

Spec == Init /\ [][Next]_vars

-----------------------------------------------------------------------------
(* Properties *)

\* README.md:325 "A value is recomputed after the graph, grammar or start
\* vertices file changes": what a run compares its result with was computed
\* from the data the run itself has read.
ValueFresh == \A r \in Runs : pc[r] = "check" => expected[r] = data[r]

(***************************************************************************)
(* The same when no file is edited during a run, nor twice in a second:    *)
(* the times in the key then tell any two states of the files apart, also  *)
(* when several runs compute and append at once.                           *)
(***************************************************************************)
ValueFreshIfQuiet == quiet => ValueFresh

(***************************************************************************)
(* What has been computed from some data is never computed again from the  *)
(* same data ("the next runs print `Cached'"), except by a run that was    *)
(* already past its look in the cache.                                     *)
(***************************************************************************)
ComputedOnce ==
  [][\A r \in Runs :
       (quiet /\ pc[r] = "get" /\ pc'[r] = "compute") =>
         \A n \in DOMAIN cache : cache[n].value # data[r]]_vars
=============================================================================
