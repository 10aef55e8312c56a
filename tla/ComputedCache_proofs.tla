------------------------ MODULE ComputedCache_proofs ------------------------
(***************************************************************************)
(* For any number of files, of runs that overlap and of edits: as long as  *)
(* no edit comes during a run or in the second of the last one, what the   *)
(* cache returns was computed from the data the run has read, and nothing  *)
(* that a run could find in the cache is computed again.                   *)
(***************************************************************************)
EXTENDS ComputedCache, TLAPS

FilesInv ==
  /\ clock \in Nat
  /\ version \in [FileSet -> Nat] /\ mtime \in [FileSet -> Nat]
  /\ \A f \in FileSet : mtime[f] <= clock

Positions == 1 .. Len(Files)
Line == [key : [Positions -> Nat], value : [Positions -> Nat]]

\* A line is in step with the files: a file has the line's time if and only
\* if it has the line's version, and neither is ahead of the file.
InStep(line) ==
  \A n \in Positions :
    /\ line.key[n] <= mtime[Files[n]] /\ line.value[n] <= version[Files[n]]
    /\ line.key[n] = mtime[Files[n]] <=> line.value[n] = version[Files[n]]

LinesInv == \A n \in DOMAIN cache : InStep(cache[n])

\* What the run has read is what the files hold.
ReadsPresent(r) == \A n \in DOMAIN data[r] : data[r][n] = version[Files[n]]

RunPcs == {"parser", "get", "compute", "put", "check"}

\* A run leaves the parser with every file read.
ReadSoFar(r) ==
  /\ pc[r] = "parser" => Len(data[r]) < Len(Files)
  /\ pc[r] # "parser" => Len(data[r]) = Len(Files)

Types ==
  /\ cache \in Seq(Line) /\ pc \in [Runs -> RunPcs] /\ data \in [Runs -> Seq(Nat)]
  /\ DOMAIN expected = Runs
  /\ \A r \in Runs : pc[r] = "put" => expected[r] \in Seq(Nat) /\ Len(expected[r]) = Len(Files)
  /\ \A r \in Runs : ReadSoFar(r)

\* What a run compares or writes, it has computed from what it has read.
ExpectedOfData(r) == pc[r] \in {"put", "check"} => expected[r] = data[r]

QuietInv == LinesInv /\ \A r \in Runs : ReadsPresent(r) /\ ExpectedOfData(r)

IInv == FilesInv /\ Types /\ (quiet => QuietInv)

-----------------------------------------------------------------------------
(* Lemmas *)

LEMMA FilesNamed ==
  /\ Positions = DOMAIN Files /\ Len(Files) \in Nat /\ Len(Files) >= 1
  /\ \A n \in Positions : Files[n] \in FileSet
  BY CacheAssumption DEF Positions, FileSet

\* A sequence as long as the files has one entry per file.
LEMMA OnePerFile ==
  ASSUME NEW s \in Seq(Nat), Len(s) = Len(Files)
  PROVE  s \in [Positions -> Nat]
  BY FilesNamed DEF Positions

LEMMA AppendEntries ==
  ASSUME NEW T, NEW s \in Seq(T), NEW x \in T
  PROVE  /\ Append(s, x) \in Seq(T) /\ Len(Append(s, x)) = Len(s) + 1
         /\ \A n \in DOMAIN Append(s, x) : n \in DOMAIN s \/ n = Len(s) + 1
         /\ \A n \in DOMAIN s : Append(s, x)[n] = s[n]
         /\ Append(s, x)[Len(s) + 1] = x
  OBVIOUS

LEMMA KeyType ==
  ASSUME FilesInv
  PROVE  /\ make_key \in [Positions -> Nat]
         /\ \A n \in Positions : make_key[n] = mtime[Files[n]]
  BY FilesNamed DEF FilesInv, make_key

-----------------------------------------------------------------------------
(* The invariant *)

LEMMA InitInv == Init => IInv
<1> SUFFICES ASSUME Init PROVE IInv
  OBVIOUS
<1>1. FilesInv
  BY DEF Init, FilesInv
<1>2. Types
  BY FilesNamed DEF Init, Types, RunPcs, ReadSoFar
<1>3. QuietInv
  BY DEF Init, QuietInv, LinesInv, ReadsPresent, ExpectedOfData
<1> QED
  BY <1>1, <1>2, <1>3 DEF IInv

LEMMA EditStep == ASSUME IInv, NEW f \in FileSet, Edit(f) PROVE IInv'
<1>1. UNCHANGED <<cache, pc, data, expected>>
  BY DEF Edit
<1>2. PICK time \in {clock, clock + 1} :
        /\ clock' = time
        /\ mtime' = [mtime EXCEPT ![f] = time]
        /\ quiet' = /\ quiet /\ time # mtime[f]
                    /\ \A r \in Runs : pc[r] = "parser" /\ data[r] = <<>>
  BY DEF Edit
<1>3. version' = [version EXCEPT ![f] = @ + 1]
  BY DEF Edit
<1>4. FilesInv'
  <2>1. clock \in Nat /\ time \in Nat /\ clock <= time
    BY DEF IInv, FilesInv
  <2>2. version' \in [FileSet -> Nat] /\ mtime' \in [FileSet -> Nat]
    BY <1>2, <1>3, <2>1 DEF IInv, FilesInv
  <2>3. \A g \in FileSet : mtime'[g] <= clock'
    BY <1>2, <2>1 DEF IInv, FilesInv
  <2> QED
    BY <1>2, <2>1, <2>2, <2>3 DEF FilesInv
<1>5. Types'
  BY <1>1 DEF IInv, Types, ReadSoFar
<1>6. ASSUME quiet' PROVE QuietInv'
  <2>1. quiet /\ time # mtime[f] /\ \A r \in Runs : pc[r] = "parser" /\ data[r] = <<>>
    BY <1>2, <1>6
  <2>2. time > mtime[f]
    BY <2>1 DEF IInv, FilesInv
  <2>3. ASSUME NEW n \in DOMAIN cache PROVE InStep(cache[n])'
    <3>1. InStep(cache[n]) /\ cache[n] \in Line
      BY <2>1 DEF IInv, QuietInv, LinesInv, Types
    <3>2. ASSUME NEW k \in Positions
          PROVE  /\ cache[n].key[k] <= mtime'[Files[k]]
                 /\ cache[n].value[k] <= version'[Files[k]]
                 /\ cache[n].key[k] = mtime'[Files[k]] <=> cache[n].value[k] = version'[Files[k]]
      <4>1. /\ Files[k] \in FileSet /\ cache[n].key[k] \in Nat /\ cache[n].value[k] \in Nat
            /\ mtime[Files[k]] \in Nat /\ version[Files[k]] \in Nat
            /\ cache[n].key[k] <= mtime[Files[k]] /\ cache[n].value[k] <= version[Files[k]]
            /\ cache[n].key[k] = mtime[Files[k]] <=> cache[n].value[k] = version[Files[k]]
        BY <3>1, FilesNamed DEF InStep, Line, IInv, FilesInv
      <4>2. CASE Files[k] = f
        <5>1. mtime'[f] = time /\ version'[f] = version[f] + 1 /\ time \in Nat
          BY <1>2, <1>3 DEF IInv, FilesInv
        <5> QED
          BY <4>1, <4>2, <5>1, <2>2
      <4>3. CASE Files[k] # f
        BY <4>1, <4>3, <1>2, <1>3 DEF IInv, FilesInv
      <4> QED
        BY <4>2, <4>3
    <3> QED
      BY <3>2, <1>1 DEF InStep
  <2>4. ASSUME NEW r \in Runs PROVE ReadsPresent(r)' /\ ExpectedOfData(r)'
    <3>1. data'[r] = <<>> /\ pc'[r] = "parser"
      BY <2>1, <1>1
    <3> QED
      BY <3>1 DEF ReadsPresent, ExpectedOfData
  <2> QED
    BY <2>3, <2>4, <1>1 DEF QuietInv, LinesInv
<1> QED
  BY <1>4, <1>5, <1>6 DEF IInv

\* The steps of a run leave the files as they are.
LEMMA FilesKept == ASSUME IInv, UNCHANGED fileVars PROVE FilesInv' /\ quiet' = quiet
  BY DEF IInv, FilesInv, fileVars

\* A line stays in step as long as the files stay.
LEMMA LinesKept ==
  ASSUME IInv, quiet, UNCHANGED <<fileVars, cache>> PROVE LinesInv'
  BY DEF IInv, QuietInv, LinesInv, InStep, fileVars

LEMMA ParserStep == ASSUME IInv, NEW r \in Runs, Parser(r) PROVE IInv'
<1>1. /\ pc[r] = "parser" /\ UNCHANGED <<fileVars, cache, expected>>
      /\ data[r] \in Seq(Nat) /\ Len(data[r]) < Len(Files) /\ Len(data[r]) \in Nat
  BY DEF IInv, Types, ReadSoFar, Parser
<1>2. FilesInv' /\ quiet' = quiet
  BY <1>1, FilesKept
<1> DEFINE next == version[Files[Len(data[r]) + 1]]
<1>3. Len(data[r]) + 1 \in Positions /\ next \in Nat
  BY <1>1, FilesNamed DEF Positions, IInv, FilesInv
<1>4. data' = [data EXCEPT ![r] = Append(data[r], next)]
  BY DEF Parser
<1>5. /\ data'[r] = Append(data[r], next) /\ data' \in [Runs -> Seq(Nat)]
      /\ \A q \in Runs : q # r => data'[q] = data[q]
  BY <1>1, <1>3, <1>4 DEF IInv, Types
<1>6. /\ Len(data[r]) + 1 = Len(Files) => pc' = [pc EXCEPT ![r] = "get"]
      /\ Len(data[r]) + 1 # Len(Files) => pc' = pc
  BY DEF Parser, Go
<1>7. /\ \A q \in Runs : q # r => pc'[q] = pc[q]
      /\ Len(data[r]) + 1 = Len(Files) => pc'[r] = "get"
      /\ Len(data[r]) + 1 # Len(Files) => pc'[r] = "parser"
      /\ pc' \in [Runs -> RunPcs]
  BY <1>1, <1>6 DEF IInv, Types, RunPcs
<1>8. Types'
  <2>1. ReadSoFar(r)'
    <3>1. Len(data'[r]) = Len(data[r]) + 1
      BY <1>1, <1>3, <1>5
    <3> QED
      BY <3>1, <1>1, <1>7, FilesNamed DEF ReadSoFar
  <2>2. \A q \in Runs : q # r => ReadSoFar(q)'
    BY <1>5, <1>7 DEF IInv, Types, ReadSoFar
  <2>3. \A q \in Runs : pc'[q] = "put" => expected'[q] \in Seq(Nat) /\ Len(expected'[q]) = Len(Files)
    BY <1>1, <1>7 DEF IInv, Types
  <2> QED
    BY <2>1, <2>2, <2>3, <1>1, <1>5, <1>7 DEF IInv, Types
<1>9. ASSUME quiet PROVE QuietInv'
  <2>1. LinesInv'
    BY <1>9, <1>1, LinesKept
  <2>2. ReadsPresent(r)'
    <3>1. \A n \in DOMAIN data'[r] : n \in DOMAIN data[r] \/ n = Len(data[r]) + 1
      BY <1>1, <1>3, <1>5, AppendEntries
    <3>2. \A n \in DOMAIN data[r] : data'[r][n] = data[r][n]
      BY <1>1, <1>3, <1>5, AppendEntries
    <3>3. data'[r][Len(data[r]) + 1] = next
      BY <1>1, <1>3, <1>5, AppendEntries
    <3>4. version' = version
      BY <1>1 DEF fileVars
    <3>5. \A n \in DOMAIN data[r] : data[r][n] = version[Files[n]]
      BY <1>9 DEF IInv, QuietInv, ReadsPresent
    <3> QED
      BY <3>1, <3>2, <3>3, <3>4, <3>5 DEF ReadsPresent
  <2>3. \A q \in Runs : q # r => ReadsPresent(q)'
    BY <1>1, <1>5, <1>9 DEF IInv, QuietInv, ReadsPresent, fileVars
  <2>4. \A q \in Runs : ExpectedOfData(q)'
    BY <1>1, <1>5, <1>7, <1>9 DEF IInv, QuietInv, ExpectedOfData
  <2> QED
    BY <2>1, <2>2, <2>3, <2>4 DEF QuietInv
<1> QED
  BY <1>2, <1>8, <1>9 DEF IInv

\* The steps after the parser change the run's place and its expected value, and no data.
LEMMA AfterParser ==
  ASSUME IInv, NEW r \in Runs, pc[r] # "parser", NEW next \in RunPcs \ {"parser"},
         Go(r, next), UNCHANGED <<fileVars, data>>,
         \A q \in Runs : q # r => expected'[q] = expected[q],
         DOMAIN expected' = Runs,
         next = "put" => expected'[r] \in Seq(Nat) /\ Len(expected'[r]) = Len(Files),
         cache' \in Seq(Line)
  PROVE  /\ FilesInv' /\ Types' /\ quiet' = quiet
         /\ quiet => \A q \in Runs : ReadsPresent(q)'
         /\ quiet => \A q \in Runs : q # r => ExpectedOfData(q)'
         /\ pc'[r] = next
<1>1. /\ pc' = [pc EXCEPT ![r] = next] /\ pc'[r] = next
      /\ pc' \in [Runs -> RunPcs] /\ \A q \in Runs : q # r => pc'[q] = pc[q]
  BY DEF Go, IInv, Types
<1>2. FilesInv' /\ quiet' = quiet
  BY FilesKept DEF fileVars
<1>3. Types'
  <2>1. \A q \in Runs : ReadSoFar(q)'
    BY <1>1 DEF IInv, Types, ReadSoFar
  <2>2. \A q \in Runs : pc'[q] = "put" => expected'[q] \in Seq(Nat) /\ Len(expected'[q]) = Len(Files)
    BY <1>1 DEF IInv, Types
  <2> QED
    BY <1>1, <2>1, <2>2 DEF IInv, Types
<1>4. quiet => \A q \in Runs : ReadsPresent(q)'
  BY DEF IInv, QuietInv, ReadsPresent, fileVars
<1>5. quiet => \A q \in Runs : q # r => ExpectedOfData(q)'
  BY <1>1 DEF IInv, QuietInv, ExpectedOfData
<1> QED
  BY <1>1, <1>2, <1>3, <1>4, <1>5

\* Lines with the present times have the present versions, and the other way round.
LEMMA PresentLine ==
  ASSUME IInv, quiet, NEW r \in Runs, pc[r] # "parser", NEW n \in DOMAIN cache
  PROVE  cache[n].key = make_key <=> cache[n].value = data[r]
<1>1. /\ cache[n].key \in [Positions -> Nat] /\ cache[n].value \in [Positions -> Nat]
      /\ InStep(cache[n])
  <2>1. cache[n] \in Line
    BY DEF IInv, Types
  <2>2. InStep(cache[n])
    BY DEF IInv, QuietInv, LinesInv
  <2> QED
    BY <2>1, <2>2 DEF Line
<1>2. make_key \in [Positions -> Nat] /\ \A k \in Positions : make_key[k] = mtime[Files[k]]
  BY KeyType DEF IInv
<1>3. data[r] \in [Positions -> Nat]
  BY OnePerFile DEF IInv, Types, ReadSoFar
<1>4. \A k \in Positions : data[r][k] = version[Files[k]]
  BY <1>3 DEF IInv, QuietInv, ReadsPresent
<1>5. cache[n].key = make_key <=> \A k \in Positions : cache[n].key[k] = make_key[k]
  BY <1>1, <1>2
<1>6. cache[n].value = data[r] <=> \A k \in Positions : cache[n].value[k] = data[r][k]
  BY <1>1, <1>3
<1>7. \A k \in Positions : cache[n].key[k] = make_key[k] <=> cache[n].value[k] = data[r][k]
  BY <1>1, <1>2, <1>4 DEF InStep
<1> QED
  BY <1>5, <1>6, <1>7

LEMMA GetStep == ASSUME IInv, NEW r \in Runs, computed_cache_get(r) PROVE IInv'
<1>1. /\ pc[r] = "get" /\ UNCHANGED <<fileVars, cache, data>> /\ cache \in Seq(Line)
      /\ DOMAIN expected = Runs
  BY DEF computed_cache_get, IInv, Types
<1>2. CASE \E n \in LinesOf(make_key) :
             expected' = [expected EXCEPT ![r] = cache[n].value] /\ Go(r, "check")
  <2>1. PICK n \in LinesOf(make_key) :
          expected' = [expected EXCEPT ![r] = cache[n].value] /\ Go(r, "check")
    BY <1>2
  <2>2. /\ FilesInv' /\ Types' /\ quiet' = quiet /\ pc'[r] = "check"
        /\ quiet => \A q \in Runs : ReadsPresent(q)'
        /\ quiet => \A q \in Runs : q # r => ExpectedOfData(q)'
    <3>1. "check" \in RunPcs \ {"parser"}
      BY DEF RunPcs
    <3>2. DOMAIN expected' = Runs /\ \A q \in Runs : q # r => expected'[q] = expected[q]
      BY <1>1, <2>1
    <3> QED
      BY <1>1, <2>1, <3>1, <3>2, AfterParser
  <2>3. ASSUME quiet PROVE ExpectedOfData(r)'
    <3>1. n \in DOMAIN cache /\ cache[n].key = make_key
      BY <2>1 DEF LinesOf
    <3>2. cache[n].value = data[r]
      BY <2>3, <3>1, <1>1, PresentLine
    <3> QED
      BY <3>2, <2>1, <1>1 DEF ExpectedOfData
  <2>4. quiet => LinesInv'
    BY <1>1, LinesKept
  <2> QED
    BY <2>2, <2>3, <2>4 DEF IInv, QuietInv
<1>3. CASE Go(r, "compute") /\ UNCHANGED expected
  <2>1. /\ FilesInv' /\ Types' /\ quiet' = quiet /\ pc'[r] = "compute"
        /\ quiet => \A q \in Runs : ReadsPresent(q)'
        /\ quiet => \A q \in Runs : q # r => ExpectedOfData(q)'
    <3>1. "compute" \in RunPcs \ {"parser"}
      BY DEF RunPcs
    <3> QED
      BY <1>1, <1>3, <3>1, AfterParser
  <2>2. ExpectedOfData(r)'
    BY <2>1 DEF ExpectedOfData
  <2>3. quiet => LinesInv'
    BY <1>1, LinesKept
  <2> QED
    BY <2>1, <2>2, <2>3 DEF IInv, QuietInv
<1> QED
  BY <1>2, <1>3 DEF computed_cache_get

LEMMA ComputeStep == ASSUME IInv, NEW r \in Runs, compute_expected_result(r) PROVE IInv'
<1>1. /\ pc[r] = "compute" /\ UNCHANGED <<fileVars, cache, data>> /\ cache \in Seq(Line)
      /\ DOMAIN expected = Runs /\ expected' = [expected EXCEPT ![r] = data[r]] /\ Go(r, "put")
      /\ data[r] \in Seq(Nat) /\ Len(data[r]) = Len(Files)
  BY DEF compute_expected_result, IInv, Types, ReadSoFar
<1>2. /\ FilesInv' /\ Types' /\ quiet' = quiet /\ pc'[r] = "put"
      /\ quiet => \A q \in Runs : ReadsPresent(q)'
      /\ quiet => \A q \in Runs : q # r => ExpectedOfData(q)'
  <2>1. "put" \in RunPcs \ {"parser"}
    BY DEF RunPcs
  <2>2. /\ DOMAIN expected' = Runs /\ \A q \in Runs : q # r => expected'[q] = expected[q]
        /\ expected'[r] = data[r]
    BY <1>1
  <2> QED
    BY <1>1, <2>1, <2>2, AfterParser
<1>3. ExpectedOfData(r)'
  BY <1>1 DEF ExpectedOfData
<1>4. quiet => LinesInv'
  BY <1>1, LinesKept
<1> QED
  BY <1>2, <1>3, <1>4 DEF IInv, QuietInv

LEMMA PutStep == ASSUME IInv, NEW r \in Runs, computed_cache_put(r) PROVE IInv'
<1> DEFINE line == [key |-> make_key, value |-> expected[r]]
<1>1. /\ pc[r] = "put" /\ UNCHANGED <<fileVars, data, expected>> /\ cache \in Seq(Line)
      /\ cache' = Append(cache, line) /\ Go(r, "check") /\ DOMAIN expected = Runs
      /\ expected[r] \in Seq(Nat) /\ Len(expected[r]) = Len(Files)
  BY DEF computed_cache_put, IInv, Types
<1>2. make_key \in [Positions -> Nat] /\ \A k \in Positions : make_key[k] = mtime[Files[k]]
  BY KeyType DEF IInv
<1>3. line \in Line
  BY <1>1, <1>2, OnePerFile DEF Line
<1>4. /\ cache' \in Seq(Line)
      /\ \A n \in DOMAIN cache' : n \in DOMAIN cache \/ n = Len(cache) + 1
      /\ \A n \in DOMAIN cache : cache'[n] = cache[n]
      /\ cache'[Len(cache) + 1] = line
  <2> HIDE DEF line
  <2> QED
    BY <1>1, <1>3, AppendEntries
<1>5. /\ FilesInv' /\ Types' /\ quiet' = quiet /\ pc'[r] = "check"
      /\ quiet => \A q \in Runs : ReadsPresent(q)'
      /\ quiet => \A q \in Runs : q # r => ExpectedOfData(q)'
  <2>1. "check" \in RunPcs \ {"parser"} /\ "check" # "put"
    BY DEF RunPcs
  <2> QED
    BY <1>1, <1>4, <2>1, AfterParser
<1>6. ASSUME quiet PROVE ExpectedOfData(r)' /\ LinesInv'
  <2>1. expected[r] = data[r]
    BY <1>1, <1>6 DEF IInv, QuietInv, ExpectedOfData
  <2>2. InStep(line)
    <3>1. \A k \in Positions : data[r][k] = version[Files[k]]
      <4>1. data[r] \in [Positions -> Nat]
        BY <1>1, <2>1, OnePerFile
      <4> QED
        BY <4>1, <1>6 DEF IInv, QuietInv, ReadsPresent
    <3>2. \A k \in Positions : mtime[Files[k]] \in Nat /\ version[Files[k]] \in Nat
      BY FilesNamed DEF IInv, FilesInv
    <3> QED
      BY <3>1, <3>2, <1>2, <2>1 DEF InStep
  <2>3. \A n \in DOMAIN cache' : InStep(cache'[n])
    BY <1>4, <1>6, <2>2 DEF IInv, QuietInv, LinesInv
  <2>4. LinesInv'
    BY <2>3, <1>1 DEF LinesInv, InStep, fileVars
  <2> QED
    BY <2>1, <2>4, <1>1 DEF ExpectedOfData
<1> QED
  BY <1>5, <1>6 DEF IInv, QuietInv

LEMMA CheckStep == ASSUME IInv, NEW r \in Runs, Check(r) PROVE IInv'
<1>1. /\ UNCHANGED <<fileVars, cache>> /\ Go(r, "parser")
      /\ data' = [data EXCEPT ![r] = <<>>] /\ expected' = [expected EXCEPT ![r] = <<>>]
  BY DEF Check
<1>2. FilesInv' /\ quiet' = quiet
  BY <1>1, FilesKept
<1>3. /\ pc'[r] = "parser" /\ data'[r] = <<>> /\ pc' \in [Runs -> RunPcs]
      /\ data' \in [Runs -> Seq(Nat)] /\ DOMAIN expected' = Runs
      /\ \A q \in Runs : q # r => pc'[q] = pc[q] /\ data'[q] = data[q] /\ expected'[q] = expected[q]
  BY <1>1 DEF Go, IInv, Types, RunPcs
<1>4. Types'
  <2>1. \A q \in Runs : ReadSoFar(q)'
    BY <1>3, FilesNamed DEF IInv, Types, ReadSoFar
  <2>2. ASSUME NEW q \in Runs, pc'[q] = "put"
        PROVE  expected'[q] \in Seq(Nat) /\ Len(expected'[q]) = Len(Files)
    <3>1. q # r
      BY <2>2, <1>3
    <3> QED
      BY <2>2, <3>1, <1>3 DEF IInv, Types
  <2> QED
    BY <1>1, <1>3, <2>1, <2>2 DEF IInv, Types
<1>5. ASSUME quiet PROVE QuietInv'
  <2>1. LinesInv'
    BY <1>1, <1>5, LinesKept
  <2>2. \A q \in Runs : ReadsPresent(q)' /\ ExpectedOfData(q)'
    BY <1>1, <1>3, <1>5 DEF IInv, QuietInv, ReadsPresent, ExpectedOfData, fileVars
  <2> QED
    BY <2>1, <2>2 DEF QuietInv
<1> QED
  BY <1>2, <1>4, <1>5 DEF IInv

LEMMA StutterStep == ASSUME IInv, UNCHANGED vars PROVE IInv'
  BY DEF IInv, FilesInv, Types, ReadSoFar, QuietInv, LinesInv, InStep, ReadsPresent,
         ExpectedOfData, vars, fileVars

THEOREM CacheInvariant == Spec => []IInv
<1>1. IInv /\ [Next]_vars => IInv'
  BY EditStep, ParserStep, GetStep, ComputeStep, PutStep, CheckStep, StutterStep DEF Next
<1> QED
  BY InitInv, <1>1, PTL DEF Spec

-----------------------------------------------------------------------------
(* The properties *)

(***************************************************************************)
(* computed_cache.c and test.c: for any number of files, runs and edits,   *)
(* a run compares its result with a value computed from the data it has    *)
(* read itself, as long as the times in the key tell the edits apart.      *)
(***************************************************************************)
THEOREM CachedValueFresh == Spec => []ValueFreshIfQuiet
<1>1. IInv => ValueFreshIfQuiet
  BY DEF IInv, QuietInv, ExpectedOfData, ValueFreshIfQuiet, ValueFresh
<1> QED
  BY <1>1, CacheInvariant, PTL

(***************************************************************************)
(* computed_cache_get: a run that finds nothing in the cache has read data *)
(* from which no line of the cache was computed.                           *)
(***************************************************************************)
THEOREM NothingComputedTwice == Spec => ComputedOnce
<1> DEFINE Once == \A r \in Runs :
             (quiet /\ pc[r] = "get" /\ pc'[r] = "compute") =>
               \A n \in DOMAIN cache : cache[n].value # data[r]
<1>1. ASSUME IInv, [Next]_vars PROVE [Once]_vars
  <2> SUFFICES ASSUME NEW r \in Runs, quiet, pc[r] = "get", pc'[r] = "compute",
                      NEW n \in DOMAIN cache
               PROVE  cache[n].value # data[r]
    OBVIOUS
  <2>1. pc \in [Runs -> RunPcs]
    BY <1>1 DEF IInv, Types
  <2>2. computed_cache_get(r)
    <3>1. ASSUME NEW q \in Runs, q # r,
                 Parser(q) \/ computed_cache_get(q) \/ compute_expected_result(q)
                   \/ computed_cache_put(q) \/ Check(q)
          PROVE  FALSE
      <4>1. pc' = pc \/ \E next : Go(q, next)
        BY <3>1 DEF Parser, computed_cache_get, compute_expected_result, computed_cache_put, Check
      <4>2. pc'[r] = pc[r]
        BY <4>1, <3>1, <2>1 DEF Go
      <4> QED
        BY <4>2
    <3>2. ASSUME NEW f \in FileSet, Edit(f) PROVE FALSE
      BY <3>2 DEF Edit
    <3>3. ~ UNCHANGED vars
      BY DEF vars
    <3>4. ~ (Parser(r) \/ compute_expected_result(r) \/ computed_cache_put(r) \/ Check(r))
      BY DEF Parser, compute_expected_result, computed_cache_put, Check
    <3> QED
      BY <1>1, <3>1, <3>2, <3>3, <3>4 DEF Next
  <2>3. LinesOf(make_key) = {}
    <3>1. ~ Go(r, "check")
      BY <2>1 DEF Go
    <3> QED
      BY <2>2, <3>1 DEF computed_cache_get
  <2>4. cache[n].key # make_key
    BY <2>3 DEF LinesOf
  <2> QED
    BY <2>4, <1>1, PresentLine
<1> QED
  BY <1>1, CacheInvariant, PTL DEF Spec, ComputedOnce
=============================================================================
