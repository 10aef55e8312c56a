-------------------------- MODULE RSMAdapter_proofs -------------------------
(***************************************************************************)
(* For every configuration, whatever its files: the reader of recursive    *)
(* state machines accepts exactly the files that are well formed, its      *)
(* boxes and the matrices LAGraph gets spell the file, and what the rows   *)
(* before left behind never gets into the calls test.c makes for a row     *)
(* that was accepted.                                                      *)
(***************************************************************************)
EXTENDS RSMAdapter, SymbolList_proofs, FiniteSetTheorems, TLAPS

-----------------------------------------------------------------------------
(* The state of the adapters *)

\* CFL_Kron has freed the machines of earlier rows.
MachineFreed == adapter = "CFL_Kron" => state.rsm = ZeroRSM

StateShape ==
  state = [rsm |-> state.rsm, adj_matrices |-> state.adj_matrices,
           sources |-> state.sources, outputs |-> state.outputs]

CallPhases == {"init_outputs", "run", "free_outputs", "cleanup"}

\* Between two rows the matrices are gone; while a row is worked on, they are
\* those of its machine or, for a refused file, still gone.
IInv ==
  /\ adapter \in {"CFL_Kron", "CFL_CFPQ_RSM"}
  /\ StateShape
  /\ phase \in {"prepare", "cleaned"} => state.adj_matrices = NULL /\ MachineFreed
  /\ phase \in CallPhases =>
       \/ pc = "converted" /\ MachineOfTheRow
       \/ pc = "rejected" /\ state.adj_matrices = NULL /\ MachineFreed
  /\ adapter = "CFL_Kron" => phase # "crashed"

LEMMA InitInv == AdapterInit => IInv
  BY AdapterRunsAssumption DEF AdapterInit, IInv, StateShape, MachineFreed, CallPhases, MachineOfTheRow

\* A conversion gives the machine one matrix for each terminal, as prepare does.
LEMMA SameTerminals ==
  DOMAIN prepared_adj_matrices = DOMAIN rsm_convert_to_lagraph(rsm).terminal_matrices
  BY DEF prepared_adj_matrices, rsm_convert_to_lagraph

LEMMA PrepareReadStep == IInv /\ PrepareRead => IInv'
  BY DEF IInv, PrepareRead, StateShape, MachineFreed, CallPhases, MachineOfTheRow

\* An accepted file: the two adapters take over the machine and make its matrices.
LEMMA PrepareStep == IInv /\ (KronPrepare \/ CFPQPrepare) => IInv'
<1> SUFFICES ASSUME IInv, KronPrepare \/ CFPQPrepare PROVE IInv'
  OBVIOUS
<1>1. adapter' = adapter /\ phase = "prepare" /\ Convert
  BY DEF KronPrepare, CFPQPrepare
<1>2. CASE pc' = "converted"
  <2>1. lagraph' = rsm_convert_to_lagraph(rsm)
    BY <1>1, <1>2 DEF Convert
  <2>2. /\ state'.rsm = lagraph' /\ state'.adj_matrices = prepared_adj_matrices
        /\ StateShape' /\ phase' = "init_outputs"
    BY <1>2 DEF KronPrepare, CFPQPrepare, IInv, StateShape
  <2>3. DOMAIN state'.adj_matrices = DOMAIN lagraph'.terminal_matrices
    BY <2>1, <2>2, SameTerminals
  <2> QED
    BY <1>1, <1>2, <2>2, <2>3 DEF IInv, CallPhases, MachineOfTheRow
<1>3. CASE pc' # "converted"
  BY <1>1, <1>3 DEF KronPrepare, CFPQPrepare, IInv, StateShape, CallPhases, MachineOfTheRow
<1> QED
  BY <1>2, <1>3

\* The calls of a round touch the outputs only.
LEMMA RoundStep == IInv /\ (InitOutputs \/ Run \/ FreeOutputs) => IInv'
<1> SUFFICES ASSUME IInv, InitOutputs \/ Run \/ FreeOutputs PROVE IInv'
  OBVIOUS
<1>1. /\ state'.rsm = state.rsm /\ state'.adj_matrices = state.adj_matrices
      /\ StateShape'
  BY DEF InitOutputs, Run, FreeOutputs, IInv, StateShape
<1>2. /\ UNCHANGED <<vars, adapter>>
      /\ phase \in CallPhases /\ phase' \in CallPhases
  BY DEF InitOutputs, Run, FreeOutputs, CallPhases
<1> QED
  BY <1>1, <1>2 DEF IInv, MachineFreed, CallPhases, MachineOfTheRow, vars

\* Without matrices the walk is empty unless a machine was left.
LEMMA CrashStep == IInv /\ CleanupCrash => IInv'
<1> SUFFICES ASSUME IInv, CleanupCrash PROVE IInv'
  OBVIOUS
<1>1. phase = "cleanup" /\ ~(DOMAIN state.rsm.terminal_matrices \subseteq DOMAIN state.adj_matrices)
  BY DEF CleanupCrash, CleanupWalks
<1>2. pc = "rejected" /\ state.adj_matrices = NULL /\ MachineFreed
  BY <1>1 DEF IInv, CallPhases, MachineOfTheRow
<1>3. adapter # "CFL_Kron"
  BY <1>1, <1>2 DEF MachineFreed, ZeroRSM, NULL
<1> QED
  BY <1>2, <1>3 DEF CleanupCrash, IInv, MachineFreed, StateShape, CallPhases, MachineOfTheRow, vars

LEMMA CleanupStep == IInv /\ (KronCleanup \/ CFPQCleanup) => IInv'
<1> SUFFICES ASSUME IInv, KronCleanup \/ CFPQCleanup PROVE IInv'
  OBVIOUS
<1>1. CASE KronCleanup
  BY <1>1 DEF KronCleanup, IInv, MachineFreed, StateShape, CallPhases, MachineOfTheRow
<1>2. CASE CFPQCleanup
  <2>1. state'.adj_matrices = NULL /\ state'.rsm = state.rsm /\ StateShape'
    BY <1>2 DEF CFPQCleanup, IInv, StateShape
  <2>2. MachineFreed
    BY <1>2 DEF CFPQCleanup, IInv, MachineFreed, CallPhases, MachineOfTheRow
  <2> QED
    BY <1>2, <2>1, <2>2 DEF CFPQCleanup, IInv, MachineFreed, CallPhases, MachineOfTheRow
<1> QED
  BY <1>1, <1>2

LEMMA OtherSteps == IInv /\ (NextRow \/ Ended \/ UNCHANGED adapterVars) => IInv'
  BY DEF NextRow, Ended, adapterVars, vars, IInv, MachineFreed, StateShape, CallPhases, MachineOfTheRow

THEOREM RSMAdapterInvariant == AdapterSpec => []IInv
<1>1. IInv /\ [AdapterNext]_adapterVars => IInv'
  BY PrepareReadStep, PrepareStep, RoundStep, CrashStep, CleanupStep, OtherSteps
     DEF AdapterNext
<1> QED
  BY InitInv, <1>1, PTL DEF AdapterSpec

(***************************************************************************)
(* For every file and any number of rows: the calls after an accepted row  *)
(* find its machine and its matrices, those after a refused one find no    *)
(* matrices, and CFL_Kron survives every sequence of rows                  *)
(* (adapter_CFL_Kron.c:62-68, 106-107, 175-180, and                        *)
(* adapter_CFL_CFPQ_RSM.c:70-75, 105-106).                                 *)
(***************************************************************************)
THEOREM RSMStateFit == AdapterSpec => []StateFitForCalls
<1>1. IInv => StateFitForCalls
  BY DEF IInv, StateFitForCalls, MachineFreed, CallPhases
<1> QED
  BY <1>1, RSMAdapterInvariant, PTL

-----------------------------------------------------------------------------
(* What a file says, as operators of the file *)

\* BlockCount of a file.
BlocksOf(f) == IF f.block_count = 0 THEN 1 ELSE f.block_count

\* The headers of boxes in the lines up to last.
HeadsIn(f, last) == {m \in 1 .. last : f.lines[m].kind = "box"}

\* The box line n is in.
BoxOf(f, n) ==
  IF HeadsIn(f, n - 1) = {} THEN NoName ELSE f.lines[Max(HeadsIn(f, n - 1))].name

\* LinesOf of a file.
LinesIn(f, kind, name, last) ==
  {n \in 1 .. last : f.lines[n].kind = kind /\ BoxOf(f, n) = name}

EdgesIn(f, name, last) ==
  {Instance(f.lines[n], block) :
     n \in LinesIn(f, "transition", name, last), block \in 0 .. BlocksOf(f) - 1}

FinalsIn(f, name, last) ==
  UNION {{symbol_numerate(st, block) :
            st \in ToSet(f.lines[n].states), block \in 0 .. BlocksOf(f) - 1} :
           n \in LinesIn(f, "final", name, last)}

StartsIn(f, name, last) == {f.lines[n].value : n \in LinesIn(f, "start", name, last)}

StatesIn(f, name, last) ==
  StartsIn(f, name, last) \cup FinalsIn(f, name, last)
    \cup {e[1] : e \in EdgesIn(f, name, last)} \cup {e[3] : e \in EdgesIn(f, name, last)}

\* BoxesInFile of a file.
BoxNames(f) == {f.lines[n].name : n \in HeadsIn(f, Len(f.lines))}

\* The transitions of lines n and m give no state two transitions with a label.
NoConflict(f, n, m) ==
  \A i, j \in 0 .. BlocksOf(f) - 1 :
    LET d == Instance(f.lines[n], i)
        e == Instance(f.lines[m], j)
    IN <<d[1], d[2]>> = <<e[1], e[2]>> => n = m /\ (d = e \/ i = j)

\* DeterministicFile of the lines up to last.
DeterministicTo(f, last) ==
  \A name \in BoxNames(f) :
    \A n, m \in LinesIn(f, "transition", name, last) : NoConflict(f, n, m)

\* The value of the last "start:" line before the first box.
StartValue(f, last) ==
  IF LinesIn(f, "start", NoName, last) = {} THEN NoName
  ELSE f.lines[Max(LinesIn(f, "start", NoName, last))].value

\* StartBoxInFile of a file.
StartBoxOf(f) ==
  IF LinesIn(f, "start", NoName, Len(f.lines)) = {} THEN DefaultStart
  ELSE f.lines[Max(LinesIn(f, "start", NoName, Len(f.lines)))].value

\* No box is defined twice.
BoxesDistinct(f, last) ==
  \A n, m \in HeadsIn(f, last) : f.lines[n].name = f.lines[m].name => n = m

\* No line so far is at fault.
SoFarGood(f, last) ==
  /\ \A n \in 1 .. last :
       /\ f.lines[n].kind # "other"
       /\ BoxOf(f, n) = NoName => f.lines[n].kind \in {"skipped", "box", "start"}
  /\ \A name \in BoxNames(f) :
       /\ \A n, m \in LinesIn(f, "start", name, last) : n = m
       /\ \A n \in LinesIn(f, "start", name, last) : ~IsIndexed(f.lines[n].value)
  /\ DeterministicTo(f, last)

\* WellFormed, with injectivity for the counts.
GoodFile(f) ==
  /\ f.exists
  /\ BoxNames(f) # {} /\ BoxesDistinct(f, Len(f.lines))
  /\ BoxNames(f) \cap LabelsOf(f.terms) = {}
  /\ StartBoxOf(f) \in BoxNames(f)
  /\ \A name \in BoxNames(f) : LinesIn(f, "start", name, Len(f.lines)) # {}
  /\ SoFarGood(f, Len(f.lines))

-----------------------------------------------------------------------------
(* The machine *)

\* The final states of a box with count states.
FinalsFit(count, finals) ==
  /\ \A n \in DOMAIN finals : finals[n] \in 1 .. count
  /\ IsInjective(finals)

EdgeFits(r, count, edge) ==
  /\ edge.start \in 1 .. count /\ edge.end \in 1 .. count
  /\ edge.label \in 1 .. Len(IF edge.is_term THEN r.terms ELSE r.nonterms)

\* Two transitions from one state with one label.
SameKey(d, e) == d.start = e.start /\ d.label = e.label /\ d.is_term = e.is_term

EdgesFit(r, count, edges) ==
  /\ \A n \in DOMAIN edges : EdgeFits(r, count, edges[n])
  /\ \A n, m \in DOMAIN edges : SameKey(edges[n], edges[m]) => n = m

BoxFits(r, x) ==
  /\ DistinctLabels(x.states)
  /\ x.start_state \in 0 .. Len(x.states)
  /\ FinalsFit(Len(x.states), x.final_states)
  /\ EdgesFit(r, Len(x.states), x.edges)

\* Every index of the machine is in its list, and no list names a thing twice.
MachineFits(r) ==
  /\ r \in CFG_RSM
  /\ Len(r.boxes) = Len(r.nonterms)
  /\ DistinctLabels(r.nonterms) /\ DistinctLabels(r.terms)
  /\ LabelsOf(r.nonterms) \cap LabelsOf(r.terms) = {}
  /\ r.with_intial_terms = TRUE
  /\ \A b \in DOMAIN r.boxes : BoxFits(r, r.boxes[b])

\* LabelOf of a machine.
EdgeLabel(r, e) == (IF e.is_term THEN r.terms ELSE r.nonterms)[e.label].label

\* A transition, the transitions, the final states and the start state of a box by name.
SpelledEdge(r, x, e) == <<x.states[e.start].label, EdgeLabel(r, e), x.states[e.end].label>>
SpelledEdges(r, x) == {SpelledEdge(r, x, x.edges[n]) : n \in DOMAIN x.edges}
SpelledFinals(x) == {x.states[s].label : s \in ToSet(x.final_states)}
SpelledStarts(x) == IF x.start_state = 0 THEN {} ELSE {x.states[x.start_state].label}

\* Box b holds what the lines up to last say of it.
BoxSpells(f, r, b, last) ==
  LET x == r.boxes[b]
      name == r.nonterms[b].label
  IN /\ SpelledEdges(r, x) = EdgesIn(f, name, last)
     /\ LabelsOf(x.states) = StatesIn(f, name, last)
     /\ SpelledFinals(x) = FinalsIn(f, name, last)
     /\ SpelledStarts(x) = StartsIn(f, name, last)

\* The labels of the graph keep their numbers.
TermsKept(f, r) ==
  Len(f.terms) <= Len(r.terms) /\ \A t \in DOMAIN f.terms : r.terms[t] = f.terms[t]

\* The nonterminals are the boxes of the lines up to last.
Collected(f, r, last) ==
  /\ LabelsOf(r.nonterms) = {f.lines[n].name : n \in HeadsIn(f, last)}
  /\ BoxesDistinct(f, last)

\* Nothing but nonterminals has been added.
AllInit(f, r) == r.terms = f.terms /\ \A b \in DOMAIN r.boxes : r.boxes[b] = rsm_box_init

\* In the second pass, after n lines.
Reading(f, r, n, bx, sb) ==
  /\ f.exists = TRUE
  /\ Collected(f, r, Len(f.lines)) /\ BoxNames(f) \cap LabelsOf(f.terms) = {}
  /\ TermsKept(f, r)
  /\ \A b \in DOMAIN r.boxes : BoxSpells(f, r, b, n)
  /\ SoFarGood(f, n)
  /\ bx = BoxOf(f, n + 1) /\ sb = StartValue(f, n)

\* The inductive invariant of the reader.
ReaderInv ==
  /\ file \in RSMFiles
  /\ pc \in {"open", "boxes", "lines", "read", "converted", "rejected", "aborted"}
  /\ line_no \in 0 .. Len(file.lines)
  /\ box \in LabelRecord \cup {NoName} /\ start_box \in LabelRecord \cup {NoName}
  /\ MachineFits(rsm)
  /\ pc # "rejected" => rsm.status = "ok"
  /\ pc = "open" =>
       line_no = 0 /\ rsm = rsm_init(file.terms) /\ box = NoName /\ start_box = NoName
  /\ pc = "boxes" =>
       /\ file.exists = TRUE /\ box = NoName /\ start_box = NoName
       /\ Collected(file, rsm, line_no) /\ AllInit(file, rsm)
  /\ pc \in {"lines", "read", "converted", "aborted"} =>
       Reading(file, rsm, line_no, box, start_box)
  /\ pc \in {"read", "converted", "aborted"} =>
       /\ line_no = Len(file.lines) /\ GoodFile(file)
       /\ rsm.start_nonterm \in 1 .. Len(rsm.nonterms)
       /\ rsm.nonterms[rsm.start_nonterm].label = StartBoxOf(file)
  /\ pc = "converted" =>
       /\ \A b \in DOMAIN rsm.boxes : rsm.boxes[b].final_states # <<>>
       /\ lagraph = rsm_convert_to_lagraph(rsm)
  /\ pc = "aborted" => \E b \in DOMAIN rsm.boxes : rsm.boxes[b].final_states = <<>>
  /\ pc = "rejected" => ~GoodFile(file)

-----------------------------------------------------------------------------
(* The lines of a file *)

\* What RSMAssumption says of a file.
LEMMA LineTypes ==
  ASSUME NEW f \in RSMFiles
  PROVE  /\ f.lines \in Seq(FileLine) /\ Len(f.lines) \in Nat
         /\ DOMAIN f.lines = 1 .. Len(f.lines)
         /\ f.exists \in BOOLEAN
         /\ BlocksOf(f) \in Nat /\ BlocksOf(f) >= 1
         /\ f.terms \in Seq(Symbol(LabelRecord)) /\ DistinctLabels(f.terms)
<1>1. f.lines \in Seq(FileLine) /\ f.block_count \in Nat
  BY RSMAssumption
<1> QED
  BY <1>1, RSMAssumption DEF BlocksOf

\* A line of a kind has the fields of the kind.
LEMMA LineFields ==
  ASSUME NEW f \in RSMFiles, NEW n \in 1 .. Len(f.lines)
  PROVE  /\ f.lines[n].kind \in Kinds
         /\ f.lines[n].kind = "box" => f.lines[n].name \in LabelRecord \ {NoName}
         /\ f.lines[n].kind = "start" => f.lines[n].value \in LabelRecord \ {NoName}
         /\ f.lines[n].kind = "final" => f.lines[n].states \in Seq(LabelRecord)
         /\ f.lines[n].kind = "transition" =>
              /\ f.lines[n].from \in LabelRecord /\ f.lines[n].label \in LabelRecord
              /\ f.lines[n].to \in LabelRecord
<1> DEFINE line == f.lines[n]
<1>1. line \in FileLine
  BY LineTypes
<1> HIDE DEF line
<1>2. CASE line \in [kind : {"skipped", "other"}]
  BY <1>2 DEF Kinds, line
<1>3. CASE line \in [kind : {"box"}, name : LabelRecord \ {NoName}]
  BY <1>3 DEF Kinds, line
<1>4. CASE line \in [kind : {"start"}, value : LabelRecord \ {NoName}]
  BY <1>4 DEF Kinds, line
<1>5. CASE line \in [kind : {"final"}, states : Seq(LabelRecord)]
  BY <1>5 DEF Kinds, line
<1>6. CASE line \in [kind : {"transition"}, from : LabelRecord, label : LabelRecord, to : LabelRecord]
  BY <1>6 DEF Kinds, line
<1> QED
  BY <1>1, <1>2, <1>3, <1>4, <1>5, <1>6 DEF FileLine

\* The greatest number of a nonempty set that is bounded.
LEMMA MaxOf ==
  ASSUME NEW N \in Nat, NEW S \in SUBSET (1 .. N), S # {}
  PROVE  Max(S) \in S /\ \A y \in S : Max(S) >= y
<1> DEFINE T == {N - y : y \in S}
<1>0. \A y \in S : y \in Nat /\ y <= N
  OBVIOUS
<1>1. T \subseteq Nat /\ T # {}
  <2>1. \A y \in S : N - y \in Nat
    BY <1>0
  <2>2. PICK y \in S : TRUE
    OBVIOUS
  <2>3. N - y \in T
    BY <2>2
  <2> QED
    BY <2>1, <2>3
<1>2. PICK d \in T : \A e \in T : d <= e
  BY <1>1, LeastElement
<1>3. PICK x \in S : d = N - x
  OBVIOUS
<1>4. ASSUME NEW y \in S PROVE x >= y
  <2>1. d <= N - y
    BY <1>2
  <2> QED
    BY <1>0, <1>3, <2>1
<1> QED
  BY <1>4 DEF Max

\* The last line added to a bounded set of lines is the greatest.
LEMMA MaxOfNext ==
  ASSUME NEW n \in Nat, NEW S \in SUBSET (1 .. n)
  PROVE  Max(S \cup {n + 1}) = n + 1
<1>1. S \cup {n + 1} \in SUBSET (1 .. n + 1) /\ S \cup {n + 1} # {}
  OBVIOUS
<1>2. Max(S \cup {n + 1}) \in S \cup {n + 1} /\ Max(S \cup {n + 1}) >= n + 1
  BY <1>1, MaxOf
<1>3. \A y \in S : ~(y >= n + 1)
  OBVIOUS
<1> QED
  BY <1>2, <1>3

\* What one more line adds to the lines of a kind.
LEMMA NextHead ==
  ASSUME NEW f, NEW n \in Nat
  PROVE  HeadsIn(f, n + 1) =
           HeadsIn(f, n) \cup (IF f.lines[n + 1].kind = "box" THEN {n + 1} ELSE {})
  BY DEF HeadsIn

\* The lines of a kind in a box, one line further.
LEMMA NextLineIn ==
  ASSUME NEW f, NEW kind, NEW name, NEW n \in Nat
  PROVE  LinesIn(f, kind, name, n + 1) =
           LinesIn(f, kind, name, n) \cup
             (IF f.lines[n + 1].kind = kind /\ BoxOf(f, n + 1) = name THEN {n + 1} ELSE {})
  BY DEF LinesIn

\* No line is in a box before the first header, and a header begins its box.
LEMMA FirstBox ==
  ASSUME NEW f
  PROVE  BoxOf(f, 1) = NoName
  BY DEF BoxOf, HeadsIn

\* The box of the next line but one.
LEMMA NextBox ==
  ASSUME NEW f, NEW n \in Nat
  PROVE  BoxOf(f, n + 2) =
           IF f.lines[n + 1].kind = "box" THEN f.lines[n + 1].name ELSE BoxOf(f, n + 1)
<1>1. (n + 2) - 1 = n + 1 /\ (n + 1) - 1 = n
  OBVIOUS
<1>2. HeadsIn(f, n) \in SUBSET (1 .. n)
  BY DEF HeadsIn
<1>3. CASE f.lines[n + 1].kind = "box"
  <2>1. HeadsIn(f, n + 1) = HeadsIn(f, n) \cup {n + 1}
    BY <1>3, NextHead, Zenon
  <2>2. Max(HeadsIn(f, n + 1)) = n + 1
    BY <1>2, <2>1, MaxOfNext
  <2> QED
    BY <1>1, <1>3, <2>1, <2>2 DEF BoxOf
<1>4. CASE f.lines[n + 1].kind # "box"
  <2>1. HeadsIn(f, n + 1) = HeadsIn(f, n) \cup {}
    BY <1>4, NextHead, Zenon
  <2> QED
    BY <1>1, <1>4, <2>1 DEF BoxOf
<1> QED
  BY <1>3, <1>4

\* A line is in a box of the file, or in none.
LEMMA BoxOfIsABox ==
  ASSUME NEW f \in RSMFiles, NEW n \in 0 .. Len(f.lines)
  PROVE  /\ BoxOf(f, n + 1) \in BoxNames(f) \cup {NoName}
         /\ NoName \notin BoxNames(f)
         /\ BoxNames(f) \subseteq LabelRecord
<1>1. Len(f.lines) \in Nat
  BY LineTypes
<1>2. (n + 1) - 1 = n /\ HeadsIn(f, n) \in SUBSET (1 .. n) /\ n \in Nat
  BY <1>1 DEF HeadsIn
<1>3. HeadsIn(f, n) \subseteq HeadsIn(f, Len(f.lines))
  BY <1>1 DEF HeadsIn
<1>4. ASSUME HeadsIn(f, n) # {} PROVE BoxOf(f, n + 1) \in BoxNames(f)
  <2>1. Max(HeadsIn(f, n)) \in HeadsIn(f, n)
    BY <1>2, <1>4, MaxOf
  <2> QED
    BY <1>2, <1>3, <1>4, <2>1 DEF BoxOf, BoxNames
<1>5. ASSUME NEW m \in HeadsIn(f, Len(f.lines)) PROVE f.lines[m].name \in LabelRecord \ {NoName}
  BY LineFields DEF HeadsIn
<1> QED
  BY <1>2, <1>4, <1>5 DEF BoxOf, BoxNames

-----------------------------------------------------------------------------
(* The builder's operations on a machine that fits *)

\* A list of symbols.
Listed(list) == list \in Seq(Symbol(LabelRecord))

\* A symbol that is listed once is found where it is.
LEMMA IndexOf ==
  ASSUME NEW list, Listed(list), NEW str
  PROVE  /\ Has(list, str) <=> str \in LabelsOf(list)
         /\ str \in LabelsOf(list) =>
              /\ Index(list, str) \in 1 .. Len(list) /\ list[Index(list, str)].label = str
              /\ DistinctLabels(list) =>
                   \A i \in 1 .. Len(list) : list[i].label = str => i = Index(list, str)
<1>1. DOMAIN list = 1 .. Len(list) /\ Len(list) \in Nat
  BY DEF Listed
<1>2. /\ str \notin LabelsOf(list) => Index(list, str) = NoSymbol
      /\ str \in LabelsOf(list) =>
           Index(list, str) \in 1 .. Len(list) /\ list[Index(list, str)].label = str
  BY GetIndexFindsLabel DEF Index, Listed
<1>3. Index(list, str) \in 1 .. Len(list) => Index(list, str) # NoSymbol
  BY <1>1 DEF NoSymbol
<1> HIDE DEF Index
<1>4. Has(list, str) <=> str \in LabelsOf(list)
  BY <1>2, <1>3 DEF Has
<1> QED
  BY <1>1, <1>2, <1>4 DEF DistinctLabels

\* The list with a label at its end that it does not have.
LEMMA NewLabel ==
  ASSUME NEW list, Listed(list), DistinctLabels(list), NEW str \in LabelRecord,
         str \notin LabelsOf(list), NEW b \in BOOLEAN
  PROVE  /\ symbol_list_add_str(list, str, b) = Append(list, [label |-> str, is_nonterm |-> b])
         /\ Listed(symbol_list_add_str(list, str, b))
         /\ DistinctLabels(symbol_list_add_str(list, str, b))
         /\ Len(symbol_list_add_str(list, str, b)) = Len(list) + 1
         /\ \A i \in 1 .. Len(list) : symbol_list_add_str(list, str, b)[i] = list[i]
         /\ symbol_list_add_str(list, str, b)[Len(list) + 1].label = str
         /\ LabelsOf(symbol_list_add_str(list, str, b)) = LabelsOf(list) \cup {str}
<1> DEFINE new == symbol_list_add_str(list, str, b)
           sym == [label |-> str, is_nonterm |-> b]
<1>1. new = Append(list, sym)
  BY IndexOf DEF symbol_list_add_str, Has, Index
<1>2. sym \in Symbol(LabelRecord) /\ sym.label = str
  BY DEF Symbol
<1>3. DistinctLabels(new)
  BY AddStrKeepsDistinct DEF Listed
<1> HIDE DEF sym, new
<1>4. /\ Listed(new) /\ Len(new) = Len(list) + 1
      /\ \A i \in 1 .. Len(list) : new[i] = list[i]
      /\ new[Len(list) + 1] = sym
  BY <1>1, <1>2 DEF Listed
<1>5. /\ DOMAIN new = 1 .. Len(new) /\ DOMAIN list = 1 .. Len(list)
      /\ Len(list) \in Nat /\ Len(list) + 1 \in 1 .. Len(new) /\ 1 .. Len(list) \subseteq 1 .. Len(new)
  BY <1>4 DEF Listed
<1>6. ASSUME NEW y \in LabelsOf(new) PROVE y \in LabelsOf(list) \cup {str}
  <2>1. PICK i \in 1 .. Len(new) : y = new[i].label
    BY <1>5 DEF LabelsOf
  <2>2. i \in 1 .. Len(list) \/ i = Len(list) + 1
    BY <1>4, <1>5
  <2> QED
    BY <1>2, <1>4, <1>5, <2>1, <2>2 DEF LabelsOf
<1>7. ASSUME NEW y \in LabelsOf(list) \cup {str} PROVE y \in LabelsOf(new)
  BY <1>2, <1>4, <1>5 DEF LabelsOf
<1> QED
  BY <1>1, <1>2, <1>3, <1>4, <1>6, <1>7 DEF sym, new

\* The parts of a machine that fits.
LEMMA Parts ==
  ASSUME NEW r, MachineFits(r)
  PROVE  /\ r \in CFG_RSM /\ Listed(r.nonterms) /\ Listed(r.terms)
         /\ r.boxes \in Seq(CFG_RSM_Box)
         /\ DOMAIN r.boxes = 1 .. Len(r.boxes) /\ DOMAIN r.nonterms = 1 .. Len(r.boxes)
         /\ Len(r.boxes) = Len(r.nonterms) /\ Len(r.boxes) \in Nat /\ Len(r.terms) \in Nat
         /\ DOMAIN r.terms = 1 .. Len(r.terms)
  BY DEF MachineFits, CFG_RSM, Listed

\* The parts of a box.
LEMMA BoxParts ==
  ASSUME NEW x \in CFG_RSM_Box
  PROVE  /\ Listed(x.states) /\ DOMAIN x.states = 1 .. Len(x.states) /\ Len(x.states) \in Nat
         /\ x.edges \in Seq(CFG_Edge) /\ DOMAIN x.edges = 1 .. Len(x.edges) /\ Len(x.edges) \in Nat
         /\ x.final_states \in Seq(Nat) /\ DOMAIN x.final_states = 1 .. Len(x.final_states)
         /\ Len(x.final_states) \in Nat
         /\ \A n \in DOMAIN x.edges :
              /\ x.edges[n] \in CFG_Edge
              /\ x.edges[n].start \in Nat /\ x.edges[n].end \in Nat /\ x.edges[n].label \in Nat
              /\ x.edges[n].is_term \in BOOLEAN
<1>1. x.states \in Seq(Symbol(LabelRecord)) /\ x.edges \in Seq(CFG_Edge) /\ x.final_states \in Seq(Nat)
  BY DEF CFG_RSM_Box
<1>2. \A n \in DOMAIN x.edges : x.edges[n] \in CFG_Edge
  BY <1>1
<1> QED
  BY <1>1, <1>2 DEF Listed, CFG_Edge

-----------------------------------------------------------------------------
(* One box changes *)

\* The machine with another box c.
WithBox(r, c, y) == [r EXCEPT !.boxes = [r.boxes EXCEPT ![c] = y]]

\* The machine fits if the new box does; nothing else is touched.
LEMMA WithBoxFits ==
  ASSUME NEW r, MachineFits(r), NEW c \in DOMAIN r.boxes, NEW y \in CFG_RSM_Box, BoxFits(r, y)
  PROVE  /\ MachineFits(WithBox(r, c, y))
         /\ WithBox(r, c, y).nonterms = r.nonterms /\ WithBox(r, c, y).terms = r.terms
         /\ WithBox(r, c, y).status = r.status
         /\ WithBox(r, c, y).start_nonterm = r.start_nonterm
         /\ DOMAIN WithBox(r, c, y).boxes = DOMAIN r.boxes
         /\ WithBox(r, c, y).boxes[c] = y
         /\ \A b \in DOMAIN r.boxes : b # c => WithBox(r, c, y).boxes[b] = r.boxes[b]
<1> DEFINE boxes == [r.boxes EXCEPT ![c] = y]
           s == WithBox(r, c, y)
<1>1. /\ boxes \in Seq(CFG_RSM_Box) /\ Len(boxes) = Len(r.boxes)
      /\ DOMAIN boxes = DOMAIN r.boxes /\ boxes[c] = y
      /\ \A b \in DOMAIN r.boxes : b # c => boxes[b] = r.boxes[b]
  BY Parts
<1> HIDE DEF boxes
<1>2. s = [r EXCEPT !.boxes = boxes]
  BY DEF s, WithBox, boxes
<1>3. r \in CFG_RSM
  BY DEF MachineFits
<1>4. /\ s \in CFG_RSM /\ s.boxes = boxes /\ s.nonterms = r.nonterms /\ s.terms = r.terms
      /\ s.status = r.status /\ s.start_nonterm = r.start_nonterm
      /\ s.with_intial_terms = r.with_intial_terms
  BY <1>1, <1>2, <1>3 DEF CFG_RSM
<1> HIDE DEF s
<1>5. ASSUME NEW b \in DOMAIN s.boxes PROVE BoxFits(s, s.boxes[b])
  <2>1. BoxFits(r, s.boxes[b])
    BY <1>1, <1>4, <1>5 DEF MachineFits
  <2> QED
    BY <1>4, <2>1 DEF BoxFits, EdgesFit, EdgeFits
<1>6. MachineFits(s)
  BY <1>1, <1>4, <1>5 DEF MachineFits
<1> QED
  BY <1>1, <1>4, <1>6 DEF s

\* The box with one state more.
WithState(x, st) == [x EXCEPT !.states = symbol_list_add_str(x.states, st, FALSE)]

\* A box with one state more, which nothing of it names yet.
LEMMA StateAdded ==
  ASSUME NEW r, NEW x \in CFG_RSM_Box, BoxFits(r, x),
         NEW st \in LabelRecord, st \notin LabelsOf(x.states), NEW y, y = WithState(x, st)
  PROVE  /\ y \in CFG_RSM_Box /\ BoxFits(r, y)
         /\ LabelsOf(y.states) = LabelsOf(x.states) \cup {st}
         /\ SpelledEdges(r, y) = SpelledEdges(r, x) /\ SpelledFinals(y) = SpelledFinals(x)
         /\ SpelledStarts(y) = SpelledStarts(x)
         /\ y.start_state = x.start_state /\ y.edges = x.edges /\ y.final_states = x.final_states
<1> DEFINE new == symbol_list_add_str(x.states, st, FALSE)
<1>1. /\ Listed(new) /\ DistinctLabels(new) /\ Len(new) = Len(x.states) + 1
      /\ \A i \in 1 .. Len(x.states) : new[i] = x.states[i]
      /\ LabelsOf(new) = LabelsOf(x.states) \cup {st}
  <2>1. Listed(x.states) /\ DistinctLabels(x.states) /\ FALSE \in BOOLEAN
    BY BoxParts DEF BoxFits
  <2> QED
    BY <2>1, NewLabel, Zenon
<1> HIDE DEF new
<1>2. /\ y \in CFG_RSM_Box /\ y.states = new /\ y.edges = x.edges
      /\ y.start_state = x.start_state /\ y.final_states = x.final_states
  BY <1>1 DEF CFG_RSM_Box, new, Listed, WithState
<1>3. Len(x.states) \in Nat /\ 1 .. Len(x.states) \subseteq 1 .. Len(new)
  BY <1>1, BoxParts
<1>4. BoxFits(r, y)
  <2>1. DistinctLabels(new) /\ x.start_state \in 0 .. Len(new)
    <3>1. x.start_state \in 0 .. Len(x.states)
      BY DEF BoxFits
    <3> QED
      BY <1>1, <1>3, <3>1
  <2>2. FinalsFit(Len(new), x.final_states)
    BY <1>3 DEF BoxFits, FinalsFit
  <2>3. EdgesFit(r, Len(new), x.edges)
    BY <1>3 DEF BoxFits, EdgesFit, EdgeFits
  <2> QED
    BY <1>2, <2>1, <2>2, <2>3 DEF BoxFits
<1>5. \A n \in DOMAIN x.edges : SpelledEdge(r, y, x.edges[n]) = SpelledEdge(r, x, x.edges[n])
  BY <1>1, <1>2 DEF SpelledEdge, BoxFits, EdgesFit, EdgeFits
<1>6. SpelledEdges(r, y) = SpelledEdges(r, x)
  BY <1>2, <1>5 DEF SpelledEdges
<1>7. \A s \in ToSet(x.final_states) : s \in 1 .. Len(x.states)
  BY DEF ToSet, BoxFits, FinalsFit
<1>8. SpelledFinals(y) = SpelledFinals(x)
  <2>1. \A s \in ToSet(x.final_states) : new[s].label = x.states[s].label
    BY <1>1, <1>7
  <2>2. /\ SpelledFinals(y) = {new[s].label : s \in ToSet(x.final_states)}
        /\ SpelledFinals(x) = {x.states[s].label : s \in ToSet(x.final_states)}
    BY <1>2 DEF SpelledFinals
  <2> QED
    BY <2>1, <2>2
<1>9. SpelledStarts(y) = SpelledStarts(x)
  <2>1. x.start_state # 0 => x.start_state \in 1 .. Len(x.states)
    BY <1>3 DEF BoxFits
  <2> QED
    BY <1>1, <1>2, <2>1 DEF SpelledStarts
<1> QED
  BY <1>1, <1>2, <1>4, <1>6, <1>8, <1>9

\* A box with one final state more.
LEMMA FinalAdded ==
  ASSUME NEW r, NEW x \in CFG_RSM_Box, BoxFits(r, x),
         NEW k \in 1 .. Len(x.states), ~Contains(x.final_states, k),
         NEW y, y = [x EXCEPT !.final_states = Append(x.final_states, k)]
  PROVE  /\ y \in CFG_RSM_Box /\ BoxFits(r, y)
         /\ SpelledFinals(y) = SpelledFinals(x) \cup {x.states[k].label}
         /\ y.states = x.states /\ y.start_state = x.start_state /\ y.edges = x.edges
<1> DEFINE new == Append(x.final_states, k)
<1>1. /\ new \in Seq(Nat) /\ DOMAIN new = 1 .. Len(x.final_states) + 1
      /\ \A i \in 1 .. Len(x.final_states) : new[i] = x.final_states[i]
      /\ new[Len(x.final_states) + 1] = k
  <2>1. k \in Nat /\ x.final_states \in Seq(Nat)
    BY BoxParts
  <2> QED
    BY <2>1
<1>2. /\ Len(x.final_states) \in Nat /\ DOMAIN x.final_states = 1 .. Len(x.final_states)
      /\ \A i \in 1 .. Len(x.final_states) + 1 :
           i \in 1 .. Len(x.final_states) \/ i = Len(x.final_states) + 1
  BY BoxParts
<1> HIDE DEF new
<1>3. /\ y \in CFG_RSM_Box /\ y.states = x.states /\ y.edges = x.edges
      /\ y.start_state = x.start_state /\ y.final_states = new
  BY <1>1 DEF CFG_RSM_Box, new
<1>4. FinalsFit(Len(x.states), x.final_states)
  BY DEF BoxFits
<1>5. \A i \in 1 .. Len(x.final_states) : x.final_states[i] # k
  BY DEF Contains
<1>6. FinalsFit(Len(x.states), new)
  <2>1. \A n \in DOMAIN new : new[n] \in 1 .. Len(x.states)
    BY <1>1, <1>2, <1>4 DEF FinalsFit
  <2>2. ASSUME NEW n \in DOMAIN new, NEW m \in DOMAIN new, new[n] = new[m] PROVE n = m
    BY <1>1, <1>2, <1>4, <1>5, <2>2 DEF FinalsFit, IsInjective
  <2> QED
    BY <2>1, <2>2 DEF FinalsFit, IsInjective
<1>7. BoxFits(r, y)
  BY <1>3, <1>6 DEF BoxFits
<1>8. ToSet(new) = ToSet(x.final_states) \cup {k}
  <2>1. ASSUME NEW e \in ToSet(new) PROVE e \in ToSet(x.final_states) \cup {k}
    BY <1>1, <1>2 DEF ToSet
  <2>2. ASSUME NEW e \in ToSet(x.final_states) \cup {k} PROVE e \in ToSet(new)
    <3>1. CASE e = k
      <4>1. Len(x.final_states) + 1 \in DOMAIN new
        BY <1>1, <1>2
      <4> QED
        BY <1>1, <3>1, <4>1 DEF ToSet
    <3>2. CASE e \in ToSet(x.final_states)
      <4>1. PICK i \in 1 .. Len(x.final_states) : e = x.final_states[i]
        BY <1>2, <3>2 DEF ToSet
      <4>2. i \in DOMAIN new
        BY <1>1, <1>2
      <4> QED
        BY <1>1, <4>1, <4>2 DEF ToSet
    <3> QED
      BY <3>1, <3>2
  <2> QED
    BY <2>1, <2>2
<1>9. SpelledFinals(y) = SpelledFinals(x) \cup {x.states[k].label}
  <2>1. SpelledFinals(y) = {x.states[s].label : s \in ToSet(x.final_states) \cup {k}}
    BY <1>3, <1>8 DEF SpelledFinals
  <2> QED
    BY <2>1 DEF SpelledFinals
<1> QED
  BY <1>3, <1>7, <1>9

\* A box with one transition more, the first of its state and label.
LEMMA EdgeAdded ==
  ASSUME NEW r, NEW x \in CFG_RSM_Box, BoxFits(r, x),
         NEW e \in CFG_Edge, EdgeFits(r, Len(x.states), e),
         \A n \in DOMAIN x.edges : ~SameKey(x.edges[n], e),
         NEW y, y = [x EXCEPT !.edges = Append(x.edges, e)]
  PROVE  /\ y \in CFG_RSM_Box /\ BoxFits(r, y)
         /\ SpelledEdges(r, y) = SpelledEdges(r, x) \cup {SpelledEdge(r, x, e)}
         /\ y.states = x.states /\ y.start_state = x.start_state
         /\ y.final_states = x.final_states
<1> DEFINE new == Append(x.edges, e)
<1>1. /\ new \in Seq(CFG_Edge) /\ DOMAIN new = 1 .. Len(x.edges) + 1
      /\ \A i \in 1 .. Len(x.edges) : new[i] = x.edges[i]
      /\ new[Len(x.edges) + 1] = e
  <2>1. x.edges \in Seq(CFG_Edge)
    BY BoxParts
  <2> QED
    BY <2>1
<1>2. /\ Len(x.edges) \in Nat /\ DOMAIN x.edges = 1 .. Len(x.edges)
      /\ \A i \in 1 .. Len(x.edges) + 1 : i \in 1 .. Len(x.edges) \/ i = Len(x.edges) + 1
  BY BoxParts
<1> HIDE DEF new
<1>3. /\ y \in CFG_RSM_Box /\ y.states = x.states /\ y.edges = new
      /\ y.start_state = x.start_state /\ y.final_states = x.final_states
  BY <1>1 DEF CFG_RSM_Box, new
<1>4. EdgesFit(r, Len(x.states), x.edges)
  BY DEF BoxFits
<1>5. \A n \in DOMAIN x.edges : ~SameKey(x.edges[n], e) /\ ~SameKey(e, x.edges[n])
  BY DEF SameKey
<1>6. EdgesFit(r, Len(x.states), new)
  <2>1. \A n \in DOMAIN new : EdgeFits(r, Len(x.states), new[n])
    BY <1>1, <1>2, <1>4 DEF EdgesFit
  <2>2. ASSUME NEW n \in DOMAIN new, NEW m \in DOMAIN new, SameKey(new[n], new[m]) PROVE n = m
    BY <1>1, <1>2, <1>4, <1>5, <2>2 DEF EdgesFit
  <2> QED
    BY <2>1, <2>2 DEF EdgesFit
<1>7. BoxFits(r, y)
  BY <1>3, <1>6 DEF BoxFits
<1>8. \A d : SpelledEdge(r, y, d) = SpelledEdge(r, x, d)
  BY <1>3 DEF SpelledEdge
<1>9. ASSUME NEW d \in SpelledEdges(r, y) PROVE d \in SpelledEdges(r, x) \cup {SpelledEdge(r, x, e)}
  <2>1. PICK n \in DOMAIN new : d = SpelledEdge(r, x, new[n])
    BY <1>3, <1>8 DEF SpelledEdges
  <2> QED
    BY <1>1, <1>2, <2>1 DEF SpelledEdges
<1>10. ASSUME NEW d \in SpelledEdges(r, x) PROVE d \in SpelledEdges(r, y)
  <2>1. PICK n \in 1 .. Len(x.edges) : d = SpelledEdge(r, x, x.edges[n])
    BY <1>2 DEF SpelledEdges
  <2>2. n \in DOMAIN new /\ new[n] = x.edges[n]
    BY <1>1, <1>2
  <2> QED
    BY <1>3, <1>8, <2>1, <2>2 DEF SpelledEdges
<1>11. SpelledEdge(r, x, e) \in SpelledEdges(r, y)
  <2>1. Len(x.edges) + 1 \in DOMAIN new
    BY <1>1, <1>2
  <2> QED
    BY <1>1, <1>3, <1>8, <2>1 DEF SpelledEdges
<1> QED
  BY <1>3, <1>7, <1>9, <1>10, <1>11

\* A box with its start state.
LEMMA StartSet ==
  ASSUME NEW r, NEW x \in CFG_RSM_Box, BoxFits(r, x), NEW k \in 1 .. Len(x.states),
         NEW y, y = [x EXCEPT !.start_state = k]
  PROVE  /\ y \in CFG_RSM_Box /\ BoxFits(r, y)
         /\ SpelledStarts(y) = {x.states[k].label}
         /\ SpelledEdges(r, y) = SpelledEdges(r, x) /\ SpelledFinals(y) = SpelledFinals(x)
         /\ y.states = x.states
<1>1. k \in Nat /\ k # 0 /\ k \in 0 .. Len(x.states)
  BY BoxParts
<1>2. /\ y \in CFG_RSM_Box /\ y.states = x.states /\ y.edges = x.edges
      /\ y.start_state = k /\ y.final_states = x.final_states
  BY <1>1 DEF CFG_RSM_Box
<1>3. BoxFits(r, y)
  BY <1>1, <1>2 DEF BoxFits
<1>4. \A d : SpelledEdge(r, y, d) = SpelledEdge(r, x, d)
  BY <1>2 DEF SpelledEdge
<1> QED
  BY <1>1, <1>2, <1>3, <1>4 DEF SpelledEdges, SpelledFinals, SpelledStarts

-----------------------------------------------------------------------------
(* More terminals *)

\* Terminals are added behind those there are.
TermsGrow(r, s) ==
  /\ s.nonterms = r.nonterms
  /\ Len(r.terms) <= Len(s.terms) /\ \A t \in 1 .. Len(r.terms) : s.terms[t] = r.terms[t]

\* A box says the same to a machine with more terminals.
LEMMA SameWithMoreTerms ==
  ASSUME NEW r, MachineFits(r), NEW s, TermsGrow(r, s), Len(s.terms) \in Nat,
         NEW x \in CFG_RSM_Box, BoxFits(r, x)
  PROVE  BoxFits(s, x) /\ SpelledEdges(s, x) = SpelledEdges(r, x)
<1>1. Len(r.terms) \in Nat
  BY Parts
<1>2. ASSUME NEW n \in DOMAIN x.edges
      PROVE  /\ EdgeFits(s, Len(x.states), x.edges[n])
             /\ EdgeLabel(s, x.edges[n]) = EdgeLabel(r, x.edges[n])
  <2>1. EdgeFits(r, Len(x.states), x.edges[n])
    BY DEF BoxFits, EdgesFit
  <2>2. CASE x.edges[n].is_term
    <3>1. x.edges[n].label \in 1 .. Len(r.terms)
      BY <2>1, <2>2 DEF EdgeFits
    <3>2. x.edges[n].label \in 1 .. Len(s.terms) /\ s.terms[x.edges[n].label] = r.terms[x.edges[n].label]
      BY <1>1, <3>1 DEF TermsGrow
    <3> QED
      BY <2>1, <2>2, <3>2 DEF EdgeFits, EdgeLabel
  <2>3. CASE ~x.edges[n].is_term
    BY <2>1, <2>3 DEF EdgeFits, EdgeLabel, TermsGrow
  <2> QED
    BY <2>2, <2>3
<1>3. BoxFits(s, x)
  BY <1>2 DEF BoxFits, EdgesFit
<1>4. \A n \in DOMAIN x.edges : SpelledEdge(s, x, x.edges[n]) = SpelledEdge(r, x, x.edges[n])
  BY <1>2 DEF SpelledEdge
<1> QED
  BY <1>3, <1>4 DEF SpelledEdges

\* rsm_add_term of a label that neither list has.
LEMMA TermAdded ==
  ASSUME NEW r, MachineFits(r), NEW label \in LabelRecord,
         label \notin LabelsOf(r.terms), label \notin LabelsOf(r.nonterms),
         NEW s, s = rsm_add_term(r, label)
  PROVE  /\ MachineFits(s) /\ TermsGrow(r, s) /\ s.boxes = r.boxes
         /\ s.status = r.status /\ s.start_nonterm = r.start_nonterm
         /\ label \in LabelsOf(s.terms)
<1> DEFINE new == symbol_list_add_str(r.terms, label, FALSE)
<1>1. /\ Listed(new) /\ DistinctLabels(new) /\ Len(new) = Len(r.terms) + 1
      /\ \A i \in 1 .. Len(r.terms) : new[i] = r.terms[i]
      /\ LabelsOf(new) = LabelsOf(r.terms) \cup {label}
  <2>1. Listed(r.terms) /\ DistinctLabels(r.terms) /\ FALSE \in BOOLEAN
    BY Parts DEF MachineFits
  <2> QED
    BY <2>1, NewLabel, Zenon
<1>2. s = [r EXCEPT !.terms = new]
  BY Parts, IndexOf DEF rsm_add_term, Checked
<1> HIDE DEF new
<1>3. /\ s \in CFG_RSM /\ s.terms = new /\ s.nonterms = r.nonterms /\ s.boxes = r.boxes
      /\ s.status = r.status /\ s.start_nonterm = r.start_nonterm
      /\ s.with_intial_terms = r.with_intial_terms
  BY <1>1, <1>2 DEF MachineFits, CFG_RSM, Listed
<1>4. Len(r.terms) \in Nat /\ Len(new) \in Nat
  BY <1>1, Parts
<1>5. TermsGrow(r, s)
  BY <1>1, <1>3, <1>4 DEF TermsGrow
<1>6. ASSUME NEW b \in DOMAIN s.boxes PROVE BoxFits(s, s.boxes[b])
  <2>0. b \in DOMAIN r.boxes
    BY <1>3
  <2>1. r.boxes[b] \in CFG_RSM_Box /\ BoxFits(r, r.boxes[b])
    <3>1. r.boxes \in Seq(CFG_RSM_Box)
      BY Parts
    <3>2. r.boxes[b] \in CFG_RSM_Box
      BY <2>0, <3>1
    <3> QED
      BY <2>0, <3>2 DEF MachineFits
  <2> QED
    BY <1>3, <1>4, <1>5, <2>1, SameWithMoreTerms
<1>7. MachineFits(s)
  BY <1>1, <1>3, <1>6 DEF MachineFits
<1> QED
  BY <1>1, <1>3, <1>5, <1>7

-----------------------------------------------------------------------------
(* The current box *)

\* The number of the current box.
Cur(r) == Index(r.nonterms, box)

\* Machine s says in the current box what r says and the transitions, states
\* and final states given; the other boxes are the same.
Adds(r, s, edges, states, finals) ==
  /\ MachineFits(s) /\ TermsGrow(r, s) /\ s.start_nonterm = r.start_nonterm
  /\ \A b \in DOMAIN r.boxes : b # Cur(r) => s.boxes[b] = r.boxes[b]
  /\ SpelledEdges(s, s.boxes[Cur(r)]) = SpelledEdges(r, r.boxes[Cur(r)]) \cup edges
  /\ LabelsOf(s.boxes[Cur(r)].states) = LabelsOf(r.boxes[Cur(r)].states) \cup states
  /\ SpelledFinals(s.boxes[Cur(r)]) = SpelledFinals(r.boxes[Cur(r)]) \cup finals
  /\ SpelledStarts(s.boxes[Cur(r)]) = SpelledStarts(r.boxes[Cur(r)])

\* No step adds nothing.
LEMMA AddsNothing ==
  ASSUME NEW r, MachineFits(r)
  PROVE  Adds(r, r, {}, {}, {})
<1>1. Len(r.terms) <= Len(r.terms)
  BY Parts
<1> QED
  BY <1>1 DEF Adds, TermsGrow

\* Two steps in a row add what each adds.
LEMMA AddsBoth ==
  ASSUME NEW r, NEW s, NEW t, NEW E1, NEW S1, NEW F1, NEW E2, NEW S2, NEW F2,
         MachineFits(r), Adds(r, s, E1, S1, F1), Adds(s, t, E2, S2, F2)
  PROVE  Adds(r, t, E1 \cup E2, S1 \cup S2, F1 \cup F2)
<1>1. MachineFits(s) /\ MachineFits(t)
  BY DEF Adds
<1>2. Len(r.terms) \in Nat /\ Len(s.terms) \in Nat /\ Len(t.terms) \in Nat
  BY <1>1, Parts
<1>3. s.nonterms = r.nonterms /\ Cur(s) = Cur(r)
  BY DEF Adds, TermsGrow, Cur
<1>4. DOMAIN s.boxes = DOMAIN r.boxes
  <2>1. DOMAIN s.boxes = 1 .. Len(s.boxes) /\ Len(s.boxes) = Len(s.nonterms)
    BY <1>1, Parts
  <2>2. DOMAIN r.boxes = 1 .. Len(r.boxes) /\ Len(r.boxes) = Len(r.nonterms)
    BY Parts
  <2> QED
    BY <1>3, <2>1, <2>2
<1>5. TermsGrow(r, t)
  BY <1>2 DEF Adds, TermsGrow
<1>6. \A b \in DOMAIN r.boxes : b # Cur(r) => t.boxes[b] = r.boxes[b]
  BY <1>3, <1>4 DEF Adds
<1>7. /\ SpelledEdges(t, t.boxes[Cur(r)]) = SpelledEdges(r, r.boxes[Cur(r)]) \cup (E1 \cup E2)
      /\ LabelsOf(t.boxes[Cur(r)].states) = LabelsOf(r.boxes[Cur(r)].states) \cup (S1 \cup S2)
      /\ SpelledFinals(t.boxes[Cur(r)]) = SpelledFinals(r.boxes[Cur(r)]) \cup (F1 \cup F2)
      /\ SpelledStarts(t.boxes[Cur(r)]) = SpelledStarts(r.boxes[Cur(r)])
  BY <1>3 DEF Adds
<1>8. t.start_nonterm = r.start_nonterm
  BY DEF Adds
<1> QED
  BY <1>1, <1>5, <1>6, <1>7, <1>8 DEF Adds

\* The current box is one of the machine.
LEMMA Current ==
  ASSUME NEW r, MachineFits(r), box \in LabelsOf(r.nonterms)
  PROVE  /\ Has(r.nonterms, box) /\ Cur(r) \in DOMAIN r.boxes
         /\ rsm_get_box(r, box) = r.boxes[Cur(r)]
         /\ r.boxes[Cur(r)] \in CFG_RSM_Box /\ BoxFits(r, r.boxes[Cur(r)])
         /\ r.nonterms[Cur(r)].label = box
<1>1. Has(r.nonterms, box) /\ Cur(r) \in DOMAIN r.boxes /\ r.nonterms[Cur(r)].label = box
  BY Parts, IndexOf DEF Cur
<1>2. rsm_get_box(r, box) = r.boxes[Cur(r)]
  BY DEF rsm_get_box, Cur
<1>3. r.boxes[Cur(r)] \in CFG_RSM_Box
  BY <1>1, Parts
<1> QED
  BY <1>1, <1>2, <1>3 DEF MachineFits

\* A change of the current box alone.
LEMMA CurrentChanged ==
  ASSUME NEW r, MachineFits(r), box \in LabelsOf(r.nonterms),
         NEW y \in CFG_RSM_Box, BoxFits(r, y), NEW E, NEW S, NEW F,
         SpelledEdges(r, y) = SpelledEdges(r, r.boxes[Cur(r)]) \cup E,
         LabelsOf(y.states) = LabelsOf(r.boxes[Cur(r)].states) \cup S,
         SpelledFinals(y) = SpelledFinals(r.boxes[Cur(r)]) \cup F,
         SpelledStarts(y) = SpelledStarts(r.boxes[Cur(r)])
  PROVE  Adds(r, WithBox(r, Cur(r), y), E, S, F)
<1> DEFINE s == WithBox(r, Cur(r), y)
<1>1. Cur(r) \in DOMAIN r.boxes
  BY Current
<1>2. /\ MachineFits(s) /\ s.nonterms = r.nonterms /\ s.terms = r.terms
      /\ s.start_nonterm = r.start_nonterm /\ s.boxes[Cur(r)] = y
      /\ \A b \in DOMAIN r.boxes : b # Cur(r) => s.boxes[b] = r.boxes[b]
  BY <1>1, WithBoxFits
<1> HIDE DEF s
<1>3. Len(r.terms) <= Len(r.terms)
  BY Parts
<1>4. SpelledEdges(s, y) = SpelledEdges(r, y)
  BY <1>2 DEF SpelledEdges, SpelledEdge, EdgeLabel
<1> QED
  BY <1>2, <1>3, <1>4 DEF Adds, TermsGrow, s

\* ensure_state adds the state unless the box has it.
LEMMA EnsureState ==
  ASSUME NEW r, MachineFits(r), box \in LabelsOf(r.nonterms), NEW st \in LabelRecord
  PROVE  Adds(r, ensure_state(r, st), {}, {st}, {}) /\ ensure_state(r, st).status = r.status
<1> DEFINE x == r.boxes[Cur(r)]
<1>1. /\ Has(r.nonterms, box) /\ Cur(r) \in DOMAIN r.boxes /\ rsm_get_box(r, box) = x
      /\ x \in CFG_RSM_Box /\ BoxFits(r, x)
  BY Current
<1>2. Has(x.states, st) <=> st \in LabelsOf(x.states)
  BY <1>1, BoxParts, IndexOf
<1> HIDE DEF x
<1>3. CASE st \in LabelsOf(x.states)
  <2>1. ensure_state(r, st) = r
    BY <1>1, <1>2, <1>3 DEF ensure_state
  <2>2. Adds(r, r, {}, {}, {})
    BY AddsNothing
  <2>3. LabelsOf(x.states) = LabelsOf(x.states) \cup {st}
    BY <1>3
  <2>4. Adds(r, r, {}, {st}, {})
    BY <2>2, <2>3 DEF Adds, x
  <2> QED
    BY <2>1, <2>4
<1>4. CASE st \notin LabelsOf(x.states)
  <2> DEFINE y == WithState(x, st)
  <2>1. ensure_state(r, st) = WithBox(r, Cur(r), y)
    BY <1>1, <1>2, <1>4 DEF ensure_state, rsm_add_state, InBox, WithBox, Cur, x, WithState
  <2>2. /\ y \in CFG_RSM_Box /\ BoxFits(r, y)
        /\ LabelsOf(y.states) = LabelsOf(x.states) \cup {st}
        /\ SpelledEdges(r, y) = SpelledEdges(r, x) /\ SpelledFinals(y) = SpelledFinals(x)
        /\ SpelledStarts(y) = SpelledStarts(x)
    BY <1>1, <1>4, StateAdded
  <2> HIDE DEF y
  <2>3. Adds(r, WithBox(r, Cur(r), y), {}, {st}, {})
    BY <2>2, CurrentChanged DEF x
  <2>4. WithBox(r, Cur(r), y).status = r.status
    BY <1>1, <2>2, WithBoxFits
  <2> QED
    BY <2>1, <2>3, <2>4
<1> QED
  BY <1>3, <1>4

\* add_final_state adds the state, and to the final states, what is not there.
LEMMA AddFinalState ==
  ASSUME NEW r, MachineFits(r), box \in LabelsOf(r.nonterms), NEW st \in LabelRecord
  PROVE  Adds(r, add_final_state(r, st), {}, {st}, {st}) /\ add_final_state(r, st).status = r.status
<1> DEFINE s == ensure_state(r, st)
<1>1. Adds(r, s, {}, {st}, {}) /\ s.status = r.status
  BY EnsureState
<1> HIDE DEF s
<1>2. MachineFits(s) /\ box \in LabelsOf(s.nonterms) /\ Cur(s) = Cur(r)
  BY <1>1 DEF Adds, TermsGrow, Cur
<1> DEFINE x == s.boxes[Cur(s)]
           k == Index(x.states, st)
<1>3. /\ Has(s.nonterms, box) /\ Cur(s) \in DOMAIN s.boxes /\ rsm_get_box(s, box) = x
      /\ x \in CFG_RSM_Box /\ BoxFits(s, x)
  BY <1>2, Current
<1>4. st \in LabelsOf(x.states)
  BY <1>1, <1>2 DEF Adds
<1>5. Has(x.states, st) /\ k \in 1 .. Len(x.states) /\ x.states[k].label = st
  BY <1>3, <1>4, BoxParts, IndexOf
<1> HIDE DEF x, k
<1>6. CASE Contains(x.final_states, k)
  <2>1. add_final_state(r, st) = s
    BY <1>3, <1>6 DEF add_final_state, s, k
  <2>2. st \in SpelledFinals(x)
    <3>1. PICK i \in 1 .. Len(x.final_states) : x.final_states[i] = k
      BY <1>6 DEF Contains
    <3>2. k \in ToSet(x.final_states)
      BY <1>3, <3>1, BoxParts DEF ToSet
    <3> QED
      BY <1>5, <3>2 DEF SpelledFinals
  <2>3. Adds(s, s, {}, {}, {})
    BY <1>2, AddsNothing
  <2>4. SpelledFinals(x) = SpelledFinals(x) \cup {st}
    BY <2>2
  <2>5. Adds(s, s, {}, {}, {st})
    BY <2>3, <2>4 DEF Adds, x
  <2>6. Adds(r, s, {} \cup {}, {st} \cup {}, {} \cup {st})
    BY <1>1, <2>5, AddsBoth
  <2> QED
    BY <1>1, <2>1, <2>6
<1>7. CASE ~Contains(x.final_states, k)
  <2> DEFINE y == [x EXCEPT !.final_states = Append(x.final_states, k)]
  <2>1. add_final_state(r, st) = rsm_add_final_state(s, box, st)
    BY <1>3, <1>7 DEF add_final_state, s, k
  <2>2. rsm_add_final_state(s, box, st) = WithBox(s, Cur(s), y)
    BY <1>3, <1>5, <1>7 DEF rsm_add_final_state, InBox, WithBox, Cur, x, k
  <2>3. /\ y \in CFG_RSM_Box /\ BoxFits(s, y)
        /\ SpelledFinals(y) = SpelledFinals(x) \cup {st}
        /\ y.states = x.states /\ y.start_state = x.start_state /\ y.edges = x.edges
    BY <1>3, <1>5, <1>7, FinalAdded
  <2> HIDE DEF y
  <2>4. SpelledEdges(s, y) = SpelledEdges(s, x) /\ SpelledStarts(y) = SpelledStarts(x)
    BY <2>3 DEF SpelledEdges, SpelledEdge, SpelledStarts
  <2>5. Adds(s, WithBox(s, Cur(s), y), {}, {}, {st})
    BY <1>2, <2>3, <2>4, CurrentChanged DEF x
  <2>6. WithBox(s, Cur(s), y).status = s.status
    BY <1>2, <1>3, <2>3, WithBoxFits
  <2>7. Adds(r, WithBox(s, Cur(s), y), {} \cup {}, {st} \cup {}, {} \cup {st})
    BY <1>1, <2>5, AddsBoth
  <2> QED
    BY <1>1, <2>1, <2>2, <2>6, <2>7
<1> QED
  BY <1>6, <1>7

\* The label of a transition is a terminal unless it names a box.
LEMMA WithLabelAdds ==
  ASSUME NEW r, MachineFits(r), box \in LabelsOf(r.nonterms), NEW label \in LabelRecord
  PROVE  /\ Adds(r, WithLabel(r, label), {}, {}, {}) /\ WithLabel(r, label).status = r.status
         /\ label \in LabelsOf(WithLabel(r, label).nonterms) \cup LabelsOf(WithLabel(r, label).terms)
<1>1. /\ Has(r.nonterms, label) <=> label \in LabelsOf(r.nonterms)
      /\ Has(r.terms, label) <=> label \in LabelsOf(r.terms)
  BY Parts, IndexOf
<1>2. CASE Has(r.nonterms, label) \/ Has(r.terms, label)
  <2>1. WithLabel(r, label) = r
    BY <1>2 DEF WithLabel
  <2> QED
    BY <1>1, <1>2, <2>1, AddsNothing
<1>3. CASE ~(Has(r.nonterms, label) \/ Has(r.terms, label))
  <2> DEFINE s == rsm_add_term(r, label)
  <2>1. WithLabel(r, label) = s
    BY <1>3 DEF WithLabel
  <2>2. /\ MachineFits(s) /\ TermsGrow(r, s) /\ s.boxes = r.boxes
        /\ s.status = r.status /\ s.start_nonterm = r.start_nonterm
        /\ label \in LabelsOf(s.terms)
    BY <1>1, <1>3, TermAdded
  <2> HIDE DEF s
  <2>3. r.boxes[Cur(r)] \in CFG_RSM_Box /\ BoxFits(r, r.boxes[Cur(r)])
    BY Current
  <2>4. Len(s.terms) \in Nat
    BY <2>2, Parts
  <2>5. SpelledEdges(s, r.boxes[Cur(r)]) = SpelledEdges(r, r.boxes[Cur(r)])
    BY <2>2, <2>3, <2>4, SameWithMoreTerms
  <2>6. Adds(r, s, {}, {}, {})
    BY <2>2, <2>5 DEF Adds
  <2> QED
    BY <2>1, <2>2, <2>6
<1> QED
  BY <1>2, <1>3

\* A transition between two states of the box with a label of the machine.
IsEdge(r, x, from, to, label, e) ==
  /\ e \in CFG_Edge /\ EdgeFits(r, Len(x.states), e)
  /\ e.start = Index(x.states, from) /\ e.end = Index(x.states, to)
  /\ e.is_term = TRUE <=> label \in LabelsOf(r.terms)
  /\ e.is_term = TRUE <=> label \notin LabelsOf(r.nonterms)
  /\ e.label = Index(IF label \in LabelsOf(r.terms) THEN r.terms ELSE r.nonterms, label)
  /\ SpelledEdge(r, x, e) = <<from, label, to>>

\* The transition rsm_add_edge makes.
LEMMA NewEdge ==
  ASSUME NEW r, MachineFits(r), NEW x \in CFG_RSM_Box, BoxFits(r, x),
         NEW from, from \in LabelsOf(x.states), NEW to, to \in LabelsOf(x.states),
         NEW label, label \in LabelsOf(r.nonterms) \cup LabelsOf(r.terms)
  PROVE  IsEdge(r, x, from, to, label, EdgeFor(r, x, from, to, label))
<1> DEFINE e == EdgeFor(r, x, from, to, label)
<1>1. /\ Has(r.terms, label) <=> label \in LabelsOf(r.terms)
      /\ Has(r.nonterms, label) <=> label \in LabelsOf(r.nonterms)
      /\ label \in LabelsOf(r.terms) =>
           Index(r.terms, label) \in 1 .. Len(r.terms) /\ r.terms[Index(r.terms, label)].label = label
      /\ label \in LabelsOf(r.nonterms) =>
           /\ Index(r.nonterms, label) \in 1 .. Len(r.nonterms)
           /\ r.nonterms[Index(r.nonterms, label)].label = label
  BY Parts, IndexOf
<1>2. /\ Index(x.states, from) \in 1 .. Len(x.states) /\ x.states[Index(x.states, from)].label = from
      /\ Index(x.states, to) \in 1 .. Len(x.states) /\ x.states[Index(x.states, to)].label = to
  BY BoxParts, IndexOf
<1>3. label \in LabelsOf(r.terms) <=> label \notin LabelsOf(r.nonterms)
  BY DEF MachineFits
<1>4. Len(x.states) \in Nat /\ Len(r.terms) \in Nat /\ Len(r.nonterms) \in Nat
  BY Parts, BoxParts
<1> HIDE DEF Has, Index, e
<1>5. CASE label \in LabelsOf(r.terms)
  <2>1. e = [start |-> Index(x.states, from), end |-> Index(x.states, to), is_term |-> TRUE,
             label |-> Index(r.terms, label)]
    BY <1>1, <1>5 DEF EdgeFor, e
  <2>2. e \in CFG_Edge
    BY <1>1, <1>2, <1>4, <1>5, <2>1 DEF CFG_Edge
  <2>3. /\ e.start = Index(x.states, from) /\ e.end = Index(x.states, to) /\ e.is_term = TRUE
        /\ e.label = Index(r.terms, label)
    BY <2>1
  <2>4. EdgeFits(r, Len(x.states), e)
    BY <1>1, <1>2, <1>5, <2>3 DEF EdgeFits
  <2>5. SpelledEdge(r, x, e) = <<from, label, to>>
    BY <1>1, <1>2, <1>5, <2>3 DEF SpelledEdge, EdgeLabel
  <2> QED
    BY <1>3, <1>5, <2>2, <2>3, <2>4, <2>5 DEF IsEdge, e
<1>6. CASE label \notin LabelsOf(r.terms)
  <2>1. e = [start |-> Index(x.states, from), end |-> Index(x.states, to), is_term |-> FALSE,
             label |-> Index(r.nonterms, label)]
    <3>1. Has(r.terms, label) = FALSE
      BY <1>1, <1>6 DEF Has
    <3> QED
      BY <3>1 DEF EdgeFor, e
  <2>2. e \in CFG_Edge
    BY <1>1, <1>2, <1>3, <1>4, <1>6, <2>1 DEF CFG_Edge
  <2>3. /\ e.start = Index(x.states, from) /\ e.end = Index(x.states, to) /\ e.is_term = FALSE
        /\ e.label = Index(r.nonterms, label)
    BY <2>1
  <2>4. EdgeFits(r, Len(x.states), e)
    BY <1>1, <1>2, <1>3, <1>6, <2>3 DEF EdgeFits
  <2>5. SpelledEdge(r, x, e) = <<from, label, to>>
    BY <1>1, <1>2, <1>3, <1>6, <2>3 DEF SpelledEdge, EdgeLabel
  <2> QED
    BY <1>3, <1>6, <2>2, <2>3, <2>4, <2>5 DEF IsEdge, e
<1> QED
  BY <1>5, <1>6

\* A transition of the box has the state and the label of the new one exactly
\* when it spells them.
LEMMA SameKeySpells ==
  ASSUME NEW r, MachineFits(r), NEW x \in CFG_RSM_Box, BoxFits(r, x),
         NEW from, from \in LabelsOf(x.states), NEW to, to \in LabelsOf(x.states),
         NEW label, label \in LabelsOf(r.nonterms) \cup LabelsOf(r.terms),
         NEW e, IsEdge(r, x, from, to, label, e), NEW n \in DOMAIN x.edges
  PROVE  SameKey(x.edges[n], e) <=>
           SpelledEdge(r, x, x.edges[n])[1] = from /\ SpelledEdge(r, x, x.edges[n])[2] = label
<1> DEFINE d == x.edges[n]
<1>1. /\ e \in CFG_Edge /\ EdgeFits(r, Len(x.states), e)
      /\ e.start = Index(x.states, from)
      /\ e.is_term = TRUE <=> label \in LabelsOf(r.terms)
      /\ e.is_term = TRUE <=> label \notin LabelsOf(r.nonterms)
      /\ e.label = Index(IF label \in LabelsOf(r.terms) THEN r.terms ELSE r.nonterms, label)
      /\ SpelledEdge(r, x, e) = <<from, label, to>>
  BY DEF IsEdge
<1>2. EdgeFits(r, Len(x.states), d) /\ d.is_term \in BOOLEAN
  BY BoxParts DEF BoxFits, EdgesFit
<1>3. e.is_term \in BOOLEAN
  BY <1>1 DEF CFG_Edge
<1> HIDE DEF d
<1>4. x.states[e.start].label = from /\ EdgeLabel(r, e) = label
  BY <1>1 DEF SpelledEdge
<1>5. ASSUME SameKey(d, e)
      PROVE  x.states[d.start].label = from /\ EdgeLabel(r, d) = label
  BY <1>4, <1>5 DEF SameKey, EdgeLabel
<1>6. ASSUME x.states[d.start].label = from, EdgeLabel(r, d) = label
      PROVE  SameKey(d, e)
  <2>1. d.start = e.start
    <3>1. d.start \in 1 .. Len(x.states) /\ DistinctLabels(x.states) /\ Listed(x.states)
      BY <1>2, BoxParts DEF EdgeFits, BoxFits
    <3> QED
      BY <1>1, <1>6, <3>1, IndexOf
  <2>2. CASE d.is_term = TRUE
    <3>1. d.label \in 1 .. Len(r.terms) /\ r.terms[d.label].label = label
      BY <1>2, <1>6, <2>2 DEF EdgeFits, EdgeLabel
    <3>2. Listed(r.terms) /\ DistinctLabels(r.terms) /\ DOMAIN r.terms = 1 .. Len(r.terms)
      BY Parts DEF MachineFits
    <3>3. label \in LabelsOf(r.terms)
      BY <3>1, <3>2 DEF LabelsOf
    <3>4. d.label = Index(r.terms, label)
      BY <3>1, <3>2, <3>3, IndexOf
    <3> QED
      BY <1>1, <2>1, <2>2, <3>3, <3>4 DEF SameKey
  <2>3. CASE d.is_term = FALSE
    <3>1. d.label \in 1 .. Len(r.nonterms) /\ r.nonterms[d.label].label = label
      BY <1>2, <1>6, <2>3 DEF EdgeFits, EdgeLabel
    <3>2. Listed(r.nonterms) /\ DistinctLabels(r.nonterms) /\ DOMAIN r.nonterms = 1 .. Len(r.nonterms)
      BY Parts DEF MachineFits
    <3>3. label \in LabelsOf(r.nonterms)
      BY <3>1, <3>2 DEF LabelsOf
    <3>4. d.label = Index(r.nonterms, label)
      BY <3>1, <3>2, <3>3, IndexOf
    <3>5. e.is_term = FALSE /\ e.label = d.label
      BY <1>1, <1>3, <3>3, <3>4
    <3> QED
      BY <2>1, <2>3, <3>5 DEF SameKey
  <2> QED
    BY <1>2, <2>2, <2>3
<1>7. /\ SpelledEdge(r, x, d)[1] = x.states[d.start].label
      /\ SpelledEdge(r, x, d)[2] = EdgeLabel(r, d)
  BY DEF SpelledEdge
<1> QED
  BY <1>5, <1>6, <1>7 DEF d

\* The transitions of a box that leave a state with a label.
KeyIn(r, from, label) ==
  \E d \in SpelledEdges(r, r.boxes[Cur(r)]) : d[1] = from /\ d[2] = label

\* add_transition adds a transition, or rejects the second of a state and label.
LEMMA AddTransition ==
  ASSUME NEW r, MachineFits(r), r.status = "ok", box \in LabelsOf(r.nonterms),
         NEW from \in LabelRecord, NEW label \in LabelRecord, NEW to \in LabelRecord,
         NEW s, s = add_transition(r, from, label, to)
  PROVE  \/ /\ s.status = "ok" /\ ~KeyIn(r, from, label)
            /\ Adds(r, s, {<<from, label, to>>}, {from, to}, {})
         \/ s.status = "rejected" /\ KeyIn(r, from, label) /\ MachineFits(s)
<1> DEFINE q0 == WithLabel(r, label)
           q1 == ensure_state(q0, from)
           q == ensure_state(q1, to)
<1>1. /\ Adds(r, q0, {}, {}, {}) /\ q0.status = "ok"
      /\ label \in LabelsOf(q0.nonterms) \cup LabelsOf(q0.terms)
  BY WithLabelAdds
<1> HIDE DEF q0
<1>2. MachineFits(q0) /\ q0.nonterms = r.nonterms
  BY <1>1 DEF Adds, TermsGrow
<1>3. Adds(q0, q1, {}, {from}, {}) /\ q1.status = "ok"
  BY <1>1, <1>2, EnsureState
<1> HIDE DEF q1
<1>4. MachineFits(q1) /\ q1.nonterms = r.nonterms
  BY <1>2, <1>3 DEF Adds, TermsGrow
<1>5. Adds(q1, q, {}, {to}, {}) /\ q.status = "ok"
  BY <1>3, <1>4, EnsureState
<1> HIDE DEF q
<1>6. MachineFits(q) /\ q.nonterms = r.nonterms /\ Cur(q) = Cur(r)
  BY <1>4, <1>5 DEF Adds, TermsGrow, Cur
<1>7. Adds(q0, q, {} \cup {}, {from} \cup {to}, {} \cup {})
  BY <1>2, <1>3, <1>5, AddsBoth
<1>8. Adds(r, q, {} \cup ({} \cup {}), {} \cup ({from} \cup {to}), {} \cup ({} \cup {}))
  BY <1>1, <1>7, AddsBoth
<1>9. Adds(r, q, {}, {from, to}, {})
  <2>1. {} \cup ({} \cup {}) = {} /\ {} \cup ({from} \cup {to}) = {from, to}
    OBVIOUS
  <2> QED
    BY <1>8, <2>1
<1> DEFINE x == q.boxes[Cur(q)]
           e == EdgeFor(q, x, from, to, label)
<1>10. /\ Has(q.nonterms, box) /\ Cur(q) \in DOMAIN q.boxes /\ rsm_get_box(q, box) = x
       /\ x \in CFG_RSM_Box /\ BoxFits(q, x)
  BY <1>6, Current
<1>11. from \in LabelsOf(x.states) /\ to \in LabelsOf(x.states)
  BY <1>6, <1>9 DEF Adds
<1>12. label \in LabelsOf(q.nonterms) \cup LabelsOf(q.terms)
  <2>1. CASE label \in LabelsOf(q0.nonterms)
    BY <1>2, <1>6, <2>1
  <2>2. CASE label \in LabelsOf(q0.terms)
    <3>1. DOMAIN q0.terms = 1 .. Len(q0.terms) /\ DOMAIN q.terms = 1 .. Len(q.terms)
      BY <1>2, <1>6, Parts
    <3>2. Len(q0.terms) \in Nat /\ Len(q.terms) \in Nat
      BY <1>2, <1>6, Parts
    <3>3. Len(q0.terms) <= Len(q.terms) /\ \A t \in 1 .. Len(q0.terms) : q.terms[t] = q0.terms[t]
      BY <1>7 DEF Adds, TermsGrow
    <3> QED
      BY <2>2, <3>1, <3>2, <3>3 DEF LabelsOf
  <2> QED
    BY <1>1, <2>1, <2>2
<1>13. SpelledEdges(q, x) = SpelledEdges(r, r.boxes[Cur(r)])
  BY <1>6, <1>9 DEF Adds
<1>14. s = IF Repeats(q, from, label) THEN [q EXCEPT !.status = "rejected"]
           ELSE rsm_add_edge(q, box, from, to, label)
  BY DEF add_transition, q, q1, q0
<1> HIDE DEF x
<1>22. IsEdge(q, x, from, to, label, e)
  BY <1>6, <1>10, <1>11, <1>12, NewEdge
<1>15. /\ e \in CFG_Edge /\ EdgeFits(q, Len(x.states), e)
       /\ e.start = Index(x.states, from) /\ e.end = Index(x.states, to)
       /\ e.is_term = TRUE <=> label \in LabelsOf(q.terms)
       /\ e.is_term = TRUE <=> label \notin LabelsOf(q.nonterms)
       /\ e.label = Index(IF label \in LabelsOf(q.terms) THEN q.terms ELSE q.nonterms, label)
       /\ SpelledEdge(q, x, e) = <<from, label, to>>
  BY <1>22 DEF IsEdge
<1>16. \A n \in DOMAIN x.edges :
         SameKey(x.edges[n], e) <=>
           SpelledEdge(q, x, x.edges[n])[1] = from /\ SpelledEdge(q, x, x.edges[n])[2] = label
  <2> HIDE DEF e
  <2> QED
    BY <1>6, <1>10, <1>11, <1>12, <1>22, SameKeySpells
<1>17. KeyIn(r, from, label) <=> \E n \in DOMAIN x.edges : SameKey(x.edges[n], e)
  BY <1>13, <1>16 DEF KeyIn, SpelledEdges
<1>18. /\ Has(q.nonterms, label) <=> label \in LabelsOf(q.nonterms)
       /\ Has(q.terms, label) <=> label \in LabelsOf(q.terms)
       /\ Has(x.states, from) /\ Has(x.states, to)
  BY <1>6, <1>10, <1>11, Parts, BoxParts, IndexOf
<1>19. Repeats(q, from, label) <=> \E n \in DOMAIN x.edges : SameKey(x.edges[n], e)
  <2>1. ASSUME NEW n \in DOMAIN x.edges
        PROVE  (x.edges[n].is_term = ~Has(q.nonterms, label)) <=> x.edges[n].is_term = e.is_term
    <3>1. x.edges[n].is_term \in BOOLEAN /\ e.is_term \in BOOLEAN
      BY <1>10, <1>15, BoxParts DEF CFG_Edge
    <3>2. e.is_term = TRUE <=> ~Has(q.nonterms, label)
      BY <1>15, <1>18
    <3> QED
      BY <3>1, <3>2
  <2>2. e.label = Index(IF Has(q.nonterms, label) THEN q.nonterms ELSE q.terms, label)
    BY <1>15, <1>18
  <2> HIDE DEF e
  <2>3. \A n \in DOMAIN x.edges :
          SameKey(x.edges[n], e) <=>
            /\ x.edges[n].start = Index(x.states, from)
            /\ x.edges[n].label = Index(IF Has(q.nonterms, label) THEN q.nonterms ELSE q.terms, label)
            /\ x.edges[n].is_term = ~Has(q.nonterms, label)
    BY <1>15, <2>1, <2>2 DEF SameKey
  <2> QED
    BY <1>10, <2>3 DEF Repeats
<1>20. CASE Repeats(q, from, label)
  <2>1. s = [q EXCEPT !.status = "rejected"]
    BY <1>14, <1>20
  <2>2. q \in CFG_RSM
    BY <1>6 DEF MachineFits
  <2>3. /\ s \in CFG_RSM /\ s.status = "rejected" /\ s.boxes = q.boxes /\ s.nonterms = q.nonterms
        /\ s.terms = q.terms /\ s.with_intial_terms = q.with_intial_terms
    BY <2>1, <2>2 DEF CFG_RSM
  <2>4. \A b \in DOMAIN s.boxes : BoxFits(s, s.boxes[b])
    BY <1>6, <2>3 DEF MachineFits, BoxFits, EdgesFit, EdgeFits
  <2>5. MachineFits(s)
    BY <1>6, <2>3, <2>4 DEF MachineFits
  <2> QED
    BY <1>17, <1>19, <1>20, <2>3, <2>5
<1>21. CASE ~Repeats(q, from, label)
  <2> DEFINE y == [x EXCEPT !.edges = Append(x.edges, e)]
  <2>1. Has(q.terms, label) \/ Has(q.nonterms, label)
    BY <1>12, <1>18
  <2>2. rsm_add_edge(q, box, from, to, label) = WithBox(q, Cur(q), y)
    BY <1>10, <1>18, <2>1 DEF rsm_add_edge, InBox, WithBox, Cur, x
  <2> HIDE DEF e
  <2>9. \A n \in DOMAIN x.edges : ~SameKey(x.edges[n], e)
    BY <1>19, <1>21
  <2>10. y = [x EXCEPT !.edges = Append(x.edges, e)]
    OBVIOUS
  <2> HIDE DEF y
  <2>11. /\ y \in CFG_RSM_Box /\ BoxFits(q, y)
         /\ SpelledEdges(q, y) = SpelledEdges(q, x) \cup {SpelledEdge(q, x, e)}
         /\ y.states = x.states /\ y.start_state = x.start_state
         /\ y.final_states = x.final_states
    BY ONLY <1>10, <1>15, <2>9, <2>10, EdgeAdded
  <2>3. /\ y \in CFG_RSM_Box /\ BoxFits(q, y)
        /\ SpelledEdges(q, y) = SpelledEdges(q, x) \cup {<<from, label, to>>}
        /\ y.states = x.states /\ y.start_state = x.start_state
        /\ y.final_states = x.final_states
    BY <1>15, <2>11
  <2>4. SpelledFinals(y) = SpelledFinals(x) /\ SpelledStarts(y) = SpelledStarts(x)
    BY <2>3 DEF SpelledFinals, SpelledStarts
  <2>5. Adds(q, WithBox(q, Cur(q), y), {<<from, label, to>>}, {}, {})
    BY <1>6, <2>3, <2>4, CurrentChanged DEF x
  <2>6. WithBox(q, Cur(q), y).status = q.status
    BY <1>6, <1>10, <2>3, WithBoxFits
  <2>7. Adds(r, WithBox(q, Cur(q), y), {} \cup {<<from, label, to>>}, {from, to} \cup {}, {} \cup {})
    BY <1>9, <2>5, AddsBoth
  <2>8. Adds(r, WithBox(q, Cur(q), y), {<<from, label, to>>}, {from, to}, {})
    BY <2>7
  <2> QED
    BY <1>5, <1>14, <1>17, <1>19, <1>21, <2>2, <2>6, <2>8
<1> QED
  BY <1>20, <1>21

-----------------------------------------------------------------------------
(* The loops of the reader *)

(***************************************************************************)
(* The loop of add_line runs: there are machines from the one it is given  *)
(* to the one it returns, each made from the one before for one block.     *)
(***************************************************************************)
LEMMA AddLineRuns ==
  ASSUME NEW r, NEW tokens, NEW is_final, Blocks(tokens) \in Nat
  PROVE  \E g : /\ g[0] = r
                /\ \A n \in 0 .. Blocks(tokens) - 1 : g[n + 1] = AddBlock(g[n], tokens, is_final, n)
                /\ add_line(r, tokens, is_final) = g[Blocks(tokens)]
<1> DEFINE Loop(f, N) ==
             f = [n \in 0 .. N |->
                    IF n = 0 THEN r ELSE AddBlock(f[n - 1], tokens, is_final, n - 1)]
           S == {N \in Nat : \E f : Loop(f, N)}
<1>1. 0 \in S
  <2> DEFINE none == [n \in 0 .. 0 |-> r]
  <2>1. none = [n \in 0 .. 0 |-> IF n = 0 THEN r ELSE AddBlock(none[n - 1], tokens, is_final, n - 1)]
    OBVIOUS
  <2> QED
    BY <2>1
<1>2. ASSUME NEW N \in Nat, N \in S PROVE N + 1 \in S
  <2>1. PICK f : Loop(f, N)
    BY <1>2
  <2> DEFINE h == [n \in 0 .. N + 1 |->
                     IF n <= N THEN f[n] ELSE AddBlock(f[N], tokens, is_final, N)]
  <2>2. ASSUME NEW n \in 0 .. N + 1
        PROVE  h[n] = IF n = 0 THEN r ELSE AddBlock(h[n - 1], tokens, is_final, n - 1)
    <3>1. CASE n = 0
      <4>1. 0 \in 0 .. N /\ 0 \in 0 .. N + 1 /\ 0 <= N
        OBVIOUS
      <4>2. h[0] = f[0] /\ f[0] = r
        BY <2>1, <4>1
      <4> QED
        BY <3>1, <4>2
    <3>2. CASE n # 0 /\ n <= N
      <4>1. n \in 0 .. N /\ n - 1 \in 0 .. N + 1 /\ n - 1 <= N
        BY <3>2
      <4>2. h[n] = f[n] /\ h[n - 1] = f[n - 1]
        BY <3>2, <4>1
      <4>3. f[n] = AddBlock(f[n - 1], tokens, is_final, n - 1)
        BY <2>1, <3>2, <4>1
      <4> QED
        BY <3>2, <4>2, <4>3
    <3>3. CASE n = N + 1
      <4>1. n - 1 = N /\ N \in 0 .. N + 1 /\ N <= N /\ ~(n <= N) /\ n # 0
        BY <3>3
      <4>2. h[n] = AddBlock(f[N], tokens, is_final, N) /\ h[N] = f[N]
        BY <4>1
      <4> QED
        BY <4>1, <4>2
    <3>4. n = 0 \/ (n # 0 /\ n <= N) \/ n = N + 1
      OBVIOUS
    <3> QED
      BY <3>1, <3>2, <3>3, <3>4
  <2>3. h = [n \in 0 .. N + 1 |-> h[n]]
    OBVIOUS
  <2> HIDE DEF h
  <2>4. Loop(h, N + 1)
    BY <2>2, <2>3
  <2> HIDE DEF Loop
  <2>5. (\E next : Loop(next, N + 1)) /\ N + 1 \in Nat
    BY <2>4
  <2> QED
    BY <2>5
<1>3. \A N \in Nat : N \in S
  <2> HIDE DEF S
  <2>1. ASSUME NEW N \in Nat PROVE N \in S
    <3>1. \A n \in 0 .. N - 1 : n \in S => n + 1 \in S
      BY <1>2
    <3>2. \A n \in 0 .. N : n \in S
      BY <1>1, <3>1, Induction
    <3> QED
      BY <3>2
  <2> QED
    BY <2>1
<1>4. \E f : Loop(f, Blocks(tokens))
  BY <1>3
<1> DEFINE N == Blocks(tokens)
           g == CHOOSE f : Loop(f, N)
<1>5. Loop(g, N)
  BY <1>4
<1>6. add_line(r, tokens, is_final) = g[N]
  BY DEF add_line
<1> HIDE DEF g
<1>7. g[0] = r
  BY <1>5
<1>8. ASSUME NEW n \in 0 .. N - 1 PROVE g[n + 1] = AddBlock(g[n], tokens, is_final, n)
  <2>1. n + 1 \in 0 .. N /\ n + 1 # 0 /\ (n + 1) - 1 = n
    OBVIOUS
  <2> QED
    BY <1>5, <2>1
<1> QED
  BY <1>6, <1>7, <1>8

\* add_line for a token of a "final:" line, and for a transition.
FinalLine(r, st) == add_line(r, <<st>>, TRUE)
EdgeLine(r, from, label, to) == add_line(r, <<from, label, to>>, FALSE)

\* The machines add_finals goes through.
FinalsRun(g, r, states) ==
  /\ g[0] = r
  /\ \A n \in 0 .. Len(states) - 1 : g[n + 1] = FinalLine(g[n], states[n + 1])
  /\ add_finals(r, states) = g[Len(states)]

\* The loop over the tokens of a "final:" line runs.
LEMMA AddFinalsRuns ==
  ASSUME NEW r, NEW states, Len(states) \in Nat
  PROVE  \E g : FinalsRun(g, r, states)
<1> DEFINE Loop(f, N) ==
             f = [n \in 0 .. N |-> IF n = 0 THEN r ELSE FinalLine(f[n - 1], states[n])]
           S == {N \in Nat : \E f : Loop(f, N)}
<1>1. 0 \in S
  <2> DEFINE none == [n \in 0 .. 0 |-> r]
  <2>1. none = [n \in 0 .. 0 |-> IF n = 0 THEN r ELSE FinalLine(none[n - 1], states[n])]
    OBVIOUS
  <2> QED
    BY <2>1
<1>2. ASSUME NEW N \in Nat, N \in S PROVE N + 1 \in S
  <2>1. PICK f : Loop(f, N)
    BY <1>2
  <2> DEFINE h == [n \in 0 .. N + 1 |->
                     IF n <= N THEN f[n] ELSE FinalLine(f[N], states[N + 1])]
  <2>2. ASSUME NEW n \in 0 .. N + 1
        PROVE  h[n] = IF n = 0 THEN r ELSE FinalLine(h[n - 1], states[n])
    <3>1. CASE n = 0
      <4>1. 0 \in 0 .. N /\ 0 \in 0 .. N + 1 /\ 0 <= N
        OBVIOUS
      <4>2. h[0] = f[0] /\ f[0] = r
        BY <2>1, <4>1
      <4> QED
        BY <3>1, <4>2
    <3>2. CASE n # 0 /\ n <= N
      <4>1. n \in 0 .. N /\ n - 1 \in 0 .. N + 1 /\ n - 1 <= N
        BY <3>2
      <4>2. h[n] = f[n] /\ h[n - 1] = f[n - 1]
        BY <3>2, <4>1
      <4>3. f[n] = FinalLine(f[n - 1], states[n])
        BY <2>1, <3>2, <4>1
      <4> QED
        BY <3>2, <4>2, <4>3
    <3>3. CASE n = N + 1
      <4>1. n - 1 = N /\ N \in 0 .. N + 1 /\ N <= N /\ ~(n <= N) /\ n # 0
        BY <3>3
      <4>2. h[n] = FinalLine(f[N], states[N + 1]) /\ h[N] = f[N]
        BY <4>1
      <4> QED
        BY <3>3, <4>1, <4>2
    <3>4. n = 0 \/ (n # 0 /\ n <= N) \/ n = N + 1
      OBVIOUS
    <3> QED
      BY <3>1, <3>2, <3>3, <3>4
  <2>3. h = [n \in 0 .. N + 1 |-> h[n]]
    OBVIOUS
  <2> HIDE DEF h
  <2>4. Loop(h, N + 1)
    BY <2>2, <2>3
  <2> HIDE DEF Loop
  <2>5. (\E next : Loop(next, N + 1)) /\ N + 1 \in Nat
    BY <2>4
  <2> QED
    BY <2>5
<1>3. \A N \in Nat : N \in S
  <2> HIDE DEF S
  <2>1. ASSUME NEW N \in Nat PROVE N \in S
    <3>1. \A n \in 0 .. N - 1 : n \in S => n + 1 \in S
      BY <1>2
    <3>2. \A n \in 0 .. N : n \in S
      BY <1>1, <3>1, Induction
    <3> QED
      BY <3>2
  <2> QED
    BY <2>1
<1>4. \E f : Loop(f, Len(states))
  BY <1>3
<1> DEFINE N == Len(states)
           g == CHOOSE f : Loop(f, N)
<1>5. Loop(g, N)
  BY <1>4
<1>6. add_finals(r, states) = g[N]
  BY DEF add_finals, FinalLine
<1> HIDE DEF g
<1>7. g[0] = r
  BY <1>5
<1>8. ASSUME NEW n \in 0 .. N - 1 PROVE g[n + 1] = FinalLine(g[n], states[n + 1])
  <2>1. n + 1 \in 0 .. N /\ n + 1 # 0 /\ (n + 1) - 1 = n
    OBVIOUS
  <2> QED
    BY <1>5, <2>1
<1> QED
  BY <1>6, <1>7, <1>8 DEF FinalsRun

\* The number of a block in place of the "i" is a name, and tells blocks apart.
LEMMA Numerate ==
  ASSUME NEW label \in LabelRecord, NEW k \in Nat, NEW n \in Nat
  PROVE  /\ symbol_numerate(label, k) \in LabelRecord
         /\ ~IsIndexed(label) => symbol_numerate(label, k) = label
         /\ IsIndexed(label) /\ symbol_numerate(label, k) = symbol_numerate(label, n) => k = n
<1>1. CASE IsIndexed(label)
  <2>1. [label EXCEPT !.suf = k] \in LabelRecord /\ [label EXCEPT !.suf = k].suf = k
    BY DEF LabelRecord
  <2>2. [label EXCEPT !.suf = n].suf = n
    BY DEF LabelRecord
  <2> QED
    BY <1>1, <2>1, <2>2 DEF symbol_numerate
<1>2. CASE ~IsIndexed(label)
  BY <1>2 DEF symbol_numerate
<1> QED
  BY <1>1, <1>2

\* The names a token stands for.
Numbered(f, label) == {symbol_numerate(label, k) : k \in 0 .. BlocksOf(f) - 1}

\* add_line for a token of a "final:" line.
LEMMA AddLineFinal ==
  ASSUME file \in RSMFiles, NEW r, MachineFits(r), r.status = "ok", box \in LabelsOf(r.nonterms),
         NEW st \in LabelRecord
  PROVE  LET s == FinalLine(r, st)
         IN Adds(r, s, {}, Numbered(file, st), Numbered(file, st)) /\ s.status = "ok"
<1> DEFINE tokens == <<st>>
           N == Blocks(tokens)
<1>1. BlockCount = BlocksOf(file) /\ BlocksOf(file) \in Nat /\ BlocksOf(file) >= 1
  BY LineTypes DEF BlockCount, BlocksOf
<1>2. N = IF IsIndexed(st) THEN BlocksOf(file) ELSE 1
  <2>1. DOMAIN tokens = {1} /\ tokens[1] = st
    OBVIOUS
  <2> QED
    BY <1>1, <2>1 DEF Blocks
<1>3. N \in Nat /\ N >= 1
  BY <1>1, <1>2
<1> HIDE DEF N
<1>4. PICK g : /\ g[0] = r
               /\ \A n \in 0 .. N - 1 : g[n + 1] = AddBlock(g[n], tokens, TRUE, n)
               /\ FinalLine(r, st) = g[N]
  <2>1. PICK fin : fin = TRUE
    OBVIOUS
  <2>2. \E g : /\ g[0] = r
               /\ \A n \in 0 .. N - 1 : g[n + 1] = AddBlock(g[n], tokens, fin, n)
               /\ add_line(r, tokens, fin) = g[N]
    BY <1>3, AddLineRuns DEF N
  <2> QED
    BY <2>1, <2>2 DEF FinalLine
<1> DEFINE Names(n) == {symbol_numerate(st, k) : k \in 0 .. n - 1}
           S == {n \in 0 .. N : Adds(r, g[n], {}, Names(n), Names(n)) /\ g[n].status = "ok"}
<1>5. 0 \in S
  <2>1. Names(0) = {} /\ 0 \in 0 .. N
    BY <1>3
  <2>2. Adds(r, r, {}, {}, {})
    BY AddsNothing
  <2> QED
    BY <1>4, <2>1, <2>2
<1>6. ASSUME NEW n \in 0 .. N - 1, n \in S PROVE n + 1 \in S
  <2>1. Adds(r, g[n], {}, Names(n), Names(n)) /\ g[n].status = "ok"
    BY <1>6
  <2>2. MachineFits(g[n]) /\ box \in LabelsOf(g[n].nonterms)
    BY <2>1 DEF Adds, TermsGrow
  <2> DEFINE name == symbol_numerate(st, n)
  <2>3. name \in LabelRecord
    <3>1. n \in Nat
      OBVIOUS
    <3> QED
      BY <3>1, Numerate
  <2>4. g[n + 1] = add_final_state(g[n], name)
    <3>1. g[n + 1] = AddBlock(g[n], tokens, TRUE, n)
      BY <1>4
    <3>2. DOMAIN tokens = {1} /\ tokens[1] = st
      OBVIOUS
    <3>3. [k \in DOMAIN tokens |-> symbol_numerate(tokens[k], n)][1] = name
      BY <3>2
    <3> QED
      BY <2>1, <3>1, <3>3 DEF AddBlock
  <2> HIDE DEF name
  <2>5. Adds(g[n], g[n + 1], {}, {name}, {name}) /\ g[n + 1].status = "ok"
    BY <2>1, <2>2, <2>3, <2>4, AddFinalState
  <2> DEFINE A == Names(n)
             B == Names(n + 1)
  <2>6. A \cup {name} = B
    <3>1. \A k : k \in 0 .. (n + 1) - 1 <=> k \in 0 .. n - 1 \/ k = n
      OBVIOUS
    <3> QED
      BY <3>1 DEF name
  <2> HIDE DEF Names
  <2>7. Adds(r, g[n + 1], {} \cup {}, Names(n) \cup {name}, Names(n) \cup {name})
    BY <2>1, <2>5, AddsBoth
  <2>8. Adds(r, g[n + 1], {}, Names(n + 1), Names(n + 1))
    <3>1. {} \cup {} = {}
      OBVIOUS
    <3> QED
      BY <2>6, <2>7, <3>1
  <2>9. n + 1 \in 0 .. N
    BY <1>3
  <2> QED
    BY <2>5, <2>8, <2>9
<1>7. N \in S
  <2> HIDE DEF S
  <2>1. \A n \in 0 .. N : n \in S
    BY <1>3, <1>5, <1>6, Induction
  <2> QED
    BY <1>3, <2>1
<1>8. Names(N) = Numbered(file, st)
  <2>1. CASE IsIndexed(st)
    BY <1>2, <2>1 DEF Numbered
  <2>2. CASE ~IsIndexed(st)
    <3>1. \A k \in Nat : symbol_numerate(st, k) = st
      BY <2>2, Numerate
    <3>2. N = 1 /\ 0 \in 0 .. N - 1 /\ 0 \in 0 .. BlocksOf(file) - 1
      BY <1>1, <1>2, <2>2
    <3>3. \A k : k \in 0 .. N - 1 \/ k \in 0 .. BlocksOf(file) - 1 => k \in Nat
      OBVIOUS
    <3>4. Names(N) = {st}
      BY <3>1, <3>2, <3>3
    <3>5. Numbered(file, st) = {st}
      BY <3>1, <3>2, <3>3 DEF Numbered
    <3> QED
      BY <3>4, <3>5
  <2> QED
    BY <2>1, <2>2
<1> HIDE DEF Names
<1> QED
  BY <1>4, <1>7, <1>8

\* A "final:" line adds its tokens, numbered, to the final states of the box.
LEMMA AddFinals ==
  ASSUME file \in RSMFiles, NEW r, MachineFits(r), r.status = "ok", box \in LabelsOf(r.nonterms),
         NEW states \in Seq(LabelRecord)
  PROVE  LET s == add_finals(r, states)
             names == UNION {Numbered(file, st) : st \in ToSet(states)}
         IN Adds(r, s, {}, names, names) /\ s.status = "ok"
<1> DEFINE N == Len(states)
<1>1. N \in Nat /\ DOMAIN states = 1 .. N /\ \A n \in 1 .. N : states[n] \in LabelRecord
  OBVIOUS
<1> HIDE DEF N
<1>2. PICK g : /\ g[0] = r
               /\ \A n \in 0 .. N - 1 : g[n + 1] = FinalLine(g[n], states[n + 1])
               /\ add_finals(r, states) = g[N]
  <2>1. Len(states) \in Nat
    OBVIOUS
  <2>2. \E g : FinalsRun(g, r, states)
    BY <2>1, AddFinalsRuns
  <2> QED
    BY <2>2 DEF N, FinalsRun
<1> DEFINE Names(n) == UNION {Numbered(file, states[k]) : k \in 1 .. n}
           S == {n \in 0 .. N : Adds(r, g[n], {}, Names(n), Names(n)) /\ g[n].status = "ok"}
<1>3. 0 \in S
  <2>1. Names(0) = {} /\ 0 \in 0 .. N
    BY <1>1
  <2>2. Adds(r, r, {}, {}, {})
    BY AddsNothing
  <2> QED
    BY <1>2, <2>1, <2>2
<1>4. ASSUME NEW n \in 0 .. N - 1, n \in S PROVE n + 1 \in S
  <2>1. Adds(r, g[n], {}, Names(n), Names(n)) /\ g[n].status = "ok"
    BY <1>4
  <2>2. MachineFits(g[n]) /\ box \in LabelsOf(g[n].nonterms)
    BY <2>1 DEF Adds, TermsGrow
  <2>3. n + 1 \in 1 .. N /\ n + 1 \in 0 .. N
    BY <1>1
  <2> DEFINE new == Numbered(file, states[n + 1])
  <2>4. Adds(g[n], g[n + 1], {}, new, new) /\ g[n + 1].status = "ok"
    <3>1. states[n + 1] \in LabelRecord /\ g[n + 1] = FinalLine(g[n], states[n + 1])
      BY <1>1, <1>2, <2>3
    <3> QED
      BY <2>1, <2>2, <3>1, AddLineFinal
  <2>5. Names(n) \cup new = Names(n + 1)
    <3>1. \A k : k \in 1 .. n + 1 <=> k \in 1 .. n \/ k = n + 1
      OBVIOUS
    <3> QED
      BY <3>1
  <2> HIDE DEF Names, new
  <2>6. Adds(r, g[n + 1], {} \cup {}, Names(n) \cup new, Names(n) \cup new)
    BY <2>1, <2>4, AddsBoth
  <2>7. Adds(r, g[n + 1], {}, Names(n + 1), Names(n + 1))
    <3>1. {} \cup {} = {}
      OBVIOUS
    <3> QED
      BY <2>5, <2>6, <3>1
  <2> QED
    BY <2>3, <2>4, <2>7
<1>5. N \in S
  <2> HIDE DEF S
  <2>1. \A n \in 0 .. N : n \in S
    BY <1>1, <1>3, <1>4, Induction
  <2> QED
    BY <1>1, <2>1
<1>6. Names(N) = UNION {Numbered(file, st) : st \in ToSet(states)}
  <2>1. ToSet(states) = {states[k] : k \in 1 .. N}
    BY <1>1 DEF ToSet
  <2> QED
    BY <2>1
<1> HIDE DEF Names
<1> QED
  BY <1>2, <1>5, <1>6

\* The transitions of a line.
LineEdges(f, line) == {Instance(line, k) : k \in 0 .. BlocksOf(f) - 1}

\* Two blocks of a line give a state two transitions with a label.
SelfConflict(f, line) ==
  \E i, j \in 0 .. BlocksOf(f) - 1 :
    /\ Instance(line, i)[1] = Instance(line, j)[1] /\ Instance(line, i)[2] = Instance(line, j)[2]
    /\ i # j /\ Instance(line, i) # Instance(line, j)

\* The states of transitions given by name, and whether the box has one of their keys.
Ends(edges) == {e[1] : e \in edges} \cup {e[3] : e \in edges}

KeysIn(r, edges) == \E e \in edges : KeyIn(r, e[1], e[2])

LineTyped(line) == line.from \in LabelRecord /\ line.label \in LabelRecord /\ line.to \in LabelRecord

\* The tokens of a block are names.
LEMMA InstanceTyped ==
  ASSUME NEW line, LineTyped(line), NEW k \in Nat
  PROVE  /\ Instance(line, k)[1] = symbol_numerate(line.from, k)
         /\ Instance(line, k)[2] = symbol_numerate(line.label, k)
         /\ Instance(line, k)[3] = symbol_numerate(line.to, k)
         /\ Instance(line, k)[1] \in LabelRecord /\ Instance(line, k)[2] \in LabelRecord
         /\ Instance(line, k)[3] \in LabelRecord
         /\ Instance(line, k) = <<Instance(line, k)[1], Instance(line, k)[2], Instance(line, k)[3]>>
<1>1. /\ symbol_numerate(line.from, k) \in LabelRecord /\ symbol_numerate(line.label, k) \in LabelRecord
      /\ symbol_numerate(line.to, k) \in LabelRecord
  BY Numerate DEF LineTyped
<1> QED
  BY <1>1 DEF Instance

\* The line has an indexed token.
Indexes(line) == IsIndexed(line.from) \/ IsIndexed(line.label) \/ IsIndexed(line.to)

\* A line with an indexed token says something else for each block.
LEMMA InstancesDiffer ==
  ASSUME NEW line, LineTyped(line), NEW i \in Nat, NEW j \in Nat
  PROVE  /\ ~Indexes(line) => Instance(line, i) = Instance(line, j)
         /\ Indexes(line) /\ Instance(line, i) = Instance(line, j) => i = j
<1>1. /\ line.from \in LabelRecord /\ line.label \in LabelRecord /\ line.to \in LabelRecord
  BY DEF LineTyped
<1>2. ASSUME ~Indexes(line) PROVE Instance(line, i) = Instance(line, j)
  <2>1. /\ symbol_numerate(line.from, i) = line.from /\ symbol_numerate(line.from, j) = line.from
        /\ symbol_numerate(line.label, i) = line.label /\ symbol_numerate(line.label, j) = line.label
        /\ symbol_numerate(line.to, i) = line.to /\ symbol_numerate(line.to, j) = line.to
    BY <1>1, <1>2, Numerate DEF Indexes
  <2> QED
    BY <2>1 DEF Instance
<1>3. ASSUME Indexes(line), Instance(line, i) = Instance(line, j) PROVE i = j
  <2>1. /\ symbol_numerate(line.from, i) = symbol_numerate(line.from, j)
        /\ symbol_numerate(line.label, i) = symbol_numerate(line.label, j)
        /\ symbol_numerate(line.to, i) = symbol_numerate(line.to, j)
    BY <1>3 DEF Instance
  <2> QED
    BY <1>1, <1>3, <2>1, Numerate DEF Indexes
<1> QED
  BY <1>2, <1>3

\* What add_line does for block k of a transition.
EdgeBlock(r, line, k) == AddBlock(r, <<line.from, line.label, line.to>>, FALSE, k)

\* What one block of a line does to the machine.
BlockDone(r, s, e) ==
  \/ s.status = "ok" /\ ~KeyIn(r, e[1], e[2]) /\ Adds(r, s, {e}, {e[1], e[3]}, {})
  \/ s.status = "rejected" /\ KeyIn(r, e[1], e[2]) /\ MachineFits(s)

\* One block of a transition is added or refused.
LEMMA AddBlockEdge ==
  ASSUME NEW r, MachineFits(r), r.status = "ok", box \in LabelsOf(r.nonterms),
         NEW line, LineTyped(line), NEW k \in Nat
  PROVE  BlockDone(r, EdgeBlock(r, line, k), Instance(line, k))
<1> DEFINE s == EdgeBlock(r, line, k)
           from == symbol_numerate(line.from, k)
           label == symbol_numerate(line.label, k)
           to == symbol_numerate(line.to, k)
           tokens == <<line.from, line.label, line.to>>
           token == [n \in DOMAIN tokens |-> symbol_numerate(tokens[n], k)]
<1>1. token[1] = from /\ token[2] = label /\ token[3] = to
  <2>1. DOMAIN tokens = 1 .. 3 /\ 1 \in 1 .. 3 /\ 2 \in 1 .. 3 /\ 3 \in 1 .. 3
    OBVIOUS
  <2>2. tokens[1] = line.from /\ tokens[2] = line.label /\ tokens[3] = line.to
    OBVIOUS
  <2> QED
    BY <2>1, <2>2
<1>2. s = add_transition(r, token[1], token[2], token[3])
  BY DEF AddBlock, EdgeBlock
<1>3. from \in LabelRecord /\ label \in LabelRecord /\ to \in LabelRecord
  BY Numerate DEF LineTyped
<1>4. s = add_transition(r, from, label, to)
  BY <1>1, <1>2
<1>5. Instance(line, k) = <<from, label, to>>
  BY DEF Instance
<1> DEFINE e == Instance(line, k)
<1> HIDE DEF from, label, to, s
<1>6. \/ /\ s.status = "ok" /\ ~KeyIn(r, from, label)
         /\ Adds(r, s, {<<from, label, to>>}, {from, to}, {})
      \/ s.status = "rejected" /\ KeyIn(r, from, label) /\ MachineFits(s)
  BY <1>3, <1>4, AddTransition
<1>7. e[1] = from /\ e[2] = label /\ e[3] = to
  BY <1>5
<1>8. e = <<from, label, to>>
  BY <1>5
<1> HIDE DEF e
<1>9. \/ /\ s.status = "ok" /\ ~KeyIn(r, e[1], e[2])
         /\ Adds(r, s, {e}, {e[1], e[3]}, {})
      \/ s.status = "rejected" /\ KeyIn(r, e[1], e[2]) /\ MachineFits(s)
  BY <1>6, <1>7, <1>8
<1> QED
  BY <1>9 DEF e, s, BlockDone

\* A machine that takes no transition leaves the loop as it is.
LEMMA EdgeBlockLeft ==
  ASSUME NEW r, NEW line, NEW k, r.status # "ok"
  PROVE  EdgeBlock(r, line, k) = r
  BY DEF AddBlock, EdgeBlock

\* What the machine has after the loop of add_line took n blocks of a line.
BlocksAdded(r, line, s, n) ==
  LET edges == {Instance(line, k) : k \in 0 .. n - 1}
  IN /\ s.status = "ok" /\ Adds(r, s, edges, Ends(edges), {})
     /\ \A e \in edges : ~KeyIn(r, e[1], e[2])
     /\ \A i, j \in 0 .. n - 1 :
          Instance(line, i)[1] = Instance(line, j)[1] /\ Instance(line, i)[2] = Instance(line, j)[2]
            => i = j

\* Why it has been rejected, by block n at the latest.
BlocksRefused(r, line, s, n) ==
  /\ s.status = "rejected" /\ MachineFits(s)
  /\ \/ \E k \in 0 .. n - 1 : KeyIn(r, Instance(line, k)[1], Instance(line, k)[2])
     \/ \E i, j \in 0 .. n - 1 :
          /\ Instance(line, i)[1] = Instance(line, j)[1] /\ Instance(line, i)[2] = Instance(line, j)[2]
          /\ i # j

\* Blocks added or refused so far, one block further.
LEMMA NextBlock ==
  ASSUME NEW r, MachineFits(r), box \in LabelsOf(r.nonterms), NEW line, LineTyped(line),
         NEW n \in Nat, NEW s, NEW t, t = EdgeBlock(s, line, n),
         BlocksAdded(r, line, s, n) \/ BlocksRefused(r, line, s, n)
  PROVE  BlocksAdded(r, line, t, n + 1) \/ BlocksRefused(r, line, t, n + 1)
<1> DEFINE E(m) == {Instance(line, k) : k \in 0 .. m - 1}
           e == Instance(line, n)
<1>0. 0 .. n - 1 \subseteq 0 .. (n + 1) - 1 /\ n \in 0 .. (n + 1) - 1
  OBVIOUS
<1>1. CASE BlocksRefused(r, line, s, n)
  <2>1. t = s
    BY <1>1, EdgeBlockLeft DEF BlocksRefused
  <2> QED
    BY <1>0, <1>1, <2>1 DEF BlocksRefused
<1>2. CASE BlocksAdded(r, line, s, n)
  <2>1. /\ s.status = "ok" /\ Adds(r, s, E(n), Ends(E(n)), {})
        /\ \A d \in E(n) : ~KeyIn(r, d[1], d[2])
        /\ \A i, j \in 0 .. n - 1 :
             Instance(line, i)[1] = Instance(line, j)[1] /\ Instance(line, i)[2] = Instance(line, j)[2]
               => i = j
    BY <1>2 DEF BlocksAdded
  <2>2. MachineFits(s) /\ s.nonterms = r.nonterms /\ Cur(s) = Cur(r)
    BY <2>1 DEF Adds, TermsGrow, Cur
  <2>3. BlockDone(s, t, e)
    <3>1. box \in LabelsOf(s.nonterms)
      BY <2>2
    <3>2. BlockDone(s, EdgeBlock(s, line, n), Instance(line, n))
      BY <2>1, <2>2, <3>1, AddBlockEdge
    <3> QED
      BY <3>2
  <2>4. SpelledEdges(s, s.boxes[Cur(r)]) = SpelledEdges(r, r.boxes[Cur(r)]) \cup E(n)
    BY <2>1 DEF Adds
  <2>5. KeyIn(s, e[1], e[2]) <=>
          KeyIn(r, e[1], e[2]) \/ \E d \in E(n) : d[1] = e[1] /\ d[2] = e[2]
    BY <2>2, <2>4 DEF KeyIn
  <2>6. E(n + 1) = E(n) \cup {e}
    <3>1. \A k : k \in 0 .. (n + 1) - 1 <=> k \in 0 .. n - 1 \/ k = n
      OBVIOUS
    <3> QED
      BY <3>1
  <2>7. CASE KeyIn(s, e[1], e[2])
    <3>1. t.status = "rejected" /\ MachineFits(t)
      BY <2>3, <2>7 DEF BlockDone
    <3>2. CASE KeyIn(r, e[1], e[2])
      BY <1>0, <3>1, <3>2 DEF BlocksRefused
    <3>3. CASE \E d \in E(n) : d[1] = e[1] /\ d[2] = e[2]
      <4>1. PICK k \in 0 .. n - 1 : Instance(line, k)[1] = e[1] /\ Instance(line, k)[2] = e[2]
        BY <3>3
      <4>2. k # n /\ k \in 0 .. (n + 1) - 1
        BY <1>0
      <4> QED
        BY <1>0, <3>1, <4>1, <4>2 DEF BlocksRefused
    <3> QED
      BY <2>5, <2>7, <3>2, <3>3
  <2>8. CASE ~KeyIn(s, e[1], e[2])
    <3>1. t.status = "ok" /\ Adds(s, t, {e}, {e[1], e[3]}, {})
      BY <2>3, <2>8 DEF BlockDone
    <3>2. Adds(r, t, E(n) \cup {e}, Ends(E(n)) \cup {e[1], e[3]}, {} \cup {})
      BY <2>1, <3>1, AddsBoth
    <3>3. Ends(E(n)) \cup {e[1], e[3]} = Ends(E(n + 1))
      <4> HIDE DEF E, e
      <4> QED
        BY <2>6 DEF Ends
    <3>4. Adds(r, t, E(n + 1), Ends(E(n + 1)), {})
      <4>1. {} \cup {} = {}
        OBVIOUS
      <4> HIDE DEF E
      <4> QED
        BY <2>6, <3>2, <3>3, <4>1
    <3>5. \A d \in E(n + 1) : ~KeyIn(r, d[1], d[2])
      <4> HIDE DEF E
      <4> QED
        BY <2>1, <2>5, <2>6, <2>8
    <3>6. \A k \in 0 .. n - 1 : ~(Instance(line, k)[1] = e[1] /\ Instance(line, k)[2] = e[2])
      BY <2>5, <2>8
    <3>7. ASSUME NEW i \in 0 .. (n + 1) - 1, NEW j \in 0 .. (n + 1) - 1,
                 Instance(line, i)[1] = Instance(line, j)[1], Instance(line, i)[2] = Instance(line, j)[2]
          PROVE  i = j
      <4>1. (i \in 0 .. n - 1 \/ i = n) /\ (j \in 0 .. n - 1 \/ j = n)
        OBVIOUS
      <4> QED
        BY <2>1, <3>6, <3>7, <4>1
    <3>8. BlocksAdded(r, line, t, n + 1)
      BY <3>1, <3>4, <3>5, <3>7 DEF BlocksAdded
    <3> QED
      BY <3>8
  <2> QED
    BY <2>7, <2>8
<1> QED
  BY <1>1, <1>2

\* add_line for a transition: its instances are added, each once, or the line is refused.
LEMMA AddLineEdges ==
  ASSUME file \in RSMFiles, NEW r, MachineFits(r), r.status = "ok", box \in LabelsOf(r.nonterms),
         NEW line, LineTyped(line), NEW s, s = EdgeLine(r, line.from, line.label, line.to)
  PROVE  LET edges == LineEdges(file, line)
         IN \/ /\ s.status = "ok" /\ Adds(r, s, edges, Ends(edges), {})
               /\ ~KeysIn(r, edges) /\ ~SelfConflict(file, line)
            \/ /\ s.status = "rejected" /\ MachineFits(s)
               /\ KeysIn(r, edges) \/ SelfConflict(file, line)
<1> DEFINE tokens == <<line.from, line.label, line.to>>
           B == BlocksOf(file)
           N == Blocks(tokens)
           E(m) == {Instance(line, k) : k \in 0 .. m - 1}
<1>1. BlockCount = B /\ B \in Nat /\ B >= 1
  BY LineTypes DEF BlockCount, BlocksOf
<1>2. N = IF Indexes(line) THEN B ELSE 1
  <2>1. DOMAIN tokens = 1 .. 3 /\ 1 \in 1 .. 3 /\ 2 \in 1 .. 3 /\ 3 \in 1 .. 3
    OBVIOUS
  <2>2. tokens[1] = line.from /\ tokens[2] = line.label /\ tokens[3] = line.to
    OBVIOUS
  <2>3. \A k \in 1 .. 3 : k = 1 \/ k = 2 \/ k = 3
    OBVIOUS
  <2> HIDE DEF tokens, B
  <2> QED
    BY <1>1, <2>1, <2>2, <2>3 DEF Blocks, Indexes
<1>3. N \in Nat /\ N >= 1 /\ N <= B
  BY <1>1, <1>2
<1> HIDE DEF N
<1>4. PICK g : /\ g[0] = r
               /\ \A n \in 0 .. N - 1 : g[n + 1] = EdgeBlock(g[n], line, n)
               /\ s = g[N]
  <2>1. PICK fin : fin = FALSE
    OBVIOUS
  <2>2. \E g : /\ g[0] = r
               /\ \A n \in 0 .. N - 1 : g[n + 1] = AddBlock(g[n], tokens, fin, n)
               /\ add_line(r, tokens, fin) = g[N]
    BY <1>3, AddLineRuns DEF N
  <2> QED
    BY <2>1, <2>2 DEF EdgeLine, EdgeBlock
<1> DEFINE S == {n \in 0 .. N : BlocksAdded(r, line, g[n], n) \/ BlocksRefused(r, line, g[n], n)}
<1>5. 0 \in S
  <2>1. {Instance(line, k) : k \in 0 .. 0 - 1} = {} /\ Ends({}) = {} /\ 0 \in 0 .. N
    BY <1>3 DEF Ends
  <2>2. Adds(r, r, {}, {}, {})
    BY AddsNothing
  <2>3. BlocksAdded(r, line, r, 0)
    BY <2>1, <2>2 DEF BlocksAdded
  <2> QED
    BY <1>4, <2>1, <2>3
<1>6. ASSUME NEW n \in 0 .. N - 1, n \in S PROVE n + 1 \in S
  <2>1. n \in Nat /\ n + 1 \in 0 .. N
    BY <1>3
  <2>2. BlocksAdded(r, line, g[n], n) \/ BlocksRefused(r, line, g[n], n)
    BY <1>6
  <2>3. g[n + 1] = EdgeBlock(g[n], line, n)
    BY <1>4
  <2>4. BlocksAdded(r, line, g[n + 1], n + 1) \/ BlocksRefused(r, line, g[n + 1], n + 1)
    BY <2>1, <2>2, <2>3, NextBlock
  <2> QED
    BY <2>1, <2>4
<1>7. BlocksAdded(r, line, s, N) \/ BlocksRefused(r, line, s, N)
  <2>1. \A n \in 0 .. N : n \in S
    <3> HIDE DEF S
    <3> QED
      BY <1>3, <1>5, <1>6, Induction
  <2>2. N \in S
    BY <1>3, <2>1
  <2> QED
    BY <1>4, <2>2
<1>8. 0 .. N - 1 \subseteq 0 .. B - 1 /\ 0 .. B - 1 \subseteq Nat
  BY <1>1, <1>3
<1>9. E(N) = LineEdges(file, line)
  <2>1. CASE Indexes(line)
    BY <1>2, <2>1 DEF LineEdges
  <2>2. CASE ~Indexes(line)
    <3>1. 0 \in 0 .. N - 1 /\ 0 \in Nat
      BY <1>3
    <3>2. \A k \in 0 .. B - 1 : Instance(line, k) = Instance(line, 0)
      BY <1>8, <2>2, <3>1, InstancesDiffer
    <3>3. E(N) = {Instance(line, 0)}
      BY <1>8, <3>1, <3>2
    <3>4. LineEdges(file, line) = {Instance(line, 0)}
      BY <1>8, <3>1, <3>2 DEF LineEdges
    <3> QED
      BY <3>3, <3>4
  <2> QED
    BY <2>1, <2>2
<1>10. CASE BlocksAdded(r, line, s, N)
  <2>1. /\ s.status = "ok" /\ Adds(r, s, LineEdges(file, line), Ends(LineEdges(file, line)), {})
        /\ \A e \in LineEdges(file, line) : ~KeyIn(r, e[1], e[2])
        /\ \A i, j \in 0 .. N - 1 :
             Instance(line, i)[1] = Instance(line, j)[1] /\ Instance(line, i)[2] = Instance(line, j)[2]
               => i = j
    <3> HIDE DEF B
    <3> QED
      BY <1>9, <1>10 DEF BlocksAdded
  <2>2. ~SelfConflict(file, line)
    <3>1. CASE Indexes(line)
      BY <1>2, <2>1, <3>1 DEF SelfConflict
    <3>2. CASE ~Indexes(line)
      BY <1>8, <3>2, InstancesDiffer DEF SelfConflict
    <3> QED
      BY <3>1, <3>2
  <2> QED
    BY <2>1, <2>2 DEF KeysIn
<1>11. CASE BlocksRefused(r, line, s, N)
  <2>1. s.status = "rejected" /\ MachineFits(s)
    BY <1>11 DEF BlocksRefused
  <2>2. CASE \E k \in 0 .. N - 1 : KeyIn(r, Instance(line, k)[1], Instance(line, k)[2])
    <3>1. PICK k \in 0 .. N - 1 : KeyIn(r, Instance(line, k)[1], Instance(line, k)[2])
      BY <2>2
    <3>2. Instance(line, k) \in LineEdges(file, line)
      BY <1>8 DEF LineEdges
    <3> QED
      BY <2>1, <3>1, <3>2 DEF KeysIn
  <2>3. CASE \E i, j \in 0 .. N - 1 :
               /\ Instance(line, i)[1] = Instance(line, j)[1]
               /\ Instance(line, i)[2] = Instance(line, j)[2] /\ i # j
    <3>1. PICK i \in 0 .. N - 1, j \in 0 .. N - 1 :
               /\ Instance(line, i)[1] = Instance(line, j)[1]
               /\ Instance(line, i)[2] = Instance(line, j)[2] /\ i # j
      BY <2>3
    <3>2. i \in 0 .. B - 1 /\ j \in 0 .. B - 1 /\ i \in Nat /\ j \in Nat
      BY <1>8
    <3>3. Indexes(line)
      BY <1>2, <3>1
    <3>4. Instance(line, i) # Instance(line, j)
      BY <3>1, <3>2, <3>3, InstancesDiffer
    <3> QED
      BY <2>1, <3>1, <3>2, <3>4 DEF SelfConflict
  <2> QED
    BY <1>11, <2>2, <2>3 DEF BlocksRefused
<1> QED
  BY <1>7, <1>10, <1>11

-----------------------------------------------------------------------------
(* What a line says *)

\* What line n + 1 adds to what the lines before it say of a box.
LineAdds(f, name, n, edges, states, finals, starts) ==
  /\ EdgesIn(f, name, n + 1) = EdgesIn(f, name, n) \cup edges
  /\ StatesIn(f, name, n + 1) = StatesIn(f, name, n) \cup states
  /\ FinalsIn(f, name, n + 1) = FinalsIn(f, name, n) \cup finals
  /\ StartsIn(f, name, n + 1) = StartsIn(f, name, n) \cup starts

\* The states of a box follow from its transitions, final states and start state.
LEMMA StatesAdded ==
  ASSUME NEW f, NEW name, NEW n, NEW E, NEW F, NEW T,
         EdgesIn(f, name, n + 1) = EdgesIn(f, name, n) \cup E,
         FinalsIn(f, name, n + 1) = FinalsIn(f, name, n) \cup F,
         StartsIn(f, name, n + 1) = StartsIn(f, name, n) \cup T
  PROVE  LineAdds(f, name, n, E, T \cup F \cup Ends(E), F, T)
<1>1. Ends(EdgesIn(f, name, n) \cup E) = Ends(EdgesIn(f, name, n)) \cup Ends(E)
  BY DEF Ends
<1>2. \A m : StatesIn(f, name, m) = StartsIn(f, name, m) \cup FinalsIn(f, name, m) \cup Ends(EdgesIn(f, name, m))
  BY DEF StatesIn, Ends
<1> QED
  BY <1>1, <1>2 DEF LineAdds

\* A kind of line the next line is not, or a box it is not in.
LEMMA NoLine ==
  ASSUME NEW f, NEW kind, NEW name, NEW n \in Nat,
         f.lines[n + 1].kind # kind \/ BoxOf(f, n + 1) # name
  PROVE  LinesIn(f, kind, name, n + 1) = LinesIn(f, kind, name, n)
BY DEF LinesIn

\* A line of the kind in the box is one line more.
LEMMA OneLine ==
  ASSUME NEW f, NEW kind, NEW name, NEW n \in Nat,
         f.lines[n + 1].kind = kind, BoxOf(f, n + 1) = name
  PROVE  LinesIn(f, kind, name, n + 1) = LinesIn(f, kind, name, n) \cup {n + 1}
BY DEF LinesIn

\* A line that is none of the box adds no transitions, final states or start states.
LEMMA NoEdges ==
  ASSUME NEW f, NEW name, NEW n \in Nat,
         f.lines[n + 1].kind # "transition" \/ BoxOf(f, n + 1) # name
  PROVE  EdgesIn(f, name, n + 1) = EdgesIn(f, name, n) \cup {}
  BY NoLine DEF EdgesIn

LEMMA NoFinals ==
  ASSUME NEW f, NEW name, NEW n \in Nat,
         f.lines[n + 1].kind # "final" \/ BoxOf(f, n + 1) # name
  PROVE  FinalsIn(f, name, n + 1) = FinalsIn(f, name, n) \cup {}
  BY NoLine DEF FinalsIn

LEMMA NoStarts ==
  ASSUME NEW f, NEW name, NEW n \in Nat,
         f.lines[n + 1].kind # "start" \/ BoxOf(f, n + 1) # name
  PROVE  StartsIn(f, name, n + 1) = StartsIn(f, name, n) \cup {}
  BY NoLine DEF StartsIn

\* A line that is not one of a box's says nothing of it.
LEMMA LineOfAnother ==
  ASSUME NEW f, NEW name, NEW n \in Nat,
         BoxOf(f, n + 1) # name \/ f.lines[n + 1].kind \notin {"transition", "final", "start"}
  PROVE  LineAdds(f, name, n, {}, {}, {}, {})
<1>1. /\ EdgesIn(f, name, n + 1) = EdgesIn(f, name, n) \cup {}
      /\ FinalsIn(f, name, n + 1) = FinalsIn(f, name, n) \cup {}
      /\ StartsIn(f, name, n + 1) = StartsIn(f, name, n) \cup {}
  BY NoEdges, NoFinals, NoStarts
<1>2. LineAdds(f, name, n, {}, {} \cup {} \cup Ends({}), {}, {})
  BY <1>1, StatesAdded
<1>3. {} \cup {} \cup Ends({}) = {}
  BY DEF Ends
<1> QED
  BY <1>2, <1>3

\* What a line with a transition adds.
LEMMA TransitionLine ==
  ASSUME NEW f, NEW n \in Nat, f.lines[n + 1].kind = "transition"
  PROVE  LineAdds(f, BoxOf(f, n + 1), n, LineEdges(f, f.lines[n + 1]),
                  Ends(LineEdges(f, f.lines[n + 1])), {}, {})
<1> DEFINE name == BoxOf(f, n + 1)
           E == LineEdges(f, f.lines[n + 1])
<1>1. LinesIn(f, "transition", name, n + 1) = LinesIn(f, "transition", name, n) \cup {n + 1}
  BY OneLine
<1>2. EdgesIn(f, name, n + 1) = EdgesIn(f, name, n) \cup E
  <2> HIDE DEF name
  <2> QED
    BY <1>1 DEF EdgesIn, LineEdges
<1>3. /\ FinalsIn(f, name, n + 1) = FinalsIn(f, name, n) \cup {}
      /\ StartsIn(f, name, n + 1) = StartsIn(f, name, n) \cup {}
  BY NoFinals, NoStarts
<1>4. {} \cup {} \cup Ends(E) = Ends(E)
  OBVIOUS
<1> HIDE DEF name, E
<1>5. LineAdds(f, name, n, E, {} \cup {} \cup Ends(E), {}, {})
  BY <1>2, <1>3, StatesAdded
<1> QED
  BY <1>4, <1>5 DEF name, E

\* What a "final:" line adds.
LEMMA FinalsLine ==
  ASSUME NEW f, NEW n \in Nat, f.lines[n + 1].kind = "final",
         NEW names, names = UNION {Numbered(f, st) : st \in ToSet(f.lines[n + 1].states)}
  PROVE  LineAdds(f, BoxOf(f, n + 1), n, {}, names, names, {})
<1> DEFINE name == BoxOf(f, n + 1)
<1>1. LinesIn(f, "final", name, n + 1) = LinesIn(f, "final", name, n) \cup {n + 1}
  BY OneLine
<1> DEFINE Of(m) == {symbol_numerate(st, block) :
                       st \in ToSet(f.lines[m].states), block \in 0 .. BlocksOf(f) - 1}
<1>2. names = Of(n + 1)
  BY DEF Numbered
<1>3. FinalsIn(f, name, n + 1) = FinalsIn(f, name, n) \cup names
  <2>1. \A m : FinalsIn(f, name, m) = UNION {Of(l) : l \in LinesIn(f, "final", name, m)}
    BY DEF FinalsIn
  <2> HIDE DEF name, Of
  <2> QED
    BY <1>1, <1>2, <2>1
<1>4. /\ EdgesIn(f, name, n + 1) = EdgesIn(f, name, n) \cup {}
      /\ StartsIn(f, name, n + 1) = StartsIn(f, name, n) \cup {}
  BY NoEdges, NoStarts
<1>5. {} \cup names \cup Ends({}) = names
  BY DEF Ends
<1> HIDE DEF name
<1>6. LineAdds(f, name, n, {}, {} \cup names \cup Ends({}), names, {})
  BY <1>3, <1>4, StatesAdded
<1> QED
  BY <1>5, <1>6 DEF name

\* What a "start:" line adds.
LEMMA StartLine ==
  ASSUME NEW f, NEW n \in Nat, f.lines[n + 1].kind = "start"
  PROVE  LineAdds(f, BoxOf(f, n + 1), n, {}, {f.lines[n + 1].value}, {}, {f.lines[n + 1].value})
<1> DEFINE name == BoxOf(f, n + 1)
           T == {f.lines[n + 1].value}
<1>1. LinesIn(f, "start", name, n + 1) = LinesIn(f, "start", name, n) \cup {n + 1}
  BY OneLine
<1>2. StartsIn(f, name, n + 1) = StartsIn(f, name, n) \cup T
  <2> HIDE DEF name
  <2> QED
    BY <1>1 DEF StartsIn
<1>3. /\ EdgesIn(f, name, n + 1) = EdgesIn(f, name, n) \cup {}
      /\ FinalsIn(f, name, n + 1) = FinalsIn(f, name, n) \cup {}
  BY NoEdges, NoFinals
<1>4. T \cup {} \cup Ends({}) = T
  BY DEF Ends
<1> HIDE DEF name, T
<1>5. LineAdds(f, name, n, {}, T \cup {} \cup Ends({}), {}, T)
  BY <1>2, <1>3, StatesAdded
<1> QED
  BY <1>4, <1>5 DEF name, T

-----------------------------------------------------------------------------
(* What is wrong with a line *)

\* Two sets of transitions give a state two transitions with a label.
KeysMeet(D, E) == \E d \in D, e \in E : d[1] = e[1] /\ d[2] = e[2]

\* Line n + 1 is not at fault after the lines before it.
LineGood(f, n) ==
  LET line == f.lines[n + 1]
      name == BoxOf(f, n + 1)
  IN /\ line.kind # "other"
     /\ name = NoName => line.kind \in {"skipped", "box", "start"}
     /\ name # NoName /\ line.kind = "start" =>
          LinesIn(f, "start", name, n) = {} /\ ~IsIndexed(line.value)
     /\ name # NoName /\ line.kind = "transition" =>
          /\ ~KeysMeet(EdgesIn(f, name, n), LineEdges(f, line))
          /\ ~SelfConflict(f, line)

\* The conflicts between different lines are those of what the lines say.
LEMMA MeetOrNot ==
  ASSUME NEW f, NEW name, NEW n \in Nat
  PROVE  KeysMeet(EdgesIn(f, name, n), LineEdges(f, f.lines[n + 1])) <=>
           \E m \in LinesIn(f, "transition", name, n) : ~NoConflict(f, m, n + 1)
<1>1. \A m \in LinesIn(f, "transition", name, n) : m # n + 1
  BY DEF LinesIn
<1>2. ASSUME KeysMeet(EdgesIn(f, name, n), LineEdges(f, f.lines[n + 1]))
      PROVE  \E m \in LinesIn(f, "transition", name, n) : ~NoConflict(f, m, n + 1)
  <2>1. PICK d \in EdgesIn(f, name, n), e \in LineEdges(f, f.lines[n + 1]) :
          d[1] = e[1] /\ d[2] = e[2]
    BY <1>2 DEF KeysMeet
  <2>2. PICK m \in LinesIn(f, "transition", name, n), i \in 0 .. BlocksOf(f) - 1 :
          d = Instance(f.lines[m], i)
    BY DEF EdgesIn
  <2>3. PICK j \in 0 .. BlocksOf(f) - 1 : e = Instance(f.lines[n + 1], j)
    BY DEF LineEdges
  <2>4. m # n + 1
    BY <1>1
  <2> QED
    BY <2>1, <2>2, <2>3, <2>4 DEF NoConflict
<1>3. ASSUME NEW m \in LinesIn(f, "transition", name, n), ~NoConflict(f, m, n + 1)
      PROVE  KeysMeet(EdgesIn(f, name, n), LineEdges(f, f.lines[n + 1]))
  <2>1. PICK i \in 0 .. BlocksOf(f) - 1, j \in 0 .. BlocksOf(f) - 1 :
          /\ Instance(f.lines[m], i)[1] = Instance(f.lines[n + 1], j)[1]
          /\ Instance(f.lines[m], i)[2] = Instance(f.lines[n + 1], j)[2]
    BY <1>3 DEF NoConflict
  <2>2. Instance(f.lines[m], i) \in EdgesIn(f, name, n)
    BY DEF EdgesIn
  <2>3. Instance(f.lines[n + 1], j) \in LineEdges(f, f.lines[n + 1])
    BY DEF LineEdges
  <2> QED
    BY <2>1, <2>2, <2>3 DEF KeysMeet
<1> QED
  BY <1>2, <1>3

\* Conflicts are symmetric.
LEMMA NoConflictTurned ==
  ASSUME NEW f, NEW n, NEW m, NoConflict(f, n, m)
  PROVE  NoConflict(f, m, n)
BY DEF NoConflict

\* A line conflicts with itself in two of its blocks.
LEMMA SelfOrNot ==
  ASSUME NEW f, NEW n
  PROVE  SelfConflict(f, f.lines[n]) <=> ~NoConflict(f, n, n)
BY DEF SelfConflict, NoConflict

\* The parts of SoFarGood.
KindsGood(f, last) ==
  \A n \in 1 .. last :
    /\ f.lines[n].kind # "other"
    /\ BoxOf(f, n) = NoName => f.lines[n].kind \in {"skipped", "box", "start"}
StartsGood(f, last, name) ==
  /\ \A n, m \in LinesIn(f, "start", name, last) : n = m
  /\ \A n \in LinesIn(f, "start", name, last) : ~IsIndexed(f.lines[n].value)
EdgesGood(f, last, name) ==
  \A n, m \in LinesIn(f, "transition", name, last) : NoConflict(f, n, m)

\* SoFarGood by box.
LEMMA GoodParts ==
  ASSUME NEW f, NEW last
  PROVE  SoFarGood(f, last) <=>
           /\ KindsGood(f, last)
           /\ \A name \in BoxNames(f) : StartsGood(f, last, name) /\ EdgesGood(f, last, name)
BY DEF SoFarGood, KindsGood, StartsGood, EdgesGood, DeterministicTo

\* A file is not at fault so far iff the last line is not and those before are not.
LEMMA NextGood ==
  ASSUME NEW f \in RSMFiles, NEW n \in 0 .. Len(f.lines) - 1
  PROVE  SoFarGood(f, n + 1) <=> SoFarGood(f, n) /\ LineGood(f, n)
<1> DEFINE line == f.lines[n + 1]
           box0 == BoxOf(f, n + 1)
<1>1. n \in Nat /\ n \in 0 .. Len(f.lines) /\ n + 1 \in 1 .. Len(f.lines)
  BY LineTypes
<1>2. box0 \in BoxNames(f) \cup {NoName} /\ NoName \notin BoxNames(f)
  BY <1>1, BoxOfIsABox
<1>3. KindsGood(f, n + 1) <=>
        /\ KindsGood(f, n)
        /\ line.kind # "other" /\ (box0 = NoName => line.kind \in {"skipped", "box", "start"})
  <2>1. \A m : m \in 1 .. n + 1 <=> m \in 1 .. n \/ m = n + 1
    BY <1>1
  <2> QED
    BY <2>1 DEF KindsGood
<1>4. ASSUME NEW name, name # box0
      PROVE  /\ StartsGood(f, n + 1, name) <=> StartsGood(f, n, name)
             /\ EdgesGood(f, n + 1, name) <=> EdgesGood(f, n, name)
  BY <1>1, <1>4, NoLine DEF StartsGood, EdgesGood
<1>5. StartsGood(f, n + 1, box0) <=>
        /\ StartsGood(f, n, box0)
        /\ line.kind = "start" => LinesIn(f, "start", box0, n) = {} /\ ~IsIndexed(line.value)
  <2>1. CASE line.kind = "start"
    <3>1. LinesIn(f, "start", box0, n + 1) = LinesIn(f, "start", box0, n) \cup {n + 1}
      BY <1>1, <2>1 DEF LinesIn
    <3>2. n + 1 \notin LinesIn(f, "start", box0, n)
      BY <1>1 DEF LinesIn
    <3> HIDE DEF box0
    <3> QED
      BY <2>1, <3>1, <3>2 DEF StartsGood
  <2>2. CASE line.kind # "start"
    <3>1. LinesIn(f, "start", box0, n + 1) = LinesIn(f, "start", box0, n)
      BY <1>1, <2>2, NoLine
    <3> HIDE DEF box0
    <3> QED
      BY <2>2, <3>1 DEF StartsGood
  <2> QED
    BY <2>1, <2>2
<1>6. EdgesGood(f, n + 1, box0) <=>
        /\ EdgesGood(f, n, box0)
        /\ line.kind = "transition" =>
             /\ ~KeysMeet(EdgesIn(f, box0, n), LineEdges(f, line))
             /\ ~SelfConflict(f, line)
  <2>1. CASE line.kind = "transition"
    <3>1. LinesIn(f, "transition", box0, n + 1) = LinesIn(f, "transition", box0, n) \cup {n + 1}
      BY <1>1, <2>1 DEF LinesIn
    <3>2. KeysMeet(EdgesIn(f, box0, n), LineEdges(f, line)) <=>
            \E m \in LinesIn(f, "transition", box0, n) : ~NoConflict(f, m, n + 1)
      BY <1>1, MeetOrNot
    <3>3. SelfConflict(f, line) <=> ~NoConflict(f, n + 1, n + 1)
      BY SelfOrNot
    <3>4. \A m : NoConflict(f, m, n + 1) <=> NoConflict(f, n + 1, m)
      BY NoConflictTurned
    <3> HIDE DEF box0, line
    <3> QED
      BY <2>1, <3>1, <3>2, <3>3, <3>4 DEF EdgesGood
  <2>2. CASE line.kind # "transition"
    <3>1. LinesIn(f, "transition", box0, n + 1) = LinesIn(f, "transition", box0, n)
      BY <1>1, <2>2, NoLine
    <3> HIDE DEF box0
    <3> QED
      BY <2>2, <3>1 DEF EdgesGood
  <2> QED
    BY <2>1, <2>2
<1>7. LineGood(f, n) <=>
        /\ line.kind # "other" /\ (box0 = NoName => line.kind \in {"skipped", "box", "start"})
        /\ box0 # NoName /\ line.kind = "start" =>
             LinesIn(f, "start", box0, n) = {} /\ ~IsIndexed(line.value)
        /\ box0 # NoName /\ line.kind = "transition" =>
             ~KeysMeet(EdgesIn(f, box0, n), LineEdges(f, line)) /\ ~SelfConflict(f, line)
  BY DEF LineGood
<1> HIDE DEF line, box0
<1>8. CASE box0 = NoName
  <2>1. \A name \in BoxNames(f) : name # box0
    BY <1>2, <1>8
  <2> QED
    BY <1>3, <1>4, <1>7, <1>8, <2>1, GoodParts
<1>9. CASE box0 # NoName
  <2>1. box0 \in BoxNames(f)
    BY <1>2, <1>9
  <2> QED
    BY <1>3, <1>4, <1>5, <1>6, <1>7, <1>9, <2>1, GoodParts
<1> QED
  BY <1>8, <1>9

\* No line of a file without fault is at fault.
LEMMA NoLineAtFault ==
  ASSUME NEW f \in RSMFiles, SoFarGood(f, Len(f.lines)), NEW n \in 0 .. Len(f.lines) - 1
  PROVE  LineGood(f, n)
<1>1. Len(f.lines) \in Nat
  BY LineTypes
<1>2. 1 .. n + 1 \subseteq 1 .. Len(f.lines)
  BY <1>1
<1>3. KindsGood(f, n + 1)
  <2>1. KindsGood(f, Len(f.lines))
    BY GoodParts
  <2> QED
    BY <1>2, <2>1 DEF KindsGood
<1>4. \A kind, name : LinesIn(f, kind, name, n + 1) \subseteq LinesIn(f, kind, name, Len(f.lines))
  BY <1>2 DEF LinesIn
<1>5. ASSUME NEW name \in BoxNames(f)
      PROVE  StartsGood(f, n + 1, name) /\ EdgesGood(f, n + 1, name)
  <2>1. StartsGood(f, Len(f.lines), name) /\ EdgesGood(f, Len(f.lines), name)
    BY GoodParts
  <2> QED
    BY <1>4, <2>1 DEF StartsGood, EdgesGood
<1>6. SoFarGood(f, n + 1)
  BY <1>3, <1>5, GoodParts
<1> QED
  BY <1>6, NextGood

\* Before the first line nothing is at fault.
LEMMA GoodStart ==
  ASSUME NEW f
  PROVE  SoFarGood(f, 0)
<1>1. \A kind, name : LinesIn(f, kind, name, 0) = {}
  BY DEF LinesIn
<1>2. 1 .. 0 = {}
  OBVIOUS
<1> QED
  BY <1>1, <1>2, GoodParts DEF KindsGood, StartsGood, EdgesGood

-----------------------------------------------------------------------------
(* The machine after a line *)

\* Adds, with start states.
Extends(r, s, edges, states, finals, starts) ==
  /\ MachineFits(s) /\ TermsGrow(r, s) /\ s.start_nonterm = r.start_nonterm
  /\ \A b \in DOMAIN r.boxes : b # Cur(r) => s.boxes[b] = r.boxes[b]
  /\ SpelledEdges(s, s.boxes[Cur(r)]) = SpelledEdges(r, r.boxes[Cur(r)]) \cup edges
  /\ LabelsOf(s.boxes[Cur(r)].states) = LabelsOf(r.boxes[Cur(r)].states) \cup states
  /\ SpelledFinals(s.boxes[Cur(r)]) = SpelledFinals(r.boxes[Cur(r)]) \cup finals
  /\ SpelledStarts(s.boxes[Cur(r)]) = SpelledStarts(r.boxes[Cur(r)]) \cup starts

\* A line without a start state.
LEMMA AddsExtends ==
  ASSUME NEW r, NEW s, NEW E, NEW S, NEW F, Adds(r, s, E, S, F)
  PROVE  Extends(r, s, E, S, F, {})
BY DEF Adds, Extends

\* rsm_set_start_state for a box that has no start state.
LEMMA StartAdded ==
  ASSUME NEW r, MachineFits(r), box \in LabelsOf(r.nonterms), NEW st \in LabelRecord,
         rsm_get_box(r, box).start_state = RSM_NO_STATE,
         NEW t, t = rsm_set_start_state(ensure_state(r, st), box, st)
  PROVE  Extends(r, t, {}, {st}, {}, {st}) /\ t.status = r.status
<1> DEFINE s == ensure_state(r, st)
           x == s.boxes[Cur(s)]
           k == Index(x.states, st)
           y == [x EXCEPT !.start_state = k]
<1>1. Adds(r, s, {}, {st}, {}) /\ s.status = r.status
  BY EnsureState
<1>2. t = rsm_set_start_state(s, box, st)
  OBVIOUS
<1> HIDE DEF s
<1>3. MachineFits(s) /\ s.nonterms = r.nonterms /\ Cur(s) = Cur(r)
  BY <1>1 DEF Adds, TermsGrow, Cur
<1>4. /\ Has(s.nonterms, box) /\ Cur(s) \in DOMAIN s.boxes /\ rsm_get_box(s, box) = x
      /\ x \in CFG_RSM_Box /\ BoxFits(s, x)
  BY <1>3, Current
<1>5. Cur(r) \in DOMAIN r.boxes /\ SpelledStarts(r.boxes[Cur(r)]) = {}
  BY Current DEF SpelledStarts, RSM_NO_STATE
<1>6. LabelsOf(x.states) = LabelsOf(r.boxes[Cur(r)].states) \cup {st}
  BY <1>1, <1>3 DEF Adds
<1>7. Has(x.states, st) /\ k \in 1 .. Len(x.states) /\ x.states[k].label = st
  BY <1>4, <1>6, BoxParts, IndexOf
<1>8. t = WithBox(s, Cur(s), y)
  BY <1>2, <1>4, <1>7 DEF rsm_set_start_state, InBox, WithBox, Cur, rsm_get_box
<1> HIDE DEF k
<1>9. /\ y \in CFG_RSM_Box /\ BoxFits(s, y)
      /\ SpelledStarts(y) = {x.states[k].label}
      /\ SpelledEdges(s, y) = SpelledEdges(s, x) /\ SpelledFinals(y) = SpelledFinals(x)
      /\ y.states = x.states
  BY <1>4, <1>7, StartSet
<1> HIDE DEF y
<1>10. /\ MachineFits(t) /\ t.nonterms = s.nonterms /\ t.terms = s.terms
       /\ t.status = s.status /\ t.start_nonterm = s.start_nonterm
       /\ t.boxes[Cur(s)] = y
       /\ \A b \in DOMAIN s.boxes : b # Cur(s) => t.boxes[b] = s.boxes[b]
  BY <1>3, <1>4, <1>8, <1>9, WithBoxFits
<1>11. SpelledEdges(t, y) = SpelledEdges(s, y)
  BY <1>10 DEF SpelledEdges, SpelledEdge, EdgeLabel
<1>12. DOMAIN s.boxes = DOMAIN r.boxes
  BY <1>3, Parts
<1>13. TermsGrow(r, t)
  BY <1>1, <1>10 DEF Adds, TermsGrow
<1>14. \A b \in DOMAIN r.boxes : b # Cur(r) => t.boxes[b] = r.boxes[b]
  BY <1>1, <1>3, <1>10, <1>12 DEF Adds
<1>15. /\ SpelledEdges(t, t.boxes[Cur(r)]) = SpelledEdges(r, r.boxes[Cur(r)]) \cup {}
       /\ LabelsOf(t.boxes[Cur(r)].states) = LabelsOf(r.boxes[Cur(r)].states) \cup {st}
       /\ SpelledFinals(t.boxes[Cur(r)]) = SpelledFinals(r.boxes[Cur(r)]) \cup {}
       /\ SpelledStarts(t.boxes[Cur(r)]) = SpelledStarts(r.boxes[Cur(r)]) \cup {st}
  BY <1>1, <1>3, <1>5, <1>7, <1>9, <1>10, <1>11 DEF Adds
<1> QED
  BY <1>1, <1>10, <1>13, <1>14, <1>15 DEF Extends, Adds

\* Every box says what its lines up to line n say.
Says(f, r, n) == \A b \in DOMAIN r.boxes : BoxSpells(f, r, b, n)

\* A line that adds nothing to the boxes.
LEMMA NothingRead ==
  ASSUME NEW f, NEW r, NEW n, Says(f, r, n),
         \A b \in DOMAIN r.boxes : LineAdds(f, r.nonterms[b].label, n, {}, {}, {}, {})
  PROVE  Says(f, r, n + 1)
BY DEF Says, BoxSpells, LineAdds

\* A line of the current box.
LEMMA LineRead ==
  ASSUME NEW f, NEW r, NEW s, NEW n \in Nat, MachineFits(r), box \in LabelsOf(r.nonterms),
         box = BoxOf(f, n + 1), Says(f, r, n), NEW E, NEW S, NEW F, NEW T,
         Extends(r, s, E, S, F, T), LineAdds(f, box, n, E, S, F, T)
  PROVE  MachineFits(s) /\ TermsGrow(r, s) /\ s.start_nonterm = r.start_nonterm /\ Says(f, s, n + 1)
<1>1. /\ MachineFits(s) /\ TermsGrow(r, s) /\ s.start_nonterm = r.start_nonterm
      /\ s.nonterms = r.nonterms
  BY DEF Extends, TermsGrow
<1>2. DOMAIN s.boxes = DOMAIN r.boxes /\ Len(s.terms) \in Nat
  BY <1>1, Parts
<1>3. Cur(r) \in DOMAIN r.boxes /\ r.nonterms[Cur(r)].label = box
  BY Current
<1>4. BoxSpells(f, s, Cur(r), n + 1)
  BY <1>1, <1>3 DEF Says, BoxSpells, LineAdds, Extends
<1>5. ASSUME NEW b \in DOMAIN r.boxes, b # Cur(r) PROVE BoxSpells(f, s, b, n + 1)
  <2>1. r.nonterms[b].label # box
    <3>1. b \in DOMAIN r.nonterms /\ Cur(r) \in DOMAIN r.nonterms
      BY <1>3, Parts
    <3> QED
      BY <1>3, <1>5, <3>1 DEF MachineFits, DistinctLabels
  <2>2. LineAdds(f, r.nonterms[b].label, n, {}, {}, {}, {})
    BY <2>1, LineOfAnother
  <2>3. r.boxes[b] \in CFG_RSM_Box /\ BoxFits(r, r.boxes[b])
    <3>1. r.boxes \in Seq(CFG_RSM_Box)
      BY Parts
    <3>2. r.boxes[b] \in CFG_RSM_Box
      BY <3>1
    <3> QED
      BY <3>2 DEF MachineFits
  <2>4. s.boxes[b] = r.boxes[b] /\ SpelledEdges(s, s.boxes[b]) = SpelledEdges(r, r.boxes[b])
    <3>1. s.boxes[b] = r.boxes[b]
      BY <1>5 DEF Extends
    <3>2. SpelledEdges(s, r.boxes[b]) = SpelledEdges(r, r.boxes[b])
      BY <1>1, <1>2, <2>3, SameWithMoreTerms
    <3> QED
      BY <3>1, <3>2
  <2> QED
    BY <1>1, <2>2, <2>4 DEF Says, BoxSpells, LineAdds
<1> QED
  BY <1>1, <1>2, <1>4, <1>5 DEF Says

\* The keys of the current box are those of the lines read.
LEMMA KeysRead ==
  ASSUME NEW f, NEW r, NEW n, MachineFits(r), box \in LabelsOf(r.nonterms), Says(f, r, n), NEW E
  PROVE  KeysIn(r, E) <=> KeysMeet(EdgesIn(f, box, n), E)
<1>1. Cur(r) \in DOMAIN r.boxes /\ r.nonterms[Cur(r)].label = box
  BY Current
<1>2. SpelledEdges(r, r.boxes[Cur(r)]) = EdgesIn(f, box, n)
  BY <1>1 DEF Says, BoxSpells
<1> QED
  BY <1>2 DEF KeysIn, KeyIn, KeysMeet

\* A box has no start state as long as no line has given it one.
LEMMA StartsRead ==
  ASSUME NEW f, NEW r, NEW n, Says(f, r, n), NEW b \in DOMAIN r.boxes
  PROVE  r.boxes[b].start_state = RSM_NO_STATE <=> LinesIn(f, "start", r.nonterms[b].label, n) = {}
<1>1. SpelledStarts(r.boxes[b]) = StartsIn(f, r.nonterms[b].label, n)
  BY DEF Says, BoxSpells
<1>2. StartsIn(f, r.nonterms[b].label, n) = {} <=> LinesIn(f, "start", r.nonterms[b].label, n) = {}
  BY DEF StartsIn
<1> QED
  BY <1>1, <1>2 DEF SpelledStarts, RSM_NO_STATE

-----------------------------------------------------------------------------
(* Reading the lines *)

\* The start box, one line further.
LEMMA NextStart ==
  ASSUME NEW f, NEW n \in Nat
  PROVE  StartValue(f, n + 1) =
           IF f.lines[n + 1].kind = "start" /\ BoxOf(f, n + 1) = NoName
           THEN f.lines[n + 1].value ELSE StartValue(f, n)
<1>1. CASE f.lines[n + 1].kind = "start" /\ BoxOf(f, n + 1) = NoName
  <2>1. LinesIn(f, "start", NoName, n + 1) = LinesIn(f, "start", NoName, n) \cup {n + 1}
    BY <1>1, OneLine
  <2>2. LinesIn(f, "start", NoName, n) \in SUBSET (1 .. n)
    BY DEF LinesIn
  <2>3. Max(LinesIn(f, "start", NoName, n + 1)) = n + 1
    BY <2>1, <2>2, MaxOfNext
  <2> QED
    BY <1>1, <2>1, <2>3 DEF StartValue
<1>2. CASE ~(f.lines[n + 1].kind = "start" /\ BoxOf(f, n + 1) = NoName)
  <2>1. LinesIn(f, "start", NoName, n + 1) = LinesIn(f, "start", NoName, n)
    BY <1>2, NoLine
  <2> QED
    BY <1>2, <2>1 DEF StartValue
<1> QED
  BY <1>1, <1>2

\* The start box is a name or none.
LEMMA StartValueTyped ==
  ASSUME NEW f \in RSMFiles, NEW n \in 0 .. Len(f.lines)
  PROVE  /\ StartValue(f, n) \in LabelRecord \cup {NoName}
         /\ LinesIn(f, "start", NoName, n) # {} => StartValue(f, n) # NoName
<1>1. n \in Nat /\ 1 .. n \subseteq 1 .. Len(f.lines)
  BY LineTypes
<1>2. LinesIn(f, "start", NoName, n) \in SUBSET (1 .. n)
  BY DEF LinesIn
<1>3. ASSUME LinesIn(f, "start", NoName, n) # {}
      PROVE  StartValue(f, n) \in LabelRecord \ {NoName}
  <2> DEFINE m == Max(LinesIn(f, "start", NoName, n))
  <2>1. m \in LinesIn(f, "start", NoName, n)
    BY <1>1, <1>2, <1>3, MaxOf
  <2> HIDE DEF m
  <2>2. m \in 1 .. Len(f.lines) /\ f.lines[m].kind = "start"
    BY <1>1, <2>1 DEF LinesIn
  <2>3. f.lines[m].value \in LabelRecord \ {NoName}
    BY <2>2, LineFields
  <2> QED
    BY <1>3, <2>3 DEF StartValue, m
<1> QED
  BY <1>3 DEF StartValue

\* What the invariant says at a line of the second pass.
AtALine ==
  /\ file \in RSMFiles /\ line_no \in 0 .. Len(file.lines) - 1 /\ line_no \in Nat
  /\ MachineFits(rsm) /\ rsm.status = "ok"
  /\ Says(file, rsm, line_no) /\ SoFarGood(file, line_no)
  /\ box = BoxOf(file, line_no + 1) /\ start_box = StartValue(file, line_no)
  /\ LabelsOf(rsm.nonterms) = BoxNames(file) /\ NoName \notin BoxNames(file)
  /\ box # NoName => box \in LabelsOf(rsm.nonterms)
  /\ Line = file.lines[line_no + 1]

\* What the invariant says at a line of the second pass.
LEMMA LinesFacts ==
  ASSUME ReaderInv, pc = "lines", line_no < Len(file.lines)
  PROVE  AtALine
<1>1. file \in RSMFiles /\ line_no \in 0 .. Len(file.lines) /\ MachineFits(rsm) /\ rsm.status = "ok"
  BY DEF ReaderInv
<1>2. Reading(file, rsm, line_no, box, start_box)
  BY DEF ReaderInv
<1>3. Len(file.lines) \in Nat
  BY <1>1, LineTypes
<1>4. line_no \in 0 .. Len(file.lines) - 1 /\ line_no \in Nat
  BY <1>1, <1>3
<1>5. LabelsOf(rsm.nonterms) = BoxNames(file)
  BY <1>2 DEF Reading, Collected, BoxNames
<1>6. box = BoxOf(file, line_no + 1)
  BY <1>2 DEF Reading
<1>7. box \in BoxNames(file) \cup {NoName} /\ NoName \notin BoxNames(file)
  BY <1>1, <1>6, BoxOfIsABox
<1>8. Says(file, rsm, line_no) /\ SoFarGood(file, line_no) /\ start_box = StartValue(file, line_no)
  BY <1>2 DEF Reading, Says
<1> QED
  BY <1>1, <1>4, <1>5, <1>6, <1>7, <1>8 DEF AtALine, Line

\* A line without fault is read, and the boxes say what it says.
LEMMA GoesOn ==
  ASSUME ReaderInv, pc = "lines", line_no < Len(file.lines),
         Continue(rsm'), MachineFits(rsm'), TermsGrow(rsm, rsm'), rsm'.status = "ok",
         Says(file, rsm', line_no + 1), LineGood(file, line_no),
         box' = BoxOf(file, line_no + 2), start_box' = StartValue(file, line_no + 1)
  PROVE  ReaderInv'
<1>1. AtALine
  BY LinesFacts
<1>2. file' = file /\ pc' = "lines" /\ line_no' = line_no + 1
  BY DEF Continue
<1>3. Reading(file, rsm, line_no, box, start_box)
  BY DEF ReaderInv
<1>4. Len(file.lines) \in Nat
  BY <1>1, LineTypes DEF AtALine
<1>5. line_no + 1 \in 0 .. Len(file.lines) /\ line_no + 2 = (line_no + 1) + 1
  BY <1>1, <1>4 DEF AtALine
<1>6. rsm'.nonterms = rsm.nonterms
  BY DEF TermsGrow
<1>7. TermsKept(file, rsm')
  <2>1. TermsKept(file, rsm)
    BY <1>3 DEF Reading
  <2>2. Len(rsm.terms) \in Nat /\ Len(rsm'.terms) \in Nat
    BY <1>1, Parts DEF AtALine
  <2>3. Len(file.terms) \in Nat /\ DOMAIN file.terms = 1 .. Len(file.terms)
    <3>1. file.terms \in Seq(Symbol(LabelRecord))
      BY <1>1, LineTypes DEF AtALine
    <3> QED
      BY <3>1
  <2>4. Len(file.terms) <= Len(rsm.terms) /\ Len(rsm.terms) <= Len(rsm'.terms)
    BY <2>1 DEF TermsKept, TermsGrow
  <2>5. ASSUME NEW t \in DOMAIN file.terms PROVE rsm'.terms[t] = file.terms[t]
    <3>1. t \in 1 .. Len(rsm.terms)
      BY <2>2, <2>3, <2>4
    <3>2. rsm'.terms[t] = rsm.terms[t]
      BY <3>1 DEF TermsGrow
    <3> QED
      BY <2>1, <3>2 DEF TermsKept
  <2> QED
    BY <2>2, <2>3, <2>4, <2>5 DEF TermsKept
<1>8. SoFarGood(file, line_no + 1)
  BY <1>1, NextGood DEF AtALine
<1>9. Reading(file, rsm', line_no + 1, box', start_box')
  BY <1>3, <1>5, <1>6, <1>7, <1>8 DEF Reading, Collected, Says
<1>10. box' \in LabelRecord \cup {NoName} /\ start_box' \in LabelRecord \cup {NoName}
  BY <1>1, <1>5, BoxOfIsABox, StartValueTyped DEF AtALine
<1> QED
  BY <1>1, <1>2, <1>5, <1>9, <1>10 DEF ReaderInv, AtALine

\* A file that is refused is at fault.
LEMMA Refused ==
  ASSUME ReaderInv, file' = file, pc' = "rejected", line_no' \in 0 .. Len(file.lines),
         MachineFits(rsm'), box' = box, start_box' = start_box, ~GoodFile(file)
  PROVE  ReaderInv'
BY DEF ReaderInv

\* A line at fault makes the file one at fault.
LEMMA BadLine ==
  ASSUME ReaderInv, pc = "lines", line_no < Len(file.lines), ~LineGood(file, line_no)
  PROVE  ~GoodFile(file)
<1>1. AtALine
  BY LinesFacts
<1> QED
  BY <1>1, NoLineAtFault DEF AtALine, GoodFile

\* A line that adds nothing: a comment, the header of a box, or "start:" before the first box.
LEMMA NothingSteps ==
  ASSUME ReaderInv, ReadSkipped \/ ReadBox \/ ReadStartBox
  PROVE  ReaderInv'
<1>1. /\ pc = "lines" /\ line_no < Len(file.lines) /\ Continue(rsm) /\ rsm' = rsm
  BY DEF ReadSkipped, ReadBox, ReadStartBox, AtLine, Continue
<1>2. AtALine
  BY <1>1, LinesFacts
<1>3. /\ Line.kind \in {"skipped", "box", "start"}
      /\ Line.kind = "start" => box = NoName
      /\ box' = (IF Line.kind = "box" THEN Line.name ELSE box)
      /\ start_box' = (IF Line.kind = "start" THEN Line.value ELSE start_box)
  BY DEF ReadSkipped, ReadBox, ReadStartBox, AtLine
<1>4. box' = BoxOf(file, line_no + 2)
  BY <1>2, <1>3, NextBox DEF AtALine
<1>5. start_box' = StartValue(file, line_no + 1)
  BY <1>2, <1>3, NextStart DEF AtALine
<1>6. LineGood(file, line_no)
  BY <1>2, <1>3 DEF LineGood, AtALine
<1>7. ASSUME NEW b \in DOMAIN rsm.boxes
      PROVE  LineAdds(file, rsm.nonterms[b].label, line_no, {}, {}, {}, {})
  <2>1. b \in DOMAIN rsm.nonterms
    BY <1>2, Parts DEF AtALine
  <2>2. rsm.nonterms[b].label # NoName
    BY <1>2, <2>1 DEF AtALine, LabelsOf
  <2>3. \/ BoxOf(file, line_no + 1) # rsm.nonterms[b].label
        \/ file.lines[line_no + 1].kind \notin {"transition", "final", "start"}
    BY <1>2, <1>3, <2>2 DEF AtALine
  <2> QED
    BY <1>2, <2>3, LineOfAnother DEF AtALine
<1>8. Says(file, rsm, line_no + 1)
  BY <1>2, <1>7, NothingRead DEF AtALine
<1>9. TermsGrow(rsm, rsm)
  <2>1. Len(rsm.terms) <= Len(rsm.terms)
    BY <1>2, Parts DEF AtALine
  <2> QED
    BY <2>1 DEF TermsGrow
<1> QED
  BY <1>1, <1>2, <1>4, <1>5, <1>6, <1>8, <1>9, GoesOn DEF AtALine

\* The line is read in the box it is in.
LEMMA BoxStays ==
  ASSUME AtALine, Line.kind # "box", box # NoName, UNCHANGED <<box, start_box>>
  PROVE  box' = BoxOf(file, line_no + 2) /\ start_box' = StartValue(file, line_no + 1)
BY NextBox, NextStart DEF AtALine

\* A box gets its start state.
LEMMA ReadStartStateStep ==
  ASSUME ReaderInv, ReadStartState
  PROVE  ReaderInv'
<1> DEFINE t == rsm_set_start_state(ensure_state(rsm, Line.value), box, Line.value)
           v == Line.value
<1>1. /\ pc = "lines" /\ line_no < Len(file.lines) /\ Continue(t) /\ rsm' = t
      /\ Line.kind = "start" /\ box # NoName /\ ~IsIndexed(v)
      /\ rsm_get_box(rsm, box).start_state = RSM_NO_STATE
      /\ UNCHANGED <<box, start_box>>
  BY DEF ReadStartState, AtLine, Continue
<1>2. AtALine
  BY <1>1, LinesFacts
<1>3. line_no + 1 \in 1 .. Len(file.lines)
  BY <1>2 DEF AtALine
<1>4. v \in LabelRecord
  BY <1>1, <1>2, <1>3, LineFields DEF AtALine
<1>5. box \in LabelsOf(rsm.nonterms)
  BY <1>1, <1>2 DEF AtALine
<1>6. Extends(rsm, t, {}, {v}, {}, {v}) /\ t.status = rsm.status
  BY <1>1, <1>2, <1>4, <1>5, StartAdded DEF AtALine
<1>7. LineAdds(file, box, line_no, {}, {v}, {}, {v})
  BY <1>1, <1>2, StartLine DEF AtALine
<1> HIDE DEF t, v
<1>8. MachineFits(t) /\ TermsGrow(rsm, t) /\ Says(file, t, line_no + 1)
  BY <1>2, <1>5, <1>6, <1>7, LineRead DEF AtALine
<1>9. LinesIn(file, "start", box, line_no) = {}
  <2>1. Cur(rsm) \in DOMAIN rsm.boxes /\ rsm.nonterms[Cur(rsm)].label = box
        /\ rsm_get_box(rsm, box) = rsm.boxes[Cur(rsm)]
    BY <1>2, <1>5, Current DEF AtALine
  <2> QED
    BY <1>1, <1>2, <2>1, StartsRead DEF AtALine
<1>10. LineGood(file, line_no)
  BY <1>1, <1>2, <1>9 DEF LineGood, AtALine, v
<1>11. box' = BoxOf(file, line_no + 2) /\ start_box' = StartValue(file, line_no + 1)
  BY <1>1, <1>2, BoxStays
<1>12. Continue(rsm') /\ rsm'.status = "ok"
  BY <1>1, <1>2, <1>6 DEF AtALine
<1> QED
  BY <1>1, <1>8, <1>10, <1>11, <1>12, GoesOn

\* A box gets final states.
LEMMA ReadFinalStep ==
  ASSUME ReaderInv, ReadFinal
  PROVE  ReaderInv'
<1> DEFINE t == add_finals(rsm, Line.states)
           names == UNION {Numbered(file, st) : st \in ToSet(Line.states)}
<1>1. /\ pc = "lines" /\ line_no < Len(file.lines) /\ Continue(t) /\ rsm' = t
      /\ Line.kind = "final" /\ box # NoName
      /\ UNCHANGED <<box, start_box>>
  BY DEF ReadFinal, AtLine, Continue
<1>2. AtALine
  BY <1>1, LinesFacts
<1>3. line_no + 1 \in 1 .. Len(file.lines)
  BY <1>2 DEF AtALine
<1>4. Line.states \in Seq(LabelRecord)
  BY <1>1, <1>2, <1>3, LineFields DEF AtALine
<1>5. box \in LabelsOf(rsm.nonterms)
  BY <1>1, <1>2 DEF AtALine
<1>6. Adds(rsm, t, {}, names, names) /\ t.status = "ok"
  BY <1>2, <1>4, <1>5, AddFinals DEF AtALine
<1>7. LineAdds(file, box, line_no, {}, names, names, {})
  BY <1>1, <1>2, FinalsLine DEF AtALine
<1> HIDE DEF t, names
<1>8. MachineFits(t) /\ TermsGrow(rsm, t) /\ Says(file, t, line_no + 1)
  <2>1. Extends(rsm, t, {}, names, names, {})
    BY <1>6, AddsExtends
  <2> QED
    BY <1>2, <1>5, <1>7, <2>1, LineRead DEF AtALine
<1>9. LineGood(file, line_no)
  BY <1>1, <1>2 DEF LineGood, AtALine
<1>10. box' = BoxOf(file, line_no + 2) /\ start_box' = StartValue(file, line_no + 1)
  BY <1>1, <1>2, BoxStays
<1>11. Continue(rsm') /\ rsm'.status = "ok"
  BY <1>1, <1>6
<1> QED
  BY <1>1, <1>8, <1>9, <1>10, <1>11, GoesOn

\* A transition is read in each of its blocks, or the file is at fault.
LEMMA ReadTransitionStep ==
  ASSUME ReaderInv, ReadTransition
  PROVE  ReaderInv'
<1> DEFINE t == EdgeLine(rsm, Line.from, Line.label, Line.to)
           E == LineEdges(file, Line)
<1>1. /\ pc = "lines" /\ line_no < Len(file.lines) /\ Continue(t) /\ rsm' = t
      /\ Line.kind = "transition" /\ box # NoName
      /\ UNCHANGED <<box, start_box>>
  BY DEF ReadTransition, AtLine, Continue, EdgeLine
<1>2. AtALine
  BY <1>1, LinesFacts
<1>3. line_no + 1 \in 1 .. Len(file.lines)
  BY <1>2 DEF AtALine
<1>4. LineTyped(Line)
  BY <1>1, <1>2, <1>3, LineFields DEF AtALine, LineTyped
<1>5. box \in LabelsOf(rsm.nonterms)
  BY <1>1, <1>2 DEF AtALine
<1>6. \/ /\ t.status = "ok" /\ Adds(rsm, t, E, Ends(E), {})
         /\ ~KeysIn(rsm, E) /\ ~SelfConflict(file, Line)
      \/ /\ t.status = "rejected" /\ MachineFits(t)
         /\ KeysIn(rsm, E) \/ SelfConflict(file, Line)
  BY <1>2, <1>4, <1>5, AddLineEdges DEF AtALine
<1>7. KeysIn(rsm, E) <=> KeysMeet(EdgesIn(file, box, line_no), E)
  BY <1>2, <1>5, KeysRead DEF AtALine
<1>8. LineAdds(file, box, line_no, E, Ends(E), {}, {})
  BY <1>1, <1>2, TransitionLine DEF AtALine
<1>9. LineGood(file, line_no) <=> ~KeysMeet(EdgesIn(file, box, line_no), E) /\ ~SelfConflict(file, Line)
  BY <1>1, <1>2 DEF LineGood, AtALine
<1> HIDE DEF t, E
<1>10. CASE t.status = "ok"
  <2>1. Adds(rsm, t, E, Ends(E), {}) /\ LineGood(file, line_no)
    BY <1>6, <1>7, <1>9, <1>10
  <2>2. MachineFits(t) /\ TermsGrow(rsm, t) /\ Says(file, t, line_no + 1)
    <3>1. Extends(rsm, t, E, Ends(E), {}, {})
      BY <2>1, AddsExtends
    <3> QED
      BY <1>2, <1>5, <1>8, <3>1, LineRead DEF AtALine
  <2>3. box' = BoxOf(file, line_no + 2) /\ start_box' = StartValue(file, line_no + 1)
    BY <1>1, <1>2, BoxStays
  <2>4. Continue(rsm') /\ rsm'.status = "ok"
    BY <1>1, <1>10
  <2> QED
    BY <1>1, <2>1, <2>2, <2>3, <2>4, GoesOn
<1>11. CASE t.status # "ok"
  <2>1. t.status = "rejected" /\ MachineFits(t) /\ ~LineGood(file, line_no)
    BY <1>6, <1>7, <1>9, <1>11
  <2>2. ~GoodFile(file)
    BY <1>1, <2>1, BadLine
  <2>3. file' = file /\ pc' = "rejected" /\ line_no' = line_no + 1
    BY <1>1, <2>1 DEF Continue
  <2>4. line_no' \in 0 .. Len(file.lines)
    BY <1>2, <2>3, LineTypes DEF AtALine
  <2> QED
    BY <1>1, <2>1, <2>2, <2>3, <2>4, Refused
<1> QED
  BY <1>10, <1>11

\* A line at fault.
LEMMA ReadErrorStep ==
  ASSUME ReaderInv, ReadError
  PROVE  ReaderInv'
<1>1. /\ pc = "lines" /\ line_no < Len(file.lines) /\ Reject
  BY DEF ReadError, AtLine
<1>2. AtALine
  BY <1>1, LinesFacts
<1>3. ~LineGood(file, line_no)
  <2>1. CASE Line.kind = "other"
    BY <1>2, <2>1 DEF LineGood, AtALine
  <2>2. CASE Line.kind \in {"final", "transition"} /\ box = NoName
    BY <1>2, <2>2 DEF LineGood, AtALine
  <2>3. CASE /\ Line.kind = "start" /\ box # NoName
             /\ rsm_get_box(rsm, box).start_state # RSM_NO_STATE \/ IsIndexed(Line.value)
    <3>1. box \in LabelsOf(rsm.nonterms)
      BY <1>2, <2>3 DEF AtALine
    <3>2. Cur(rsm) \in DOMAIN rsm.boxes /\ rsm.nonterms[Cur(rsm)].label = box
          /\ rsm_get_box(rsm, box) = rsm.boxes[Cur(rsm)]
      BY <1>2, <3>1, Current DEF AtALine
    <3>3. rsm_get_box(rsm, box).start_state = RSM_NO_STATE <=> LinesIn(file, "start", box, line_no) = {}
      BY <1>2, <3>2, StartsRead DEF AtALine
    <3> QED
      BY <1>2, <2>3, <3>3 DEF LineGood, AtALine
  <2> QED
    BY <2>1, <2>2, <2>3 DEF ReadError, AtLine
<1>4. ~GoodFile(file)
  BY <1>1, <1>3, BadLine
<1>5. MachineFits(rsm) /\ line_no \in 0 .. Len(file.lines)
  BY DEF ReaderInv
<1> QED
  BY <1>1, <1>4, <1>5, Refused DEF Reject

-----------------------------------------------------------------------------
(* Collecting the boxes *)

\* An empty box.
LEMMA InitBox ==
  ASSUME NEW r
  PROVE  rsm_box_init \in CFG_RSM_Box /\ BoxFits(r, rsm_box_init)
<1>1. \A S : <<>> \in Seq(S) /\ DOMAIN <<>> = {} /\ Len(<<>>) = 0
  OBVIOUS
<1>2. rsm_box_init \in CFG_RSM_Box
  BY <1>1 DEF rsm_box_init, CFG_RSM_Box, RSM_NO_STATE
<1>3. BoxFits(r, rsm_box_init)
  BY <1>1 DEF BoxFits, rsm_box_init, DistinctLabels, FinalsFit, EdgesFit, IsInjective, RSM_NO_STATE
<1> QED
  BY <1>2, <1>3

\* Before rsm_from_file.
LEMMA InitFits ==
  ASSUME NEW f \in RSMFiles
  PROVE  MachineFits(rsm_init(f.terms)) /\ rsm_init(f.terms).status = "ok"
<1>1. f.terms \in Seq(Symbol(LabelRecord)) /\ DistinctLabels(f.terms)
  BY LineTypes
<1>2. \A S : <<>> \in Seq(S) /\ DOMAIN <<>> = {} /\ Len(<<>>) = 0
  OBVIOUS
<1> DEFINE r == rsm_init(f.terms)
<1>3. /\ r.nonterms = <<>> /\ r.boxes = <<>> /\ r.terms = f.terms /\ r.status = "ok"
      /\ r.with_intial_terms = TRUE
  BY DEF rsm_init
<1>4. r \in CFG_RSM
  BY <1>1, <1>2 DEF rsm_init, CFG_RSM, RSM_NO_NONTERM
<1> HIDE DEF r
<1>5. MachineFits(r)
  BY <1>1, <1>2, <1>3, <1>4 DEF MachineFits, DistinctLabels, LabelsOf
<1> QED
  BY <1>3, <1>5 DEF r

\* rsm_add_nonterm of a label that neither list has, while all boxes are empty.
LEMMA NontermAdded ==
  ASSUME NEW f, NEW r, MachineFits(r), AllInit(f, r), NEW label \in LabelRecord,
         label \notin LabelsOf(r.terms), label \notin LabelsOf(r.nonterms),
         NEW s, s = rsm_add_nonterm(r, label)
  PROVE  /\ MachineFits(s) /\ AllInit(f, s) /\ s.status = r.status
         /\ LabelsOf(s.nonterms) = LabelsOf(r.nonterms) \cup {label}
<1> DEFINE new == symbol_list_add_str(r.nonterms, label, TRUE)
           boxes == Append(r.boxes, rsm_box_init)
           start == IF r.start_nonterm = RSM_NO_NONTERM THEN Len(r.nonterms) + 1 ELSE r.start_nonterm
<1>2. /\ Listed(new) /\ DistinctLabels(new) /\ Len(new) = Len(r.nonterms) + 1
      /\ LabelsOf(new) = LabelsOf(r.nonterms) \cup {label}
  <2>1. Listed(r.nonterms) /\ DistinctLabels(r.nonterms) /\ TRUE \in BOOLEAN
    BY Parts DEF MachineFits
  <2> QED
    BY <2>1, NewLabel, Zenon
<1>3. ~Has(r.nonterms, label) /\ ~Has(r.terms, label) /\ Len(r.nonterms) = Len(r.boxes)
  BY Parts, IndexOf
<1>4. s = [r EXCEPT !.nonterms = new, !.boxes = boxes, !.start_nonterm = start]
  BY <1>3 DEF rsm_add_nonterm, Checked
<1>5. /\ boxes \in Seq(CFG_RSM_Box) /\ Len(boxes) = Len(r.boxes) + 1
      /\ \A b \in DOMAIN boxes : boxes[b] = rsm_box_init
  <2>1. r.boxes \in Seq(CFG_RSM_Box) /\ rsm_box_init \in CFG_RSM_Box
    BY Parts, InitBox
  <2>2. \A b \in 1 .. Len(r.boxes) : r.boxes[b] = rsm_box_init
    BY Parts DEF AllInit
  <2> HIDE DEF rsm_box_init
  <2>3. boxes \in Seq(CFG_RSM_Box) /\ Len(boxes) = Len(r.boxes) + 1 /\ DOMAIN boxes = 1 .. Len(r.boxes) + 1
    BY <2>1
  <2>4. ASSUME NEW b \in 1 .. Len(r.boxes) + 1 PROVE boxes[b] = rsm_box_init
    <3>1. CASE b = Len(r.boxes) + 1
      BY <2>1, <3>1
    <3>2. CASE b \in 1 .. Len(r.boxes)
      BY <2>1, <2>2, <3>2
    <3>3. Len(r.boxes) \in Nat
      BY <2>1
    <3> QED
      BY <3>1, <3>2, <3>3
  <2> QED
    BY <2>3, <2>4
<1>6. start \in Nat
  <2>1. r.start_nonterm \in Nat /\ Len(r.nonterms) \in Nat
    BY Parts DEF CFG_RSM
  <2> QED
    BY <2>1
<1> HIDE DEF new, boxes, start
<1>7. /\ s \in CFG_RSM /\ s.terms = r.terms /\ s.nonterms = new /\ s.boxes = boxes
      /\ s.status = r.status /\ s.with_intial_terms = r.with_intial_terms
  BY <1>2, <1>4, <1>5, <1>6 DEF MachineFits, CFG_RSM, Listed
<1>8. \A b \in DOMAIN s.boxes : BoxFits(s, s.boxes[b])
  BY <1>5, <1>7, InitBox
<1>9. MachineFits(s)
  <2>1. Len(s.boxes) = Len(s.nonterms)
    BY <1>2, <1>3, <1>5, <1>7
  <2>2. LabelsOf(s.nonterms) \cap LabelsOf(s.terms) = {}
    BY <1>2, <1>7 DEF MachineFits
  <2> QED
    BY <1>2, <1>7, <1>8, <2>1, <2>2 DEF MachineFits
<1> QED
  BY <1>2, <1>5, <1>7, <1>9 DEF AllInit

\* One more header.
LEMMA CollectedNext ==
  ASSUME NEW f, NEW n \in Nat, f.lines[n + 1].kind = "box"
  PROVE  {f.lines[m].name : m \in HeadsIn(f, n + 1)} =
           {f.lines[m].name : m \in HeadsIn(f, n)} \cup {f.lines[n + 1].name}
<1>1. HeadsIn(f, n + 1) = HeadsIn(f, n) \cup {n + 1}
  BY DEF HeadsIn
<1> QED
  BY <1>1

\* What the invariant says at a line of the first pass.
AtAHead ==
  /\ file \in RSMFiles /\ line_no \in 0 .. Len(file.lines) - 1 /\ line_no \in Nat
  /\ line_no + 1 \in 1 .. Len(file.lines)
  /\ MachineFits(rsm) /\ rsm.status = "ok"
  /\ file.exists = TRUE /\ box = NoName /\ start_box = NoName
  /\ Collected(file, rsm, line_no) /\ AllInit(file, rsm)
  /\ Line = file.lines[line_no + 1]

\* What the invariant says at a line of the first pass.
LEMMA HeadFacts ==
  ASSUME ReaderInv, pc = "boxes", line_no < Len(file.lines)
  PROVE  AtAHead
<1>1. file \in RSMFiles /\ line_no \in 0 .. Len(file.lines)
  BY DEF ReaderInv
<1>2. Len(file.lines) \in Nat
  BY <1>1, LineTypes
<1>3. line_no \in 0 .. Len(file.lines) - 1 /\ line_no \in Nat /\ line_no + 1 \in 1 .. Len(file.lines)
  BY <1>1, <1>2
<1> QED
  BY <1>1, <1>3 DEF ReaderInv, AtAHead, Line

\* A header makes a nonterminal.
LEMMA CollectBoxStep ==
  ASSUME ReaderInv, CollectBox
  PROVE  ReaderInv'
<1>1. /\ pc = "boxes" /\ line_no < Len(file.lines) /\ Line.kind = "box"
      /\ ~Has(rsm.nonterms, Line.name) /\ ~Has(rsm.terms, Line.name)
      /\ rsm' = rsm_add_nonterm(rsm, Line.name) /\ line_no' = line_no + 1
      /\ UNCHANGED <<file, pc, box, start_box, lagraph>>
  BY DEF CollectBox, AtLine
<1>2. AtAHead
  BY <1>1, HeadFacts
<1>3. Line.name \in LabelRecord
  BY <1>1, <1>2, LineFields DEF AtAHead
<1>4. Line.name \notin LabelsOf(rsm.nonterms) /\ Line.name \notin LabelsOf(rsm.terms)
  BY <1>1, <1>2, Parts, IndexOf DEF AtAHead
<1>5. /\ MachineFits(rsm') /\ AllInit(file, rsm') /\ rsm'.status = rsm.status
      /\ LabelsOf(rsm'.nonterms) = LabelsOf(rsm.nonterms) \cup {Line.name}
  BY <1>1, <1>2, <1>3, <1>4, NontermAdded DEF AtAHead
<1>6. LabelsOf(rsm.nonterms) = {file.lines[m].name : m \in HeadsIn(file, line_no)} /\ BoxesDistinct(file, line_no)
  BY <1>2 DEF AtAHead, Collected
<1>7. {file.lines[m].name : m \in HeadsIn(file, line_no + 1)} = LabelsOf(rsm'.nonterms)
  <2>1. line_no \in Nat /\ Line = file.lines[line_no + 1] /\ file.lines[line_no + 1].kind = "box"
    BY <1>1, <1>2 DEF AtAHead
  <2>2. {file.lines[m].name : m \in HeadsIn(file, line_no + 1)} =
           {file.lines[m].name : m \in HeadsIn(file, line_no)} \cup {file.lines[line_no + 1].name}
    BY <2>1, CollectedNext
  <2> QED
    BY ONLY <1>5, <1>6, <2>1, <2>2
<1>8. BoxesDistinct(file, line_no + 1)
  <2>1. HeadsIn(file, line_no + 1) = HeadsIn(file, line_no) \cup {line_no + 1}
    BY <1>1, <1>2 DEF HeadsIn, AtAHead
  <2>2. \A m \in HeadsIn(file, line_no) : file.lines[m].name # file.lines[line_no + 1].name
    BY <1>2, <1>4, <1>6 DEF AtAHead
  <2> QED
    BY <1>6, <2>1, <2>2 DEF BoxesDistinct
<1>9. Collected(file, rsm', line_no + 1)
  BY <1>7, <1>8 DEF Collected
<1>10. line_no + 1 \in 0 .. Len(file.lines)
  BY <1>2 DEF AtAHead
<1> QED
  BY <1>1, <1>2, <1>5, <1>9, <1>10 DEF ReaderInv, AtAHead

\* Other lines make none.
LEMMA CollectOtherStep ==
  ASSUME ReaderInv, CollectOther
  PROVE  ReaderInv'
<1>1. /\ pc = "boxes" /\ line_no < Len(file.lines) /\ Line.kind # "box"
      /\ line_no' = line_no + 1
      /\ UNCHANGED <<file, pc, rsm, box, start_box, lagraph>>
  BY DEF CollectOther, AtLine
<1>2. AtAHead
  BY <1>1, HeadFacts
<1>3. HeadsIn(file, line_no + 1) = HeadsIn(file, line_no)
  BY <1>1, <1>2 DEF HeadsIn, AtAHead
<1>4. Collected(file, rsm, line_no + 1)
  BY <1>2, <1>3 DEF AtAHead, Collected, BoxesDistinct
<1>5. line_no + 1 \in 0 .. Len(file.lines)
  BY <1>2 DEF AtAHead
<1> QED
  BY <1>1, <1>2, <1>4, <1>5 DEF ReaderInv, AtAHead

\* A box defined twice, or named like a label of the graph: the file is not well formed.
LEMMA CollectClashStep ==
  ASSUME ReaderInv, CollectClash
  PROVE  ReaderInv'
<1>1. /\ pc = "boxes" /\ line_no < Len(file.lines) /\ Line.kind = "box" /\ Reject
      /\ Has(rsm.nonterms, Line.name) \/ Has(rsm.terms, Line.name)
  BY DEF CollectClash, AtLine
<1>2. AtAHead
  BY <1>1, HeadFacts
<1>3. Line.name \in LabelsOf(rsm.nonterms) \/ Line.name \in LabelsOf(rsm.terms)
  BY <1>1, <1>2, Parts, IndexOf DEF AtAHead
<1>4. Len(file.lines) \in Nat /\ line_no + 1 \in HeadsIn(file, Len(file.lines))
  BY <1>1, <1>2, LineTypes DEF AtAHead, HeadsIn
<1>5. ~GoodFile(file)
  <2>1. CASE Line.name \in LabelsOf(rsm.nonterms)
    <3>1. PICK m \in HeadsIn(file, line_no) : file.lines[m].name = Line.name
      BY <1>2, <2>1 DEF AtAHead, Collected
    <3>2. m \in HeadsIn(file, Len(file.lines)) /\ m # line_no + 1
      BY <1>2, <1>4 DEF AtAHead, HeadsIn
    <3>3. ~BoxesDistinct(file, Len(file.lines))
      BY <1>2, <1>4, <3>1, <3>2 DEF BoxesDistinct, AtAHead
    <3> QED
      BY <3>3 DEF GoodFile
  <2>2. CASE Line.name \in LabelsOf(rsm.terms)
    <3>1. Line.name \in BoxNames(file)
      BY <1>2, <1>4 DEF BoxNames, AtAHead
    <3>2. Line.name \in LabelsOf(file.terms)
      BY <1>2, <2>2 DEF AtAHead, AllInit
    <3> QED
      BY <3>1, <3>2 DEF GoodFile
  <2> QED
    BY <1>3, <2>1, <2>2
<1>6. MachineFits(rsm) /\ line_no \in 0 .. Len(file.lines)
  BY DEF ReaderInv
<1> QED
  BY <1>1, <1>5, <1>6, Refused DEF Reject

\* An empty file says nothing, and neither do the boxes.
LEMMA NothingSaid ==
  ASSUME NEW f, NEW r, AllInit(f, r)
  PROVE  Says(f, r, 0)
<1>1. \A kind, name : LinesIn(f, kind, name, 0) = {}
  BY DEF LinesIn
<1>2. \A name : /\ EdgesIn(f, name, 0) = {} /\ FinalsIn(f, name, 0) = {} /\ StartsIn(f, name, 0) = {}
                /\ StatesIn(f, name, 0) = {}
  BY <1>1 DEF EdgesIn, FinalsIn, StartsIn, StatesIn
<1>3. DOMAIN <<>> = {}
  OBVIOUS
<1>4. /\ SpelledEdges(r, rsm_box_init) = {} /\ SpelledFinals(rsm_box_init) = {}
      /\ SpelledStarts(rsm_box_init) = {} /\ LabelsOf(rsm_box_init.states) = {}
  BY <1>3 DEF SpelledEdges, SpelledFinals, SpelledStarts, LabelsOf, rsm_box_init, RSM_NO_STATE, ToSet
<1> QED
  BY <1>2, <1>4 DEF Says, BoxSpells, AllInit

\* From the first pass to the second.
LEMMA CollectEndStep ==
  ASSUME ReaderInv, CollectEnd
  PROVE  ReaderInv'
<1>1. /\ pc = "boxes" /\ line_no = Len(file.lines) /\ pc' = "lines" /\ line_no' = 0
      /\ UNCHANGED <<file, rsm, box, start_box, lagraph>>
  BY DEF CollectEnd
<1>2. /\ file \in RSMFiles /\ MachineFits(rsm) /\ rsm.status = "ok"
      /\ file.exists = TRUE /\ box = NoName /\ start_box = NoName
      /\ Collected(file, rsm, Len(file.lines)) /\ AllInit(file, rsm)
  BY <1>1 DEF ReaderInv
<1>3. Len(file.lines) \in Nat /\ 0 \in 0 .. Len(file.lines) /\ Len(file.terms) \in Nat
  <2>1. file.terms \in Seq(Symbol(LabelRecord)) /\ Len(file.lines) \in Nat
    BY <1>2, LineTypes
  <2> QED
    BY <2>1
<1>4. BoxNames(file) \cap LabelsOf(file.terms) = {}
  BY <1>2 DEF Collected, AllInit, MachineFits, BoxNames
<1>5. TermsKept(file, rsm)
  BY <1>2, <1>3 DEF AllInit, TermsKept
<1>6. Says(file, rsm, 0) /\ SoFarGood(file, 0)
  BY <1>2, NothingSaid, GoodStart
<1>7. box = BoxOf(file, 1)
  BY <1>2, FirstBox
<1>8. StartValue(file, 0) = NoName
  <2>1. LinesIn(file, "start", NoName, 0) = {}
    BY DEF LinesIn
  <2> QED
    BY <2>1 DEF StartValue
<1>9. Reading(file, rsm, 0, box, start_box)
  <2>1. 0 + 1 = 1
    OBVIOUS
  <2>2. box = BoxOf(file, 0 + 1)
    BY <1>7, <2>1
  <2> QED
    BY <1>2, <1>4, <1>5, <1>6, <1>8, <2>2 DEF Reading, Says
<1> QED
  BY <1>1, <1>2, <1>3, <1>9 DEF ReaderInv

\* The file is there or not.
LEMMA OpenSteps ==
  ASSUME ReaderInv, Open \/ OpenFails
  PROVE  ReaderInv'
<1>1. /\ pc = "open" /\ file \in RSMFiles /\ line_no = 0 /\ line_no \in 0 .. Len(file.lines)
      /\ rsm = rsm_init(file.terms) /\ box = NoName
      /\ start_box = NoName /\ MachineFits(rsm) /\ rsm.status = "ok"
  BY DEF ReaderInv, Open, OpenFails
<1>2. CASE Open
  <2>1. /\ pc' = "boxes" /\ UNCHANGED <<file, line_no, rsm, box, start_box, lagraph>>
        /\ file.exists = TRUE
    BY <1>1, <1>2, LineTypes DEF Open
  <2>2. rsm.nonterms = <<>> /\ rsm.boxes = <<>> /\ rsm.terms = file.terms
    BY <1>1 DEF rsm_init
  <2>3. DOMAIN <<>> = {}
    OBVIOUS
  <2>4. LabelsOf(rsm.nonterms) = {} /\ HeadsIn(file, 0) = {}
    BY <2>2, <2>3 DEF LabelsOf, HeadsIn
  <2>5. Collected(file, rsm, 0)
    BY <2>4 DEF Collected, BoxesDistinct
  <2>6. AllInit(file, rsm)
    BY <2>2, <2>3 DEF AllInit
  <2> QED
    BY <1>1, <2>1, <2>5, <2>6 DEF ReaderInv
<1>3. CASE OpenFails
  <2>1. ~GoodFile(file) /\ Reject
    BY <1>3 DEF OpenFails, GoodFile
  <2> QED
    BY <1>1, <2>1, Refused DEF Reject
<1> QED
  BY <1>2, <1>3

-----------------------------------------------------------------------------
(* The end of the file *)

\* What the invariant says when all lines are read.
LEMMA AtTheEnd ==
  ASSUME ReaderInv, pc = "lines", line_no = Len(file.lines)
  PROVE  /\ file \in RSMFiles /\ Len(file.lines) \in Nat /\ file.exists = TRUE
         /\ MachineFits(rsm) /\ rsm.status = "ok"
         /\ Reading(file, rsm, Len(file.lines), box, start_box)
         /\ LabelsOf(rsm.nonterms) = BoxNames(file) /\ NoName \notin BoxNames(file)
         /\ BoxesDistinct(file, Len(file.lines)) /\ BoxNames(file) \cap LabelsOf(file.terms) = {}
         /\ SoFarGood(file, Len(file.lines)) /\ Says(file, rsm, Len(file.lines))
         /\ StartBox = StartBoxOf(file)
<1>1. file \in RSMFiles /\ MachineFits(rsm) /\ rsm.status = "ok"
  BY DEF ReaderInv
<1>2. Reading(file, rsm, Len(file.lines), box, start_box)
  BY DEF ReaderInv
<1>3. Len(file.lines) \in Nat /\ Len(file.lines) \in 0 .. Len(file.lines)
  BY <1>1, LineTypes
<1>4. LabelsOf(rsm.nonterms) = BoxNames(file)
  BY <1>2 DEF Reading, Collected, BoxNames
<1>5. NoName \notin BoxNames(file)
  BY <1>1, <1>3, BoxOfIsABox
<1>6. StartBox = StartBoxOf(file)
  <2>1. start_box = StartValue(file, Len(file.lines))
    BY <1>2 DEF Reading
  <2>2. LinesIn(file, "start", NoName, Len(file.lines)) # {} => start_box # NoName
    BY <1>1, <1>3, <2>1, StartValueTyped
  <2> QED
    BY <2>1, <2>2 DEF StartBox, StartBoxOf, StartValue
<1>7. /\ file.exists = TRUE /\ BoxesDistinct(file, Len(file.lines))
      /\ BoxNames(file) \cap LabelsOf(file.terms) = {}
      /\ SoFarGood(file, Len(file.lines)) /\ Says(file, rsm, Len(file.lines))
  BY <1>2 DEF Reading, Collected, Says
<1> QED
  BY <1>1, <1>2, <1>3, <1>4, <1>5, <1>6, <1>7

\* A machine whose boxes all have a start state is one of a file whose boxes all have one.
LEMMA AllStarted ==
  ASSUME NEW f, NEW r, NEW n, MachineFits(r), Says(f, r, n)
  PROVE  (\A b \in DOMAIN r.boxes : r.boxes[b].start_state # RSM_NO_STATE) <=>
           \A name \in LabelsOf(r.nonterms) : LinesIn(f, "start", name, n) # {}
<1>1. DOMAIN r.boxes = DOMAIN r.nonterms
  BY Parts
<1>2. \A b \in DOMAIN r.boxes :
        r.boxes[b].start_state = RSM_NO_STATE <=> LinesIn(f, "start", r.nonterms[b].label, n) = {}
  BY StartsRead
<1> QED
  BY <1>1, <1>2 DEF LabelsOf

\* The checks at the end accept exactly a file that is well formed.
LEMMA CompleteIsGood ==
  ASSUME ReaderInv, pc = "lines", line_no = Len(file.lines)
  PROVE  Complete <=> GoodFile(file)
<1>1. /\ MachineFits(rsm) /\ LabelsOf(rsm.nonterms) = BoxNames(file)
      /\ StartBox = StartBoxOf(file) /\ Says(file, rsm, Len(file.lines))
  BY AtTheEnd
<1>2. rsm.nonterms # <<>> <=> BoxNames(file) # {}
  <2>1. DOMAIN rsm.nonterms = 1 .. Len(rsm.nonterms) /\ Len(rsm.nonterms) \in Nat
        /\ rsm.nonterms \in Seq(Symbol(LabelRecord))
    BY <1>1, Parts DEF Listed
  <2>2. LabelsOf(rsm.nonterms) = {} <=> DOMAIN rsm.nonterms = {}
    BY DEF LabelsOf
  <2>3. rsm.nonterms = <<>> <=> DOMAIN rsm.nonterms = {}
    <3>1. DOMAIN <<>> = {}
      OBVIOUS
    <3>2. ASSUME DOMAIN rsm.nonterms = {} PROVE rsm.nonterms = <<>>
      <4>1. 1 \notin 1 .. Len(rsm.nonterms)
        BY <2>1, <3>2
      <4>2. Len(rsm.nonterms) = 0
        BY <2>1, <4>1
      <4> QED
        BY <2>1, <4>2
    <3> QED
      BY <3>1, <3>2
  <2> QED
    BY <1>1, <2>2, <2>3
<1>3. Has(rsm.nonterms, StartBox) <=> StartBoxOf(file) \in BoxNames(file)
  BY <1>1, Parts, IndexOf
<1>4. (\A b \in DOMAIN rsm.boxes : rsm.boxes[b].start_state # RSM_NO_STATE) <=>
        \A name \in BoxNames(file) : LinesIn(file, "start", name, Len(file.lines)) # {}
  BY <1>1, AllStarted
<1> QED
  BY <1>2, <1>3, <1>4, AtTheEnd DEF Complete, GoodFile

\* rsm_set_start_nonterm of a box there is.
LEMMA StartNontermSet ==
  ASSUME NEW r, MachineFits(r), NEW name, name \in LabelsOf(r.nonterms),
         NEW s, s = rsm_set_start_nonterm(r, name)
  PROVE  /\ MachineFits(s) /\ s.status = r.status
         /\ s.nonterms = r.nonterms /\ s.terms = r.terms /\ s.boxes = r.boxes
         /\ s.start_nonterm \in 1 .. Len(r.nonterms) /\ r.nonterms[s.start_nonterm].label = name
<1> DEFINE k == Index(r.nonterms, name)
<1>1. Has(r.nonterms, name) /\ k \in 1 .. Len(r.nonterms) /\ r.nonterms[k].label = name
  BY Parts, IndexOf
<1>2. s = [r EXCEPT !.start_nonterm = k]
  BY <1>1 DEF rsm_set_start_nonterm, Checked
<1> HIDE DEF k
<1>3. k \in Nat
  BY <1>1, Parts
<1>4. /\ s \in CFG_RSM /\ s.nonterms = r.nonterms /\ s.terms = r.terms /\ s.boxes = r.boxes
      /\ s.start_nonterm = k /\ s.status = r.status /\ s.with_intial_terms = r.with_intial_terms
  BY <1>2, <1>3 DEF MachineFits, CFG_RSM
<1>5. \A b \in DOMAIN s.boxes : BoxFits(s, s.boxes[b])
  BY <1>4 DEF MachineFits, BoxFits, EdgesFit, EdgeFits
<1>6. MachineFits(s)
  BY <1>4, <1>5 DEF MachineFits
<1> QED
  BY <1>1, <1>4, <1>6

\* A complete file.
LEMMA ReadEndStep ==
  ASSUME ReaderInv, ReadEnd
  PROVE  ReaderInv'
<1>1. /\ pc = "lines" /\ line_no = Len(file.lines) /\ Complete
      /\ rsm' = rsm_set_start_nonterm(rsm, StartBox) /\ pc' = "read"
      /\ UNCHANGED <<file, line_no, box, start_box, lagraph>>
  BY DEF ReadEnd
<1>2. GoodFile(file)
  BY <1>1, CompleteIsGood
<1>3. /\ MachineFits(rsm) /\ rsm.status = "ok" /\ LabelsOf(rsm.nonterms) = BoxNames(file)
      /\ Reading(file, rsm, Len(file.lines), box, start_box)
      /\ StartBox = StartBoxOf(file)
  BY <1>1, AtTheEnd
<1>4. StartBox \in LabelsOf(rsm.nonterms)
  BY <1>2, <1>3 DEF GoodFile
<1>5. /\ MachineFits(rsm') /\ rsm'.status = "ok"
      /\ rsm'.nonterms = rsm.nonterms /\ rsm'.terms = rsm.terms /\ rsm'.boxes = rsm.boxes
      /\ rsm'.start_nonterm \in 1 .. Len(rsm.nonterms)
      /\ rsm.nonterms[rsm'.start_nonterm].label = StartBox
  BY <1>1, <1>3, <1>4, StartNontermSet
<1>6. \A b \in DOMAIN rsm.boxes : BoxSpells(file, rsm', b, Len(file.lines))
  <2>1. \A x : SpelledEdges(rsm', x) = SpelledEdges(rsm, x)
    BY <1>5 DEF SpelledEdges, SpelledEdge, EdgeLabel
  <2> QED
    BY <1>3, <1>5, <2>1 DEF Reading, BoxSpells
<1>7. Reading(file, rsm', Len(file.lines), box, start_box)
  BY <1>3, <1>5, <1>6 DEF Reading, Collected, TermsKept
<1>8. /\ file \in RSMFiles /\ line_no \in 0 .. Len(file.lines)
      /\ box \in LabelRecord \cup {NoName} /\ start_box \in LabelRecord \cup {NoName}
  BY DEF ReaderInv
<1> QED
  BY <1>1, <1>2, <1>3, <1>5, <1>7, <1>8 DEF ReaderInv

\* An incomplete one.
LEMMA ReadIncompleteStep ==
  ASSUME ReaderInv, ReadIncomplete
  PROVE  ReaderInv'
<1>1. pc = "lines" /\ line_no = Len(file.lines) /\ ~Complete /\ Reject
  BY DEF ReadIncomplete
<1>2. ~GoodFile(file)
  BY <1>1, CompleteIsGood
<1>3. MachineFits(rsm) /\ line_no \in 0 .. Len(file.lines)
  BY DEF ReaderInv
<1> QED
  BY <1>1, <1>2, <1>3, Refused DEF Reject

\* All steps of rsm_from_file.
LEMMA ReadStepInv ==
  ASSUME ReaderInv, ReadStep
  PROVE  ReaderInv'
BY OpenSteps, CollectBoxStep, CollectOtherStep, CollectClashStep, CollectEndStep,
   NothingSteps, ReadStartStateStep, ReadFinalStep, ReadTransitionStep,
   ReadErrorStep, ReadEndStep, ReadIncompleteStep DEF ReadStep

-----------------------------------------------------------------------------
(* The conversion *)

\* Of a machine the reader has returned every check holds but one.
LEMMA ValidIsFinals ==
  ASSUME ReaderInv, pc \in {"read", "converted", "aborted"}
  PROVE  rsm_validate_before_convert(rsm) <=>
           \A b \in DOMAIN rsm.boxes : rsm.boxes[b].final_states # <<>>
<1>1. /\ MachineFits(rsm) /\ Reading(file, rsm, Len(file.lines), box, start_box) /\ GoodFile(file)
      /\ rsm.start_nonterm \in 1 .. Len(rsm.nonterms)
  BY DEF ReaderInv
<1>2. Len(rsm.boxes) = Len(rsm.nonterms) /\ Len(rsm.boxes) \in Nat
  BY <1>1, Parts
<1>3. rsm.nonterms # <<>> /\ rsm.start_nonterm \in 1 .. Len(rsm.boxes)
  BY <1>1, <1>2
<1>4. \A b \in DOMAIN rsm.boxes : rsm.boxes[b].start_state # RSM_NO_STATE
  <2>1. Says(file, rsm, Len(file.lines)) /\ LabelsOf(rsm.nonterms) = BoxNames(file)
    BY <1>1 DEF Reading, Says, Collected, BoxNames
  <2>2. \A name \in BoxNames(file) : LinesIn(file, "start", name, Len(file.lines)) # {}
    BY <1>1 DEF GoodFile
  <2> QED
    BY <1>1, <2>1, <2>2, AllStarted
<1>5. ASSUME NEW b \in DOMAIN rsm.boxes
      PROVE  ValidBox(rsm, rsm.boxes[b]) <=> rsm.boxes[b].final_states # <<>>
  <2> DEFINE x == rsm.boxes[b]
  <2>1. x \in CFG_RSM_Box /\ BoxFits(rsm, x)
    <3>1. rsm.boxes \in Seq(CFG_RSM_Box)
      BY <1>1, Parts
    <3>2. rsm.boxes[b] \in CFG_RSM_Box
      BY <3>1
    <3> QED
      BY <1>1, <3>2 DEF MachineFits
  <2>2. x.start_state # RSM_NO_STATE
    BY <1>4
  <2> HIDE DEF x
  <2>3. Len(x.states) \in Nat
    BY <2>1, BoxParts
  <2>4. x.start_state \in 0 .. Len(x.states) /\ x.start_state # 0
    BY <2>1, <2>2 DEF BoxFits, RSM_NO_STATE
  <2>5. x.start_state <= Len(x.states) /\ x.states # <<>>
    BY <2>3, <2>4
  <2>6. /\ \A n \in DOMAIN x.final_states : x.final_states[n] \in 1 .. Len(x.states)
        /\ IsInjective(x.final_states)
    BY <2>1 DEF BoxFits, FinalsFit
  <2>7. \A n \in DOMAIN x.final_states : x.final_states[n] <= Len(x.states)
    BY <2>3, <2>6
  <2>8. \A n \in DOMAIN x.edges :
          /\ {x.edges[n].start, x.edges[n].end} \subseteq 1 .. Len(x.states)
          /\ x.edges[n].label \in
               1 .. (IF x.edges[n].is_term THEN Len(rsm.terms) ELSE Len(rsm.nonterms))
    BY <2>1 DEF BoxFits, EdgesFit, EdgeFits
  <2>9. ValidBox(rsm, x) <=> x.final_states # <<>>
    BY <2>2, <2>5, <2>6, <2>7, <2>8 DEF ValidBox
  <2> QED
    BY <2>9 DEF x
<1> QED
  BY <1>2, <1>3, <1>5 DEF rsm_validate_before_convert

\* The conversion.
LEMMA ConvertStep ==
  ASSUME ReaderInv, Convert
  PROVE  ReaderInv'
<1>1. pc = "read" /\ UNCHANGED <<file, line_no, rsm, box, start_box>>
  BY DEF Convert
<1>2. rsm_validate_before_convert(rsm) <=>
        \A b \in DOMAIN rsm.boxes : rsm.boxes[b].final_states # <<>>
  BY <1>1, ValidIsFinals
<1>3. CASE rsm_validate_before_convert(rsm)
  <2>1. pc' = "converted" /\ lagraph' = rsm_convert_to_lagraph(rsm)
    BY <1>3 DEF Convert
  <2>2. lagraph' = rsm_convert_to_lagraph(rsm')
    BY <1>1, <2>1
  <2> QED
    BY <1>1, <1>2, <1>3, <2>1, <2>2 DEF ReaderInv
<1>4. CASE ~rsm_validate_before_convert(rsm)
  <2>1. pc' = "aborted"
    BY <1>4 DEF Convert
  <2> QED
    BY <1>1, <1>2, <1>4, <2>1 DEF ReaderInv
<1> QED
  BY <1>3, <1>4

\* A new row.
LEMMA BeforeReading ==
  ASSUME NEW f \in RSMFiles, Unread(f)
  PROVE  ReaderInv
<1>1. Len(f.lines) \in Nat /\ 0 \in 0 .. Len(f.lines)
  BY LineTypes
<1>2. MachineFits(rsm_init(f.terms)) /\ rsm_init(f.terms).status = "ok"
  BY InitFits
<1> QED
  BY <1>1, <1>2 DEF Unread, ReaderInv

-----------------------------------------------------------------------------
(* The rows of a configuration *)

\* The inductive invariant over the rows of a configuration.
RowsInv == ReaderInv /\ rows \in Seq(RSMFiles) /\ row \in 1 .. Len(rows)

LEMMA RowsInit == AdapterInit => RowsInv
<1> SUFFICES ASSUME AdapterInit PROVE RowsInv
  OBVIOUS
<1>1. rows \in Seq(RSMFiles) /\ rows # <<>>
  BY AdapterRunsAssumption DEF AdapterInit
<1>2. rows[1] \in RSMFiles /\ 1 \in 1 .. Len(rows)
  BY <1>1
<1>3. ReaderInv
  BY <1>2, BeforeReading DEF AdapterInit
<1> QED
  BY <1>1, <1>2, <1>3 DEF RowsInv, AdapterInit

\* The calls that are not about the machine leave the reader alone.
LEMMA SameReader ==
  ASSUME ReaderInv, UNCHANGED vars
  PROVE  ReaderInv'
BY DEF ReaderInv, vars

LEMMA NextRowStep ==
  ASSUME RowsInv, NextRow
  PROVE  RowsInv'
<1>1. /\ row < Len(rows) /\ row' = row + 1 /\ rows' = rows
      /\ file' = rows[row + 1] /\ pc' = "open" /\ line_no' = 0
      /\ rsm' = rsm_init(file'.terms) /\ box' = NoName /\ start_box' = NoName
      /\ lagraph' = ZeroRSM
  BY DEF NextRow
<1>2. row + 1 \in 1 .. Len(rows) /\ rows \in Seq(RSMFiles)
  BY <1>1 DEF RowsInv
<1>3. file' \in RSMFiles
  BY <1>1, <1>2
<1>4. Len(file'.lines) \in Nat /\ 0 \in 0 .. Len(file'.lines)
  BY <1>3, LineTypes
<1>5. MachineFits(rsm') /\ rsm'.status = "ok"
  BY <1>1, <1>3, InitFits
<1>6. ReaderInv'
  BY <1>1, <1>3, <1>4, <1>5 DEF ReaderInv
<1> QED
  BY <1>1, <1>2, <1>6 DEF RowsInv

LEMMA RowsStep == RowsInv /\ [AdapterNext]_adapterVars => RowsInv'
<1> SUFFICES ASSUME RowsInv, [AdapterNext]_adapterVars PROVE RowsInv'
  OBVIOUS
<1>1. CASE PrepareRead \/ KronPrepare \/ CFPQPrepare
  <2>1. ReaderInv /\ (ReadStep \/ Convert) /\ UNCHANGED <<rows, row>>
    BY <1>1 DEF RowsInv, PrepareRead, KronPrepare, CFPQPrepare
  <2>2. ReaderInv'
    BY <2>1, ReadStepInv, ConvertStep
  <2> QED
    BY <2>1, <2>2 DEF RowsInv
<1>2. CASE NextRow
  BY <1>2, NextRowStep
<1>3. CASE \/ InitOutputs \/ Run \/ FreeOutputs \/ CleanupCrash \/ KronCleanup \/ CFPQCleanup
           \/ Ended \/ UNCHANGED adapterVars
  <2>1. UNCHANGED vars /\ UNCHANGED <<rows, row>>
    BY <1>3 DEF InitOutputs, Run, FreeOutputs, CleanupCrash, KronCleanup, CFPQCleanup, Ended,
                adapterVars
  <2>2. ReaderInv'
    BY <2>1, SameReader DEF RowsInv
  <2> QED
    BY <2>1, <2>2 DEF RowsInv
<1> QED
  BY <1>1, <1>2, <1>3 DEF AdapterNext

(***************************************************************************)
(* The invariant of the reader, whatever the files and however many rows.  *)
(***************************************************************************)
THEOREM ReaderInvariant == AdapterSpec => []RowsInv
BY RowsInit, RowsStep, PTL DEF AdapterSpec

-----------------------------------------------------------------------------
(* The operators of the file are those of the module RSMFile *)

LEMMA SameLines == \A kind, name, last : LinesOf(kind, name, last) = LinesIn(file, kind, name, last)
<1>1. \A n : BoxAt(n) = BoxOf(file, n)
  BY DEF BoxAt, BoxOf, HeadsIn
<1> QED
  BY <1>1 DEF LinesOf, LinesIn

LEMMA SameBlocks == BlockCount = BlocksOf(file)
  BY DEF BlockCount, BlocksOf

LEMMA SameEdges == \A name, last : EdgesInFile(name, last) = EdgesIn(file, name, last)
  BY SameLines, SameBlocks DEF EdgesInFile, EdgesIn

LEMMA SameFinals == \A name, last : FinalsInFile(name, last) = FinalsIn(file, name, last)
  BY SameLines, SameBlocks DEF FinalsInFile, FinalsIn

LEMMA SameStarts == \A name, last : StartsInFile(name, last) = StartsIn(file, name, last)
  BY SameLines DEF StartsInFile, StartsIn

LEMMA SameStates == \A name, last : StatesInFile(name, last) = StatesIn(file, name, last)
  BY SameEdges, SameFinals, SameStarts DEF StatesInFile, StatesIn

LEMMA SameBoxes ==
  ASSUME file \in RSMFiles
  PROVE  BoxLines = HeadsIn(file, Len(file.lines)) /\ BoxesInFile = BoxNames(file)
<1>1. DOMAIN file.lines = 1 .. Len(file.lines)
  BY LineTypes
<1> QED
  BY <1>1 DEF BoxLines, BoxesInFile, HeadsIn, BoxNames

LEMMA SameStartBox == StartBoxInFile = StartBoxOf(file)
  BY SameLines DEF StartBoxInFile, StartBoxOf

-----------------------------------------------------------------------------
(* Counts *)

\* As many values as arguments: no two arguments have one value.
LEMMA CountOfImage ==
  ASSUME NEW S, IsFiniteSet(S), NEW f, DOMAIN f = S, NEW T, T = {f[x] : x \in S}
  PROVE  Cardinality(T) = Cardinality(S) <=> \A x, y \in S : f[x] = f[y] => x = y
<1> DEFINE g == [x \in S |-> f[x]]
<1>1. g \in Surjection(S, T)
  BY DEF Surjection
<1>2. Cardinality(T) = Cardinality(S) <=> g \in Injection(S, T)
  BY <1>1, FS_Surjection
<1>3. g \in [S -> T] /\ DOMAIN g = S
  OBVIOUS
<1>4. g \in Injection(S, T) <=> \A x, y \in S : g[x] = g[y] => x = y
  <2> HIDE DEF g
  <2> QED
    BY <1>3 DEF Injection, IsInjective
<1> QED
  BY <1>2, <1>4

\* Lines are finitely many.
LEMMA LinesFinite ==
  ASSUME NEW f \in RSMFiles, NEW S \in SUBSET (1 .. Len(f.lines))
  PROVE  IsFiniteSet(S)
<1>1. Len(f.lines) \in Nat /\ 1 \in Int /\ Len(f.lines) \in Int
  BY LineTypes
<1>2. IsFiniteSet(1 .. Len(f.lines))
  BY <1>1, FS_Interval
<1> QED
  BY <1>2, FS_Subset

\* As many boxes as headers: no box is defined twice.
LEMMA BoxesCounted ==
  ASSUME file \in RSMFiles
  PROVE  Cardinality(BoxesInFile) = Cardinality(BoxLines) <=> BoxesDistinct(file, Len(file.lines))
<1> DEFINE S == HeadsIn(file, Len(file.lines))
           g == [n \in S |-> file.lines[n].name]
<1>1. S \in SUBSET (1 .. Len(file.lines))
  BY DEF HeadsIn
<1>2. IsFiniteSet(S)
  BY <1>1, LinesFinite
<1>3. BoxLines = S /\ BoxesInFile = {g[n] : n \in S}
  BY SameBoxes DEF BoxNames
<1>4. BoxesDistinct(file, Len(file.lines)) <=> \A x, y \in S : g[x] = g[y] => x = y
  BY DEF BoxesDistinct
<1>5. DOMAIN g = S
  OBVIOUS
<1> HIDE DEF S, g
<1> QED
  BY <1>2, <1>3, <1>4, <1>5, CountOfImage

\* A set with one member.
LEMMA OneOf ==
  ASSUME NEW S, IsFiniteSet(S)
  PROVE  Cardinality(S) = 1 <=> S # {} /\ \A x, y \in S : x = y
<1>1. Cardinality(S) = 1 <=> \E x : S = {x}
  BY FS_Singleton
<1>2. ASSUME S # {}, \A x, y \in S : x = y PROVE \E x : S = {x}
  <2>1. PICK x \in S : TRUE
    BY <1>2
  <2>2. S = {x}
    BY <1>2, <2>1
  <2> QED
    BY <2>2
<1>3. ASSUME NEW z, S = {z} PROVE S # {} /\ \A x, y \in S : x = y
  BY <1>3
<1> QED
  BY <1>1, <1>2, <1>3

\* One start state for each box.
LEMMA StartsCounted ==
  ASSUME file \in RSMFiles, NEW name
  PROVE  Cardinality(LinesOf("start", name, Len(file.lines))) = 1 <=>
           /\ LinesIn(file, "start", name, Len(file.lines)) # {}
           /\ \A n, m \in LinesIn(file, "start", name, Len(file.lines)) : n = m
<1> DEFINE S == LinesIn(file, "start", name, Len(file.lines))
<1>1. S \in SUBSET (1 .. Len(file.lines)) /\ LinesOf("start", name, Len(file.lines)) = S
  BY SameLines DEF LinesIn
<1>2. IsFiniteSet(S)
  BY <1>1, LinesFinite
<1> HIDE DEF S
<1>3. Cardinality(S) = 1 <=> S # {} /\ \A x, y \in S : x = y
  BY <1>2, OneOf
<1> QED
  BY <1>1, <1>3 DEF S

\* What makes a file well formed, counted or compared line by line.
LEMMA WellFormedIsGood ==
  ASSUME file \in RSMFiles
  PROVE  WellFormed <=> GoodFile(file)
<1> DEFINE N == Len(file.lines)
<1>1. BoxesInFile = BoxNames(file) /\ StartBoxInFile = StartBoxOf(file)
  BY SameBoxes, SameStartBox
<1>2. Cardinality(BoxesInFile) = Cardinality(BoxLines) <=> BoxesDistinct(file, N)
  BY BoxesCounted
<1>3. (\A n \in DOMAIN file.lines :
         /\ file.lines[n].kind # "other"
         /\ BoxAt(n) = NoName => file.lines[n].kind \in {"skipped", "box", "start"})
      <=> KindsGood(file, N)
  <2>1. DOMAIN file.lines = 1 .. N /\ \A n : BoxAt(n) = BoxOf(file, n)
    BY LineTypes DEF BoxAt, BoxOf, HeadsIn
  <2> HIDE DEF N
  <2> QED
    BY <2>1 DEF KindsGood
<1>4. ASSUME NEW name
      PROVE  /\ Cardinality(LinesOf("start", name, N)) = 1
             /\ \A st \in StartsInFile(name, N) : ~IsIndexed(st)
             <=> LinesIn(file, "start", name, N) # {} /\ StartsGood(file, N, name)
  <2>1. (\A st \in StartsInFile(name, N) : ~IsIndexed(st)) <=>
          \A n \in LinesIn(file, "start", name, N) : ~IsIndexed(file.lines[n].value)
    BY SameStarts DEF StartsIn
  <2> QED
    BY <2>1, StartsCounted DEF StartsGood
<1>5. DeterministicFile <=> \A name \in BoxNames(file) : EdgesGood(file, N, name)
  <2>1. \A n, m : NoConflict(file, n, m) <=>
          \A i, j \in 0 .. BlockCount - 1 :
            LET e == Instance(file.lines[n], i)
                f == Instance(file.lines[m], j)
            IN <<e[1], e[2]>> = <<f[1], f[2]>> => n = m /\ (e = f \/ i = j)
    BY SameBlocks DEF NoConflict
  <2> QED
    BY <1>1, <2>1, SameLines DEF DeterministicFile, EdgesGood
<1>6. SoFarGood(file, N) <=>
        /\ KindsGood(file, N)
        /\ \A name \in BoxNames(file) : StartsGood(file, N, name) /\ EdgesGood(file, N, name)
  BY GoodParts
<1> HIDE DEF N
<1>7. GoodFile(file) <=>
        /\ file.exists
        /\ BoxNames(file) # {} /\ BoxesDistinct(file, N)
        /\ BoxNames(file) \cap LabelsOf(file.terms) = {}
        /\ StartBoxOf(file) \in BoxNames(file)
        /\ \A name \in BoxNames(file) : LinesIn(file, "start", name, N) # {}
        /\ SoFarGood(file, N)
  BY DEF GoodFile, N
<1>8. WellFormed <=>
        /\ file.exists
        /\ BoxesInFile # {} /\ Cardinality(BoxesInFile) = Cardinality(BoxLines)
        /\ BoxesInFile \cap LabelsOf(file.terms) = {}
        /\ KindsGood(file, N)
        /\ StartBoxInFile \in BoxesInFile
        /\ \A name \in BoxesInFile :
             LinesIn(file, "start", name, N) # {} /\ StartsGood(file, N, name)
        /\ DeterministicFile
  BY <1>3, <1>4 DEF WellFormed, N
<1> QED
  BY <1>1, <1>2, <1>5, <1>6, <1>7, <1>8

-----------------------------------------------------------------------------
(* What the transitions of a box spell *)

\* Two transitions that spell the same are one.
LEMMA SpelledOnce ==
  ASSUME NEW r, MachineFits(r), NEW x \in CFG_RSM_Box, BoxFits(r, x),
         NEW n \in DOMAIN x.edges, NEW m \in DOMAIN x.edges,
         SpelledEdge(r, x, x.edges[n]) = SpelledEdge(r, x, x.edges[m])
  PROVE  n = m
<1> DEFINE d == x.edges[n]
           e == x.edges[m]
<1>1. /\ EdgeFits(r, Len(x.states), d) /\ EdgeFits(r, Len(x.states), e)
      /\ SameKey(d, e) => n = m
  BY DEF BoxFits, EdgesFit
<1>2. d.is_term \in BOOLEAN /\ e.is_term \in BOOLEAN
  BY BoxParts
<1>3. x.states[d.start].label = x.states[e.start].label /\ EdgeLabel(r, d) = EdgeLabel(r, e)
  BY DEF SpelledEdge
<1> HIDE DEF d, e
<1>4. d.start = e.start
  <2>1. d.start \in DOMAIN x.states /\ e.start \in DOMAIN x.states
    BY <1>1, BoxParts DEF EdgeFits
  <2>2. DistinctLabels(x.states)
    BY DEF BoxFits
  <2> QED
    BY <1>3, <2>1, <2>2 DEF DistinctLabels
<1>5. /\ DOMAIN r.terms = 1 .. Len(r.terms) /\ DOMAIN r.nonterms = 1 .. Len(r.nonterms)
      /\ DistinctLabels(r.terms) /\ DistinctLabels(r.nonterms)
      /\ LabelsOf(r.nonterms) \cap LabelsOf(r.terms) = {}
  BY Parts DEF MachineFits
<1>6. ASSUME NEW c, EdgeFits(r, Len(x.states), c)
      PROVE  /\ c.is_term => EdgeLabel(r, c) = r.terms[c.label].label /\ c.label \in DOMAIN r.terms
             /\ ~c.is_term => EdgeLabel(r, c) = r.nonterms[c.label].label /\ c.label \in DOMAIN r.nonterms
  BY <1>5, <1>6 DEF EdgeFits, EdgeLabel
<1>7. /\ d.is_term => EdgeLabel(r, d) \in LabelsOf(r.terms)
      /\ ~d.is_term => EdgeLabel(r, d) \in LabelsOf(r.nonterms)
      /\ e.is_term => EdgeLabel(r, e) \in LabelsOf(r.terms)
      /\ ~e.is_term => EdgeLabel(r, e) \in LabelsOf(r.nonterms)
  BY <1>1, <1>6 DEF LabelsOf
<1>8. d.is_term = e.is_term
  BY <1>2, <1>3, <1>5, <1>7
<1>9. d.label = e.label
  BY <1>1, <1>3, <1>5, <1>6, <1>8 DEF DistinctLabels
<1> QED
  BY <1>1, <1>4, <1>8, <1>9 DEF SameKey

\* As many transitions as are spelled.
LEMMA EdgesCounted ==
  ASSUME NEW r, MachineFits(r), NEW x \in CFG_RSM_Box, BoxFits(r, x)
  PROVE  Len(x.edges) = Cardinality(SpelledEdges(r, x))
<1> DEFINE N == Len(x.edges)
           g == [n \in 1 .. N |-> SpelledEdge(r, x, x.edges[n])]
<1>1. N \in Nat /\ DOMAIN x.edges = 1 .. N
  BY BoxParts
<1>2. IsFiniteSet(1 .. N) /\ Cardinality(1 .. N) = N
  <2>1. ~(1 > N) \/ N = 0
    BY <1>1
  <2>2. 1 \in Int /\ N \in Int
    BY <1>1
  <2>3. IsFiniteSet(1 .. N) /\ Cardinality(1 .. N) = IF 1 > N THEN 0 ELSE N - 1 + 1
    BY <2>2, FS_Interval
  <2> HIDE DEF N
  <2> QED
    BY <1>1, <2>1, <2>3
<1>3. SpelledEdges(r, x) = {g[n] : n \in 1 .. N}
  BY <1>1 DEF SpelledEdges
<1>4. \A n, m \in 1 .. N : g[n] = g[m] => n = m
  BY <1>1, SpelledOnce
<1>5. DOMAIN g = 1 .. N
  OBVIOUS
<1> HIDE DEF g
<1>6. Cardinality(SpelledEdges(r, x)) = Cardinality(1 .. N)
  BY <1>2, <1>3, <1>4, <1>5, CountOfImage
<1> QED
  BY <1>2, <1>6

-----------------------------------------------------------------------------
(* The theorems *)

(***************************************************************************)
(* Every index the reader and the builder store is in its list, and an     *)
(* error stops the reading (rsm_file.c:264), for every file.               *)
(***************************************************************************)
THEOREM ReaderTyped == AdapterSpec => []TypeOK
<1>1. RowsInv => TypeOK
  <2> SUFFICES ASSUME ReaderInv PROVE TypeOK
    BY DEF RowsInv
  <2>1. rsm \in CFG_RSM /\ MachineFits(rsm)
    BY DEF ReaderInv, MachineFits
  <2>2. ASSUME NEW b \in DOMAIN rsm.boxes
        PROVE  /\ rsm.boxes[b].start_state \in 0 .. Len(rsm.boxes[b].states)
               /\ \A n \in DOMAIN rsm.boxes[b].edges :
                    {rsm.boxes[b].edges[n].start, rsm.boxes[b].edges[n].end}
                      \subseteq DOMAIN rsm.boxes[b].states
    <3> DEFINE x == rsm.boxes[b]
    <3>1. x \in CFG_RSM_Box /\ BoxFits(rsm, x)
      <4>1. rsm.boxes \in Seq(CFG_RSM_Box)
        BY <2>1, Parts
      <4>2. rsm.boxes[b] \in CFG_RSM_Box
        BY <4>1
      <4> QED
        BY <2>1, <4>2 DEF MachineFits
    <3> HIDE DEF x
    <3>2. DOMAIN x.states = 1 .. Len(x.states)
      BY <3>1, BoxParts
    <3>3. /\ x.start_state \in 0 .. Len(x.states)
          /\ \A n \in DOMAIN x.edges : {x.edges[n].start, x.edges[n].end} \subseteq DOMAIN x.states
      BY <3>1, <3>2 DEF BoxFits, EdgesFit, EdgeFits
    <3> QED
      BY <3>3 DEF x
  <2> QED
    BY <2>1, <2>2 DEF ReaderInv, TypeOK
<1> QED
  BY <1>1, ReaderInvariant, PTL

(***************************************************************************)
(* rsm_file.h:12-22 for every file, at every line: the boxes hold what the *)
(* lines read so far say, each transition once, an indexed line once for   *)
(* each block with one number for all its tokens.                          *)
(***************************************************************************)
THEOREM ReaderSpells == AdapterSpec => []BoxesSpellTheFile
<1>1. RowsInv => BoxesSpellTheFile
  <2> SUFFICES ASSUME ReaderInv, pc \in {"lines", "read", "converted"}, NEW b \in DOMAIN rsm.boxes
      PROVE  LET name == rsm.nonterms[b].label
                 states == rsm.boxes[b].states
                 edges == rsm.boxes[b].edges
             IN /\ {<<states[edges[n].start].label, LabelOf(edges[n]), states[edges[n].end].label>> :
                      n \in DOMAIN edges} = EdgesInFile(name, line_no)
                /\ Len(edges) = Cardinality(EdgesInFile(name, line_no))
                /\ \A n \in DOMAIN edges : edges[n].is_term <=> LabelOf(edges[n]) \notin BoxesInFile
                /\ LabelsOf(states) = StatesInFile(name, line_no) /\ DistinctLabels(states)
                /\ {states[s].label : s \in ToSet(rsm.boxes[b].final_states)}
                     = FinalsInFile(name, line_no)
    BY DEF RowsInv, BoxesSpellTheFile
  <2> DEFINE x == rsm.boxes[b]
             name == rsm.nonterms[b].label
  <2>1. MachineFits(rsm) /\ Reading(file, rsm, line_no, box, start_box) /\ file \in RSMFiles
    BY DEF ReaderInv
  <2>2. x \in CFG_RSM_Box /\ BoxFits(rsm, x)
    <3>1. rsm.boxes \in Seq(CFG_RSM_Box)
      BY <2>1, Parts
    <3>2. rsm.boxes[b] \in CFG_RSM_Box
      BY <3>1
    <3> QED
      BY <2>1, <3>2 DEF MachineFits
  <2>3. /\ SpelledEdges(rsm, x) = EdgesIn(file, name, line_no)
        /\ LabelsOf(x.states) = StatesIn(file, name, line_no)
        /\ SpelledFinals(x) = FinalsIn(file, name, line_no)
    BY <2>1 DEF Reading, BoxSpells
  <2> HIDE DEF x, name
  <2>4. \A e : LabelOf(e) = EdgeLabel(rsm, e)
    BY DEF LabelOf, EdgeLabel
  <2>5. {<<x.states[x.edges[n].start].label, LabelOf(x.edges[n]), x.states[x.edges[n].end].label>> :
            n \in DOMAIN x.edges} = EdgesInFile(name, line_no)
    BY <2>3, <2>4, SameEdges DEF SpelledEdges, SpelledEdge
  <2>6. Len(x.edges) = Cardinality(EdgesInFile(name, line_no))
    BY <2>1, <2>2, <2>3, EdgesCounted, SameEdges
  <2>7. ASSUME NEW n \in DOMAIN x.edges
        PROVE  x.edges[n].is_term <=> LabelOf(x.edges[n]) \notin BoxesInFile
    <3>1. BoxesInFile = LabelsOf(rsm.nonterms) /\ LabelsOf(rsm.nonterms) \cap LabelsOf(rsm.terms) = {}
      BY <2>1, SameBoxes DEF Reading, Collected, BoxNames, MachineFits
    <3>2. DOMAIN rsm.terms = 1 .. Len(rsm.terms) /\ DOMAIN rsm.nonterms = 1 .. Len(rsm.nonterms)
      BY <2>1, Parts
    <3>3. EdgeFits(rsm, Len(x.states), x.edges[n])
      BY <2>2 DEF BoxFits, EdgesFit
    <3>4. CASE x.edges[n].is_term
      <4>1. EdgeLabel(rsm, x.edges[n]) \in LabelsOf(rsm.terms)
        BY <3>2, <3>3, <3>4 DEF EdgeFits, EdgeLabel, LabelsOf
      <4> QED
        BY <2>4, <3>1, <3>4, <4>1
    <3>5. CASE ~x.edges[n].is_term
      <4>1. EdgeLabel(rsm, x.edges[n]) \in LabelsOf(rsm.nonterms)
        BY <3>2, <3>3, <3>5 DEF EdgeFits, EdgeLabel, LabelsOf
      <4> QED
        BY <2>4, <3>1, <3>5, <4>1
    <3> QED
      BY <3>4, <3>5
  <2>8. LabelsOf(x.states) = StatesInFile(name, line_no) /\ DistinctLabels(x.states)
    BY <2>2, <2>3, SameStates DEF BoxFits
  <2>9. {x.states[s].label : s \in ToSet(x.final_states)} = FinalsInFile(name, line_no)
    BY <2>3, SameFinals DEF SpelledFinals
  <2> QED
    BY <2>5, <2>6, <2>7, <2>8, <2>9 DEF x, name
<1> QED
  BY <1>1, ReaderInvariant, PTL

(***************************************************************************)
(* rsm_file.h:24-25: whatever the file, it is refused exactly when it is   *)
(* not well formed as a whole, and the checks of the conversion fail       *)
(* exactly for a box without final states.                                 *)
(***************************************************************************)
THEOREM ReaderOutcome == AdapterSpec => []OutcomeIsTheFiles
<1>1. RowsInv => OutcomeIsTheFiles
  <2> SUFFICES ASSUME ReaderInv PROVE OutcomeIsTheFiles
    BY DEF RowsInv
  <2>1. WellFormed <=> GoodFile(file)
    BY WellFormedIsGood DEF ReaderInv
  <2>2. pc \in {"converted", "rejected", "aborted"} => (pc = "rejected" <=> ~WellFormed)
    BY <2>1 DEF ReaderInv
  <2>3. ASSUME pc \in {"converted", "aborted"}
        PROVE  pc = "aborted" <=> \E name \in BoxesInFile : FinalsInFile(name, Len(file.lines)) = {}
    <3>1. /\ MachineFits(rsm) /\ Reading(file, rsm, Len(file.lines), box, start_box)
          /\ file \in RSMFiles
      BY <2>3 DEF ReaderInv
    <3>2. pc = "aborted" <=> \E b \in DOMAIN rsm.boxes : rsm.boxes[b].final_states = <<>>
      BY <2>3 DEF ReaderInv
    <3>3. DOMAIN rsm.boxes = DOMAIN rsm.nonterms /\ rsm.boxes \in Seq(CFG_RSM_Box)
      BY <3>1, Parts
    <3>4. BoxesInFile = {rsm.nonterms[b].label : b \in DOMAIN rsm.boxes}
      BY <3>1, <3>3, SameBoxes DEF Reading, Collected, BoxNames, LabelsOf
    <3>5. ASSUME NEW b \in DOMAIN rsm.boxes
          PROVE  rsm.boxes[b].final_states = <<>> <=>
                   FinalsInFile(rsm.nonterms[b].label, Len(file.lines)) = {}
      <4>1. SpelledFinals(rsm.boxes[b]) = FinalsInFile(rsm.nonterms[b].label, Len(file.lines))
        BY <3>1, SameFinals DEF Reading, BoxSpells
      <4>2. rsm.boxes[b].final_states \in Seq(Nat)
        <5>1. rsm.boxes[b] \in CFG_RSM_Box
          BY <3>3
        <5> QED
          BY <5>1, BoxParts
      <4>3. rsm.boxes[b].final_states = <<>> <=> ToSet(rsm.boxes[b].final_states) = {}
        <5>1. \A s \in Seq(Nat) : s = <<>> <=> ToSet(s) = {}
          <6> SUFFICES ASSUME NEW s \in Seq(Nat) PROVE s = <<>> <=> ToSet(s) = {}
            OBVIOUS
          <6>1. DOMAIN <<>> = {} /\ DOMAIN s = 1 .. Len(s) /\ Len(s) \in Nat
            OBVIOUS
          <6>2. ASSUME ToSet(s) = {} PROVE s = <<>>
            <7>1. 1 \notin 1 .. Len(s)
              BY <6>1, <6>2 DEF ToSet
            <7>2. Len(s) = 0
              BY <6>1, <7>1
            <7> QED
              BY <7>2
          <6> QED
            BY <6>1, <6>2 DEF ToSet
        <5> QED
          BY <4>2, <5>1
      <4> QED
        BY <4>1, <4>3 DEF SpelledFinals
    <3> QED
      BY <3>2, <3>4, <3>5
  <2> QED
    BY <2>2, <2>3 DEF OutcomeIsTheFiles
<1> QED
  BY <1>1, ReaderInvariant, PTL

-----------------------------------------------------------------------------
(* The global states *)

\* The offsets up to box K.
OffsetRun(r, f, K) ==
  f = [k \in 1 .. K |-> IF k = 1 THEN 0 ELSE f[k - 1] + StatesOf(r, k - 1)]

\* There are offsets up to any box.
LEMMA OffsetRuns ==
  ASSUME NEW r, NEW K \in Nat
  PROVE  \E f : OffsetRun(r, f, K)
<1> DEFINE S == {N \in Nat : \E f : OffsetRun(r, f, N)}
<1>1. 0 \in S
  <2>1. 1 .. 0 = {}
    OBVIOUS
  <2> DEFINE f == [k \in 1 .. 0 |-> 0]
  <2>2. f = [k \in 1 .. 0 |-> IF k = 1 THEN 0 ELSE f[k - 1] + StatesOf(r, k - 1)]
    BY <2>1
  <2> HIDE DEF f
  <2> QED
    BY <2>2 DEF OffsetRun
<1>2. ASSUME NEW N \in Nat, N \in S PROVE N + 1 \in S
  <2>1. PICK f : OffsetRun(r, f, N)
    BY <1>2
  <2> DEFINE h == [k \in 1 .. N + 1 |->
                     IF k = 1 THEN 0 ELSE IF k <= N THEN f[k] ELSE f[N] + StatesOf(r, N)]
  <2>2. ASSUME NEW k \in 1 .. N + 1
        PROVE  h[k] = IF k = 1 THEN 0 ELSE h[k - 1] + StatesOf(r, k - 1)
    <3>1. CASE k = 1
      BY <3>1
    <3>2. CASE k # 1 /\ k <= N
      <4>1. k \in 1 .. N /\ k - 1 \in 1 .. N + 1 /\ k - 1 <= N /\ k - 1 \in 1 .. N /\ 1 \in 1 .. N
        BY <3>2
      <4>2. f[k] = f[k - 1] + StatesOf(r, k - 1)
        BY <2>1, <3>2, <4>1 DEF OffsetRun
      <4>3. f[1] = 0
        BY <2>1, <4>1 DEF OffsetRun
      <4>4. h[k] = f[k]
        BY <3>2
      <4>5. h[k - 1] = f[k - 1]
        BY <4>1, <4>3
      <4> QED
        BY <3>2, <4>2, <4>4, <4>5
    <3>3. CASE k = N + 1 /\ k # 1
      <4>1. N \in 1 .. N + 1 /\ N \in 1 .. N /\ 1 \in 1 .. N /\ k - 1 = N /\ ~(k <= N) /\ N <= N
        BY <3>3
      <4>2. f[1] = 0
        BY <2>1, <4>1 DEF OffsetRun
      <4>3. h[N] = f[N]
        BY <4>1, <4>2
      <4>4. h[k] = f[N] + StatesOf(r, N)
        BY <3>3, <4>1
      <4> QED
        BY <3>3, <4>1, <4>3, <4>4
    <3>4. k = 1 \/ (k # 1 /\ k <= N) \/ (k = N + 1 /\ k # 1)
      OBVIOUS
    <3> QED
      BY <3>1, <3>2, <3>3, <3>4
  <2>3. h = [k \in 1 .. N + 1 |-> h[k]]
    OBVIOUS
  <2> HIDE DEF h
  <2>4. OffsetRun(r, h, N + 1)
    BY <2>2, <2>3 DEF OffsetRun
  <2>5. N + 1 \in Nat
    OBVIOUS
  <2> QED
    BY <2>4, <2>5
<1> HIDE DEF S
<1>3. \A n \in 0 .. K - 1 : n \in S => n + 1 \in S
  BY <1>2
<1>4. \A n \in 0 .. K : n \in S
  BY <1>1, <1>3, Induction
<1>5. K \in S
  BY <1>4
<1> QED
  BY <1>5 DEF S

\* Offsets do not depend on how many are computed.
LEMMA OffsetsAgree ==
  ASSUME NEW r, NEW f, NEW h, NEW K \in Nat, NEW M \in Nat, K <= M,
         OffsetRun(r, f, K), OffsetRun(r, h, M)
  PROVE  \A k \in 1 .. K : f[k] = h[k]
<1> DEFINE S == {k \in Nat : k = 0 \/ f[k] = h[k]}
<1>1. 0 \in S
  OBVIOUS
<1>2. ASSUME NEW k \in 0 .. K - 1, k \in S PROVE k + 1 \in S
  <2>1. k + 1 \in 1 .. K /\ k + 1 \in 1 .. M /\ (k + 1) - 1 = k /\ k + 1 \in Nat
    OBVIOUS
  <2>2. f[k + 1] = (IF k + 1 = 1 THEN 0 ELSE f[k] + StatesOf(r, k))
    BY <2>1 DEF OffsetRun
  <2>3. h[k + 1] = (IF k + 1 = 1 THEN 0 ELSE h[k] + StatesOf(r, k))
    BY <2>1 DEF OffsetRun
  <2>4. k + 1 # 1 => f[k] = h[k]
    BY <1>2
  <2> QED
    BY <2>1, <2>2, <2>3, <2>4
<1> HIDE DEF S
<1>3. \A k \in 0 .. K : k \in S
  BY <1>1, <1>2, Induction
<1> QED
  BY <1>3 DEF S

\* The states of a box begin where those of the box before end.
LEMMA NextOffset ==
  ASSUME NEW r, NEW b \in Nat, b >= 1
  PROVE  StateOffset(r, 1) = 0 /\ StateOffset(r, b + 1) = StateOffset(r, b) + StatesOf(r, b)
<1>1. ASSUME NEW K \in Nat
      PROVE  \E f : OffsetRun(r, f, K) /\ StateOffset(r, K) = f[K]
  <2> DEFINE f == CHOOSE g : OffsetRun(r, g, K)
  <2>1. OffsetRun(r, f, K)
    BY OffsetRuns
  <2>2. StateOffset(r, K) = f[K]
    BY DEF StateOffset, OffsetRun
  <2> HIDE DEF f
  <2> QED
    BY <2>1, <2>2
<1>2. StateOffset(r, 1) = 0
  <2>1. PICK f : OffsetRun(r, f, 1) /\ StateOffset(r, 1) = f[1]
    BY <1>1
  <2>2. 1 \in 1 .. 1
    OBVIOUS
  <2> QED
    BY <2>1, <2>2 DEF OffsetRun
<1>3. PICK f : OffsetRun(r, f, b) /\ StateOffset(r, b) = f[b]
  BY <1>1
<1>4. PICK h : OffsetRun(r, h, b + 1) /\ StateOffset(r, b + 1) = h[b + 1]
  <2>1. b + 1 \in Nat
    OBVIOUS
  <2> QED
    BY <1>1, <2>1
<1>5. b \in 1 .. b /\ b + 1 \in 1 .. b + 1 /\ b + 1 # 1 /\ (b + 1) - 1 = b /\ b <= b + 1 /\ b + 1 \in Nat
  OBVIOUS
<1>6. h[b + 1] = h[b] + StatesOf(r, b)
  BY <1>4, <1>5 DEF OffsetRun
<1>7. f[b] = h[b]
  BY <1>3, <1>4, <1>5, OffsetsAgree
<1> QED
  BY <1>2, <1>3, <1>4, <1>6, <1>7

\* Offsets are numbers.
LEMMA OffsetsNat ==
  ASSUME NEW r, NEW N \in Nat, \A b \in 1 .. N : StatesOf(r, b) \in Nat
  PROVE  \A b \in 1 .. N + 1 : StateOffset(r, b) \in Nat
<1> DEFINE S == {b \in Nat : StateOffset(r, b + 1) \in Nat}
<1>1. 0 \in S
  <2>1. StateOffset(r, 1) = 0 /\ 0 + 1 = 1
    <3>1. 1 \in Nat /\ 1 >= 1
      OBVIOUS
    <3> QED
      BY <3>1, NextOffset
  <2> QED
    BY <2>1
<1>2. ASSUME NEW b \in 0 .. N - 1, b \in S PROVE b + 1 \in S
  <2>1. b + 1 \in Nat /\ b + 1 >= 1 /\ b + 1 \in 1 .. N
    OBVIOUS
  <2>2. StateOffset(r, (b + 1) + 1) = StateOffset(r, b + 1) + StatesOf(r, b + 1)
    BY <2>1, NextOffset
  <2>3. StateOffset(r, b + 1) \in Nat /\ StatesOf(r, b + 1) \in Nat
    BY <1>2, <2>1
  <2> QED
    BY <2>1, <2>2, <2>3
<1> HIDE DEF S
<1>3. \A b \in 0 .. N : b \in S
  BY <1>1, <1>2, Induction
<1>4. ASSUME NEW b \in 1 .. N + 1 PROVE StateOffset(r, b) \in Nat
  <2>1. b - 1 \in 0 .. N /\ (b - 1) + 1 = b
    OBVIOUS
  <2>2. b - 1 \in S
    BY <1>3, <2>1
  <2> QED
    BY <2>1, <2>2 DEF S
<1> QED
  BY <1>4

\* The states of each box by name, and the same in one sequence.
NamesOf(r) ==
  [b \in DOMAIN r.boxes |->
     [s \in DOMAIN r.boxes[b].states |-> <<r.nonterms[b].label, r.boxes[b].states[s].label>>]]

\* G holds the states of box b from the offset of b on.
Layout(r, G) ==
  /\ Len(G) = StateOffset(r, Len(r.boxes) + 1)
  /\ \A b \in DOMAIN r.boxes : \A s \in 1 .. StatesOf(r, b) :
       G[StateOffset(r, b) + s] = <<r.nonterms[b].label, r.boxes[b].states[s].label>>

\* Flattening lays the states out in the order of the boxes.
LEMMA Flat ==
  ASSUME NEW r, MachineFits(r), Len(r.boxes) # 0
  PROVE  Layout(r, FlattenSeq(NamesOf(r)))
<1> DEFINE N == Len(r.boxes)
           T == LabelRecord \X LabelRecord
           seqs == NamesOf(r)
<1>1. N \in Nat /\ N >= 1 /\ DOMAIN r.boxes = 1 .. N /\ DOMAIN r.nonterms = 1 .. N
      /\ Listed(r.nonterms)
  BY Parts
<1>2. ASSUME NEW b \in 1 .. N
      PROVE  /\ seqs[b] \in Seq(T) /\ Len(seqs[b]) = StatesOf(r, b) /\ StatesOf(r, b) \in Nat
             /\ \A s \in 1 .. StatesOf(r, b) :
                  seqs[b][s] = <<r.nonterms[b].label, r.boxes[b].states[s].label>>
  <2> DEFINE x == r.boxes[b]
             name == r.nonterms[b].label
  <2>1. x \in CFG_RSM_Box
    BY <1>1, Parts
  <2>2. name \in LabelRecord
    <3>1. r.nonterms[b] \in Symbol(LabelRecord)
      BY <1>1 DEF Listed
    <3> QED
      BY <3>1 DEF Symbol
  <2>3. seqs[b] = [s \in DOMAIN x.states |-> <<name, x.states[s].label>>]
    BY <1>1 DEF NamesOf
  <2>4. StatesOf(r, b) = Len(x.states)
    BY DEF StatesOf
  <2> HIDE DEF x, name, seqs
  <2>5. DOMAIN x.states = 1 .. Len(x.states) /\ Len(x.states) \in Nat /\ Listed(x.states)
    BY <2>1, BoxParts
  <2>6. \A s \in 1 .. Len(x.states) : x.states[s].label \in LabelRecord
    <3>1. \A s \in 1 .. Len(x.states) : x.states[s] \in Symbol(LabelRecord)
      BY <2>5 DEF Listed
    <3> QED
      BY <3>1 DEF Symbol
  <2>7. seqs[b] \in [1 .. Len(x.states) -> T]
    BY <2>2, <2>3, <2>5, <2>6
  <2>8. seqs[b] \in Seq(T) /\ Len(seqs[b]) = Len(x.states)
    BY <2>5, <2>7
  <2>9. \A s \in 1 .. Len(x.states) : seqs[b][s] = <<name, x.states[s].label>>
    BY <2>3, <2>5
  <2> QED
    BY <2>4, <2>5, <2>8, <2>9 DEF x, name
<1>3. Len(seqs) = N
  <2>1. DOMAIN seqs = 1 .. N /\ seqs = [b \in 1 .. N |-> seqs[b]]
    BY <1>1 DEF NamesOf
  <2> HIDE DEF seqs
  <2>2. seqs \in [1 .. N -> {seqs[b] : b \in 1 .. N}]
    BY <2>1
  <2> QED
    BY <1>1, <2>1, <2>2
<1> DEFINE at == [b \in 1 .. N + 1 |-> StateOffset(r, b)]
<1>4. at[1] = 0 /\ \A b \in 1 .. N : at[b + 1] = at[b] + Len(seqs[b])
  <2>1. 1 \in 1 .. N + 1 /\ 1 \in Nat /\ 1 >= 1
    BY <1>1
  <2>2. at[1] = 0
    BY <2>1, NextOffset
  <2>3. ASSUME NEW b \in 1 .. N PROVE at[b + 1] = at[b] + Len(seqs[b])
    <3>1. b \in Nat /\ b >= 1 /\ b \in 1 .. N + 1 /\ b + 1 \in 1 .. N + 1
      BY <1>1
    <3>2. at[b + 1] = StateOffset(r, b + 1) /\ at[b] = StateOffset(r, b)
      BY <3>1
    <3>3. StateOffset(r, b + 1) = StateOffset(r, b) + StatesOf(r, b)
      BY <3>1, NextOffset
    <3> HIDE DEF at, seqs
    <3> QED
      BY <1>2, <3>2, <3>3
  <2> QED
    BY <2>2, <2>3
<1>5. LaidOut(T, seqs, at, FlattenSeq(seqs), N)
  <2>1. \A b \in 1 .. N : seqs[b] \in Seq(T)
    BY <1>2
  <2>2. N \in Nat /\ N >= 1
    BY <1>1
  <2> HIDE DEF T, seqs, at, N
  <2> QED
    BY <1>3, <1>4, <2>1, <2>2, FlattenLaysOut
<1>6. /\ N + 1 \in 1 .. N + 1 /\ \A b \in 1 .. N : b \in 1 .. N + 1
      /\ \A b \in 1 .. N + 1 : at[b] = StateOffset(r, b)
  BY <1>1
<1>7. /\ Len(FlattenSeq(seqs)) = StateOffset(r, N + 1)
      /\ \A b \in 1 .. N : \A s \in 1 .. StatesOf(r, b) :
           FlattenSeq(seqs)[StateOffset(r, b) + s] = seqs[b][s]
  <2> HIDE DEF T, seqs, at
  <2> QED
    BY <1>2, <1>5, <1>6 DEF LaidOut
<1>8. \A b \in 1 .. N : \A s \in 1 .. StatesOf(r, b) :
        FlattenSeq(seqs)[StateOffset(r, b) + s] = <<r.nonterms[b].label, r.boxes[b].states[s].label>>
  <2> HIDE DEF seqs
  <2> QED
    BY <1>2, <1>7
<1> QED
  BY <1>1, <1>7, <1>8 DEF Layout

-----------------------------------------------------------------------------
(* The matrices *)

\* A transition has the index of a label iff it spells the label.
LEMMA LabelIs ==
  ASSUME NEW r, MachineFits(r), NEW count, NEW e \in CFG_Edge, EdgeFits(r, count, e)
  PROVE  /\ \A t \in DOMAIN r.terms :
              (e.label = t /\ e.is_term = TRUE) <=> EdgeLabel(r, e) = r.terms[t].label
         /\ \A n \in DOMAIN r.nonterms :
              (e.label = n /\ e.is_term = FALSE) <=> EdgeLabel(r, e) = r.nonterms[n].label
<1>1. e.is_term \in BOOLEAN
  BY DEF CFG_Edge
<1>2. /\ DOMAIN r.terms = 1 .. Len(r.terms) /\ DOMAIN r.nonterms = 1 .. Len(r.nonterms)
      /\ DistinctLabels(r.terms) /\ DistinctLabels(r.nonterms)
      /\ LabelsOf(r.nonterms) \cap LabelsOf(r.terms) = {}
  BY Parts DEF MachineFits
<1>3. CASE e.is_term = TRUE
  <2>1. EdgeLabel(r, e) = r.terms[e.label].label /\ e.label \in DOMAIN r.terms
    BY <1>2, <1>3 DEF EdgeFits, EdgeLabel
  <2>2. \A n \in DOMAIN r.nonterms : EdgeLabel(r, e) # r.nonterms[n].label
    BY <1>2, <2>1 DEF LabelsOf
  <2>3. \A t \in DOMAIN r.terms : e.label = t <=> r.terms[e.label].label = r.terms[t].label
    BY <1>2, <2>1 DEF DistinctLabels
  <2> QED
    BY <1>3, <2>1, <2>2, <2>3
<1>4. CASE e.is_term = FALSE
  <2>1. EdgeLabel(r, e) = r.nonterms[e.label].label /\ e.label \in DOMAIN r.nonterms
    BY <1>2, <1>4 DEF EdgeFits, EdgeLabel
  <2>2. \A t \in DOMAIN r.terms : EdgeLabel(r, e) # r.terms[t].label
    BY <1>2, <2>1 DEF LabelsOf
  <2>3. \A n \in DOMAIN r.nonterms : e.label = n <=> r.nonterms[e.label].label = r.nonterms[n].label
    BY <1>2, <2>1 DEF DistinctLabels
  <2> QED
    BY <1>4, <2>1, <2>2, <2>3
<1> QED
  BY <1>1, <1>3, <1>4

\* A matrix with the states by name.
NamedIn(G, matrix) == {<<G[e[1]], G[e[2]]>> : e \in matrix}

\* The transition n of box b by name.
NamedEdge(r, b, n) ==
  << <<r.nonterms[b].label, r.boxes[b].states[r.boxes[b].edges[n].start].label>>,
     <<r.nonterms[b].label, r.boxes[b].states[r.boxes[b].edges[n].end].label>> >>

\* p is a transition with the label.
SpelledAs(r, label, p) ==
  \E b \in DOMAIN r.boxes : \E n \in DOMAIN r.boxes[b].edges :
    EdgeLabel(r, r.boxes[b].edges[n]) = label /\ p = NamedEdge(r, b, n)

\* The transition n of box b by number.
GlobalEdge(r, b, n) ==
  <<StateOffset(r, b) + r.boxes[b].edges[n].start, StateOffset(r, b) + r.boxes[b].edges[n].end>>

\* What is in a matrix.
LEMMA InMatrix ==
  ASSUME NEW r, NEW t, NEW flag, NEW e
  PROVE  e \in MatrixOf(r, t, flag) <=>
           \E b \in DOMAIN r.boxes : \E n \in DOMAIN r.boxes[b].edges :
             /\ r.boxes[b].edges[n].label = t /\ r.boxes[b].edges[n].is_term = flag
             /\ e = GlobalEdge(r, b, n)
BY DEF MatrixOf, GlobalEdge

\* The matrix of a label by name.
LEMMA NamedMatrix ==
  ASSUME NEW r, MachineFits(r), NEW G, Layout(r, G), NEW t, NEW flag, NEW label,
         \A b \in DOMAIN r.boxes : \A n \in DOMAIN r.boxes[b].edges :
           (r.boxes[b].edges[n].label = t /\ r.boxes[b].edges[n].is_term = flag) <=>
             EdgeLabel(r, r.boxes[b].edges[n]) = label,
         NEW p
  PROVE  p \in NamedIn(G, MatrixOf(r, t, flag)) <=> SpelledAs(r, label, p)
<1>1. ASSUME NEW b \in DOMAIN r.boxes, NEW n \in DOMAIN r.boxes[b].edges
      PROVE  <<G[GlobalEdge(r, b, n)[1]], G[GlobalEdge(r, b, n)[2]]>> = NamedEdge(r, b, n)
  <2> DEFINE e == r.boxes[b].edges[n]
  <2>1. BoxFits(r, r.boxes[b])
    BY DEF MachineFits
  <2>2. e.start \in 1 .. StatesOf(r, b) /\ e.end \in 1 .. StatesOf(r, b)
    BY <2>1 DEF BoxFits, EdgesFit, EdgeFits, StatesOf
  <2>3. /\ G[StateOffset(r, b) + e.start] = <<r.nonterms[b].label, r.boxes[b].states[e.start].label>>
        /\ G[StateOffset(r, b) + e.end] = <<r.nonterms[b].label, r.boxes[b].states[e.end].label>>
    BY <2>2 DEF Layout
  <2>4. /\ GlobalEdge(r, b, n)[1] = StateOffset(r, b) + e.start
        /\ GlobalEdge(r, b, n)[2] = StateOffset(r, b) + e.end
    BY DEF GlobalEdge
  <2>5. NamedEdge(r, b, n) =
          << <<r.nonterms[b].label, r.boxes[b].states[e.start].label>>,
             <<r.nonterms[b].label, r.boxes[b].states[e.end].label>> >>
    BY DEF NamedEdge
  <2> HIDE DEF e
  <2> QED
    BY <2>3, <2>4, <2>5
<1>2. ASSUME p \in NamedIn(G, MatrixOf(r, t, flag)) PROVE SpelledAs(r, label, p)
  <2>1. PICK e \in MatrixOf(r, t, flag) : p = <<G[e[1]], G[e[2]]>>
    BY <1>2 DEF NamedIn
  <2>2. PICK b \in DOMAIN r.boxes : \E n \in DOMAIN r.boxes[b].edges :
          /\ r.boxes[b].edges[n].label = t /\ r.boxes[b].edges[n].is_term = flag
          /\ e = GlobalEdge(r, b, n)
    BY <2>1, InMatrix
  <2>3. PICK n \in DOMAIN r.boxes[b].edges :
          /\ r.boxes[b].edges[n].label = t /\ r.boxes[b].edges[n].is_term = flag
          /\ e = GlobalEdge(r, b, n)
    BY <2>2
  <2> QED
    BY <1>1, <2>1, <2>3 DEF SpelledAs
<1>3. ASSUME SpelledAs(r, label, p) PROVE p \in NamedIn(G, MatrixOf(r, t, flag))
  <2>0. PICK b \in DOMAIN r.boxes : \E n \in DOMAIN r.boxes[b].edges :
          EdgeLabel(r, r.boxes[b].edges[n]) = label /\ p = NamedEdge(r, b, n)
    BY <1>3 DEF SpelledAs
  <2>1. PICK n \in DOMAIN r.boxes[b].edges :
          EdgeLabel(r, r.boxes[b].edges[n]) = label /\ p = NamedEdge(r, b, n)
    BY <2>0
  <2>2. GlobalEdge(r, b, n) \in MatrixOf(r, t, flag)
    BY <2>1, InMatrix
  <2> QED
    BY <1>1, <2>1, <2>2 DEF NamedIn
<1> QED
  BY <1>2, <1>3

\* The matrices of a machine, of a terminal and of a nonterminal.
LEMMA MatricesNamed ==
  ASSUME NEW r, MachineFits(r), NEW G, Layout(r, G), NEW p
  PROVE  /\ \A t \in DOMAIN r.terms :
              p \in NamedIn(G, MatrixOf(r, t, TRUE)) <=> SpelledAs(r, r.terms[t].label, p)
         /\ \A n \in DOMAIN r.nonterms :
              p \in NamedIn(G, MatrixOf(r, n, FALSE)) <=> SpelledAs(r, r.nonterms[n].label, p)
<1>1. ASSUME NEW b \in DOMAIN r.boxes, NEW n \in DOMAIN r.boxes[b].edges
      PROVE  /\ r.boxes[b].edges[n] \in CFG_Edge
             /\ EdgeFits(r, Len(r.boxes[b].states), r.boxes[b].edges[n])
  <2>1. BoxFits(r, r.boxes[b])
    BY DEF MachineFits
  <2>2. r.boxes[b] \in CFG_RSM_Box
    <3>1. r.boxes \in Seq(CFG_RSM_Box)
      BY Parts
    <3> QED
      BY <3>1
  <2> QED
    BY <2>1, <2>2, BoxParts DEF BoxFits, EdgesFit
<1>2. ASSUME NEW t \in DOMAIN r.terms
      PROVE  p \in NamedIn(G, MatrixOf(r, t, TRUE)) <=> SpelledAs(r, r.terms[t].label, p)
  <2>1. PICK yes : yes = TRUE
    OBVIOUS
  <2>2. \A b \in DOMAIN r.boxes : \A n \in DOMAIN r.boxes[b].edges :
          (r.boxes[b].edges[n].label = t /\ r.boxes[b].edges[n].is_term = yes) <=>
             EdgeLabel(r, r.boxes[b].edges[n]) = r.terms[t].label
    <3> TAKE b \in DOMAIN r.boxes
    <3> TAKE n \in DOMAIN r.boxes[b].edges
    <3> DEFINE e == r.boxes[b].edges[n]
    <3>1. e \in CFG_Edge /\ EdgeFits(r, Len(r.boxes[b].states), e)
      BY <1>1
    <3> HIDE DEF e
    <3>2. (e.label = t /\ e.is_term = TRUE) <=> EdgeLabel(r, e) = r.terms[t].label
      <4>1. MachineFits(r)
        OBVIOUS
      <4>2. \A u \in DOMAIN r.terms :
              (e.label = u /\ e.is_term = TRUE) <=> EdgeLabel(r, e) = r.terms[u].label
        BY ONLY <3>1, <4>1, LabelIs
      <4> QED
        BY ONLY <4>2, t \in DOMAIN r.terms
    <3>3. (e.label = t /\ e.is_term = yes) <=> EdgeLabel(r, e) = r.terms[t].label
      BY <2>1, <3>2
    <3> QED
      BY <3>3 DEF e
  <2>3. p \in NamedIn(G, MatrixOf(r, t, yes)) <=> SpelledAs(r, r.terms[t].label, p)
    BY <2>2, NamedMatrix
  <2> QED
    BY <2>1, <2>3
<1>3. ASSUME NEW t \in DOMAIN r.nonterms
      PROVE  p \in NamedIn(G, MatrixOf(r, t, FALSE)) <=> SpelledAs(r, r.nonterms[t].label, p)
  <2>1. PICK no : no = FALSE
    OBVIOUS
  <2>2. \A b \in DOMAIN r.boxes : \A n \in DOMAIN r.boxes[b].edges :
          (r.boxes[b].edges[n].label = t /\ r.boxes[b].edges[n].is_term = no) <=>
             EdgeLabel(r, r.boxes[b].edges[n]) = r.nonterms[t].label
    <3> TAKE b \in DOMAIN r.boxes
    <3> TAKE n \in DOMAIN r.boxes[b].edges
    <3> DEFINE e == r.boxes[b].edges[n]
    <3>1. e \in CFG_Edge /\ EdgeFits(r, Len(r.boxes[b].states), e)
      BY <1>1
    <3> HIDE DEF e
    <3>2. (e.label = t /\ e.is_term = FALSE) <=> EdgeLabel(r, e) = r.nonterms[t].label
      <4>1. MachineFits(r)
        OBVIOUS
      <4>2. \A u \in DOMAIN r.nonterms :
              (e.label = u /\ e.is_term = FALSE) <=> EdgeLabel(r, e) = r.nonterms[u].label
        BY ONLY <3>1, <4>1, LabelIs
      <4> QED
        BY ONLY <4>2, t \in DOMAIN r.nonterms
    <3>3. (e.label = t /\ e.is_term = no) <=> EdgeLabel(r, e) = r.nonterms[t].label
      BY <2>1, <3>2
    <3> QED
      BY <3>3 DEF e
  <2>3. p \in NamedIn(G, MatrixOf(r, t, no)) <=> SpelledAs(r, r.nonterms[t].label, p)
    BY <2>2, NamedMatrix
  <2> QED
    BY <2>1, <2>3
<1> QED
  BY <1>2, <1>3

\* The transitions of the file with a label are those of the machine that says what it says.
LEMMA FileSpelled ==
  ASSUME file \in RSMFiles, NEW r, MachineFits(r), Says(file, r, Len(file.lines)),
         LabelsOf(r.nonterms) = BoxNames(file), NEW label, NEW p
  PROVE  p \in TransitionsInFile(label) <=> SpelledAs(r, label, p)
<1>1. DOMAIN r.boxes = DOMAIN r.nonterms
  BY Parts
<1>2. BoxesInFile = {r.nonterms[b].label : b \in DOMAIN r.boxes}
  BY <1>1, SameBoxes DEF LabelsOf
<1>3. ASSUME NEW b \in DOMAIN r.boxes
      PROVE  EdgesInFile(r.nonterms[b].label, Len(file.lines)) = SpelledEdges(r, r.boxes[b])
  BY SameEdges DEF Says, BoxSpells
<1>4. ASSUME NEW b \in DOMAIN r.boxes, NEW n \in DOMAIN r.boxes[b].edges
      PROVE  LET d == SpelledEdge(r, r.boxes[b], r.boxes[b].edges[n])
             IN /\ d[2] = EdgeLabel(r, r.boxes[b].edges[n])
                /\ << <<r.nonterms[b].label, d[1]>>, <<r.nonterms[b].label, d[3]>> >> = NamedEdge(r, b, n)
  BY DEF SpelledEdge, NamedEdge
<1>5. ASSUME p \in TransitionsInFile(label) PROVE SpelledAs(r, label, p)
  <2>0. PICK name \in BoxesInFile : \E d \in EdgesInFile(name, Len(file.lines)) :
          d[2] = label /\ p = << <<name, d[1]>>, <<name, d[3]>> >>
    BY <1>5 DEF TransitionsInFile
  <2>1. PICK d \in EdgesInFile(name, Len(file.lines)) :
          d[2] = label /\ p = << <<name, d[1]>>, <<name, d[3]>> >>
    BY <2>0
  <2>2. PICK b \in DOMAIN r.boxes : name = r.nonterms[b].label
    BY <1>2
  <2>3. PICK n \in DOMAIN r.boxes[b].edges : d = SpelledEdge(r, r.boxes[b], r.boxes[b].edges[n])
    BY <1>3, <2>1, <2>2 DEF SpelledEdges
  <2> QED
    BY <1>4, <2>1, <2>2, <2>3 DEF SpelledAs
<1>6. ASSUME SpelledAs(r, label, p) PROVE p \in TransitionsInFile(label)
  <2>0. PICK b \in DOMAIN r.boxes : \E n \in DOMAIN r.boxes[b].edges :
          EdgeLabel(r, r.boxes[b].edges[n]) = label /\ p = NamedEdge(r, b, n)
    BY <1>6 DEF SpelledAs
  <2>1. PICK n \in DOMAIN r.boxes[b].edges :
          EdgeLabel(r, r.boxes[b].edges[n]) = label /\ p = NamedEdge(r, b, n)
    BY <2>0
  <2> DEFINE d == SpelledEdge(r, r.boxes[b], r.boxes[b].edges[n])
             name == r.nonterms[b].label
  <2>2. d \in EdgesInFile(name, Len(file.lines))
    BY <1>3 DEF SpelledEdges
  <2>3. d[2] = label /\ p = << <<name, d[1]>>, <<name, d[3]>> >>
    BY <1>4, <2>1
  <2>4. name \in BoxesInFile
    BY <1>2
  <2> HIDE DEF d, name
  <2> QED
    BY <2>2, <2>3, <2>4 DEF TransitionsInFile
<1> QED
  BY <1>5, <1>6

\* The states of each box with the marks of the conversion.
LEMMA NamedBox ==
  ASSUME NEW r, MachineFits(r), NEW G, Layout(r, G), NEW b \in DOMAIN r.boxes,
         NEW name, name = r.nonterms[b].label
  PROVE  /\ r.boxes[b].start_state # RSM_NO_STATE =>
              {G[StateOffset(r, b) + r.boxes[b].start_state]}
                = {<<name, st>> : st \in SpelledStarts(r.boxes[b])}
         /\ {G[s] : s \in {StateOffset(r, b) + k : k \in ToSet(r.boxes[b].final_states)}}
              = {<<name, st>> : st \in SpelledFinals(r.boxes[b])}
<1> DEFINE x == r.boxes[b]
<1>1. BoxFits(r, x) /\ x \in CFG_RSM_Box
  <2>1. r.boxes \in Seq(CFG_RSM_Box)
    BY Parts
  <2>2. r.boxes[b] \in CFG_RSM_Box
    BY <2>1
  <2> QED
    BY <2>2 DEF MachineFits
<1>2. StatesOf(r, b) = Len(x.states)
  BY DEF StatesOf
<1>3. \A s \in 1 .. Len(x.states) : G[StateOffset(r, b) + s] = <<name, x.states[s].label>>
  BY <1>2 DEF Layout
<1> HIDE DEF x
<1>4. ASSUME x.start_state # RSM_NO_STATE
      PROVE  {G[StateOffset(r, b) + x.start_state]} = {<<name, st>> : st \in SpelledStarts(x)}
  <2>1. x.start_state \in 1 .. Len(x.states) /\ x.start_state # 0
    <3>1. x.start_state \in 0 .. Len(x.states) /\ x.start_state # 0
      BY <1>1, <1>4 DEF BoxFits, RSM_NO_STATE
    <3>2. Len(x.states) \in Nat
      BY <1>1, BoxParts
    <3> QED
      BY <3>1, <3>2
  <2>2. G[StateOffset(r, b) + x.start_state] = <<name, x.states[x.start_state].label>>
    BY <1>3, <2>1
  <2>3. SpelledStarts(x) = {x.states[x.start_state].label}
    BY <2>1 DEF SpelledStarts
  <2> QED
    BY <2>2, <2>3
<1>5. \A k \in ToSet(x.final_states) : G[StateOffset(r, b) + k] = <<name, x.states[k].label>>
  <2>1. \A k \in ToSet(x.final_states) : k \in 1 .. Len(x.states)
    BY <1>1 DEF BoxFits, FinalsFit, ToSet
  <2> QED
    BY <1>3, <2>1
<1>6. {G[s] : s \in {StateOffset(r, b) + k : k \in ToSet(x.final_states)}}
        = {<<name, st>> : st \in SpelledFinals(x)}
  <2>1. {G[s] : s \in {StateOffset(r, b) + k : k \in ToSet(x.final_states)}}
          = {G[StateOffset(r, b) + k] : k \in ToSet(x.final_states)}
    OBVIOUS
  <2>2. {<<name, st>> : st \in SpelledFinals(x)}
          = {<<name, x.states[k].label>> : k \in ToSet(x.final_states)}
    BY DEF SpelledFinals
  <2> QED
    BY <1>5, <2>1, <2>2
<1> QED
  BY <1>4, <1>6 DEF x

\* A converted machine is complete and laid out.
LEMMA AtConversion ==
  ASSUME ReaderInv, pc = "converted"
  PROVE  /\ file \in RSMFiles /\ MachineFits(rsm) /\ lagraph = rsm_convert_to_lagraph(rsm)
         /\ Says(file, rsm, Len(file.lines)) /\ LabelsOf(rsm.nonterms) = BoxNames(file)
         /\ TermsKept(file, rsm) /\ GoodFile(file)
         /\ rsm.nonterms[rsm.start_nonterm].label = StartBoxOf(file)
         /\ DOMAIN rsm.boxes = DOMAIN rsm.nonterms
         /\ \A b \in DOMAIN rsm.boxes : rsm.boxes[b].start_state # RSM_NO_STATE
         /\ Layout(rsm, GlobalStates)
<1>1. /\ file \in RSMFiles /\ MachineFits(rsm) /\ lagraph = rsm_convert_to_lagraph(rsm)
      /\ GoodFile(file) /\ rsm.nonterms[rsm.start_nonterm].label = StartBoxOf(file)
      /\ Reading(file, rsm, Len(file.lines), box, start_box)
      /\ rsm.start_nonterm \in 1 .. Len(rsm.nonterms)
  BY DEF ReaderInv
<1>2. /\ Says(file, rsm, Len(file.lines)) /\ LabelsOf(rsm.nonterms) = BoxNames(file)
      /\ TermsKept(file, rsm)
  BY <1>1 DEF Reading, Collected, BoxNames, Says
<1>3. DOMAIN rsm.boxes = DOMAIN rsm.nonterms
  BY <1>1, Parts
<1>4. \A b \in DOMAIN rsm.boxes : rsm.boxes[b].start_state # RSM_NO_STATE
  BY <1>1, <1>2, AllStarted DEF GoodFile
<1>5. Len(rsm.boxes) # 0
  <2>1. Len(rsm.boxes) = Len(rsm.nonterms) /\ Len(rsm.boxes) \in Nat
    BY <1>1, Parts DEF MachineFits
  <2> QED
    BY <1>1, <2>1
<1>6. GlobalStates = FlattenSeq(NamesOf(rsm))
  BY DEF GlobalStates, NamesOf
<1>7. Layout(rsm, GlobalStates)
  BY <1>1, <1>5, <1>6, Flat
<1> QED
  BY <1>1, <1>2, <1>3, <1>4, <1>7

(***************************************************************************)
(* rsm.c:514-550 for every file: the matrices LAGraph gets hold the        *)
(* transitions of the file and no others, the states of a box lie behind   *)
(* those of the boxes before it and nowhere else, and matrix t is that of  *)
(* label t of the graph.                                                   *)
(***************************************************************************)
THEOREM MatricesSpell == AdapterSpec => []MatricesSpellTheFile
<1>1. RowsInv => MatricesSpellTheFile
  <2> SUFFICES ASSUME ReaderInv, pc = "converted" PROVE MatricesSpellTheFile
    BY DEF RowsInv, MatricesSpellTheFile
  <2>1. /\ file \in RSMFiles /\ MachineFits(rsm) /\ lagraph = rsm_convert_to_lagraph(rsm)
        /\ Says(file, rsm, Len(file.lines)) /\ LabelsOf(rsm.nonterms) = BoxNames(file)
        /\ TermsKept(file, rsm) /\ GoodFile(file)
        /\ rsm.nonterms[rsm.start_nonterm].label = StartBoxOf(file)
        /\ DOMAIN rsm.boxes = DOMAIN rsm.nonterms
        /\ \A b \in DOMAIN rsm.boxes : rsm.boxes[b].start_state # RSM_NO_STATE
        /\ Layout(rsm, GlobalStates)
    BY AtConversion
  <2>2. \A m : Named(m) = NamedIn(GlobalStates, m)
    BY DEF Named, NamedIn
  <2>3. lagraph.state_count = Len(GlobalStates)
    BY <2>1 DEF rsm_convert_to_lagraph, Layout
  <2>4. ASSUME NEW t \in DOMAIN lagraph.terminal_matrices
        PROVE  LET label == (IF t \in DOMAIN file.terms THEN file.terms ELSE rsm.terms)[t].label
               IN Named(lagraph.terminal_matrices[t]) = TransitionsInFile(label)
    <3> DEFINE label == (IF t \in DOMAIN file.terms THEN file.terms ELSE rsm.terms)[t].label
    <3>1. t \in DOMAIN rsm.terms /\ lagraph.terminal_matrices[t] = MatrixOf(rsm, t, TRUE)
      BY <2>1 DEF rsm_convert_to_lagraph
    <3>2. label = rsm.terms[t].label
      BY <2>1 DEF TermsKept
    <3> HIDE DEF label
    <3>3. \A p : p \in NamedIn(GlobalStates, MatrixOf(rsm, t, TRUE)) <=>
                   SpelledAs(rsm, rsm.terms[t].label, p)
      BY <2>1, <3>1, MatricesNamed
    <3>4. \A p : p \in TransitionsInFile(rsm.terms[t].label) <=> SpelledAs(rsm, rsm.terms[t].label, p)
      BY <2>1, FileSpelled
    <3>5. NamedIn(GlobalStates, MatrixOf(rsm, t, TRUE)) = TransitionsInFile(label)
      BY <3>2, <3>3, <3>4
    <3> QED
      BY <2>2, <3>1, <3>5 DEF label
  <2>5. ASSUME NEW b \in DOMAIN rsm.boxes
        PROVE  LET name == rsm.nonterms[b].label IN
               /\ Named(lagraph.nonterminal_matrices[b]) = TransitionsInFile(name)
               /\ {GlobalStates[lagraph.start_states[b]]}
                    = {<<name, st>> : st \in StartsInFile(name, Len(file.lines))}
               /\ {GlobalStates[s] : s \in lagraph.final_states[b]}
                    = {<<name, st>> : st \in FinalsInFile(name, Len(file.lines))}
    <3> DEFINE name == rsm.nonterms[b].label
    <3>1. /\ b \in DOMAIN rsm.nonterms
          /\ lagraph.nonterminal_matrices[b] = MatrixOf(rsm, b, FALSE)
          /\ lagraph.start_states[b] = StateOffset(rsm, b) + rsm.boxes[b].start_state
          /\ lagraph.final_states[b] =
               {StateOffset(rsm, b) + s : s \in ToSet(rsm.boxes[b].final_states)}
      BY <2>1 DEF rsm_convert_to_lagraph
    <3>2. \A p : p \in NamedIn(GlobalStates, MatrixOf(rsm, b, FALSE)) <=>
                   SpelledAs(rsm, rsm.nonterms[b].label, p)
      BY <2>1, <3>1, MatricesNamed
    <3>3. \A p : p \in TransitionsInFile(rsm.nonterms[b].label) <=>
                   SpelledAs(rsm, rsm.nonterms[b].label, p)
      BY <2>1, FileSpelled
    <3>4. /\ SpelledStarts(rsm.boxes[b]) = StartsInFile(name, Len(file.lines))
          /\ SpelledFinals(rsm.boxes[b]) = FinalsInFile(name, Len(file.lines))
      BY <2>1, SameStarts, SameFinals DEF Says, BoxSpells
    <3> HIDE DEF name
    <3>5. NamedIn(GlobalStates, MatrixOf(rsm, b, FALSE)) = TransitionsInFile(name)
      BY <3>2, <3>3 DEF name
    <3>6. /\ {GlobalStates[StateOffset(rsm, b) + rsm.boxes[b].start_state]}
               = {<<name, st>> : st \in SpelledStarts(rsm.boxes[b])}
          /\ {GlobalStates[s] :
                s \in {StateOffset(rsm, b) + k : k \in ToSet(rsm.boxes[b].final_states)}}
               = {<<name, st>> : st \in SpelledFinals(rsm.boxes[b])}
      <4>1. name = rsm.nonterms[b].label /\ rsm.boxes[b].start_state # RSM_NO_STATE
        BY <2>1 DEF name
      <4> QED
        BY <2>1, <4>1, NamedBox
    <3> QED
      BY <2>2, <3>1, <3>4, <3>5, <3>6 DEF name
  <2>6. rsm.nonterms[lagraph.start_nonterminal].label = StartBoxInFile
    BY <2>1, SameStartBox DEF rsm_convert_to_lagraph
  <2> QED
    BY <2>3, <2>4, <2>5, <2>6 DEF MatricesSpellTheFile
<1> QED
  BY <1>1, ReaderInvariant, PTL
=============================================================================
