------------------------------ MODULE RSMFile -------------------------------
(***************************************************************************)
(* rsm_from_file of src/rsm_file.c, and the conversion the CFL_CFPQ_RSM    *)
(* and CFL_Kron adapters call on its result: a first pass makes every box  *)
(* of the file a nonterminal, a second one reads states and transitions,   *)
(* a line with an indexed token once per block.  A step is one line.       *)
(*                                                                         *)
(* A line is a record: what the parse_* functions make of its text.        *)
(***************************************************************************)
EXTENDS RSM, FiniteSetsExt

CONSTANT RSMFiles  \* the inputs: the file and the graph it is for: [exists, lines, block_count, terms, edges]

Kinds == {"skipped", "box", "start", "final", "transition", "other"}

NoName == [pre |-> 0, stem |-> "", suf |-> Plain]

\* No name and no value is the empty string.
FileLine ==
  [kind : {"skipped", "other"}]
    \cup [kind : {"box"}, name : LabelRecord \ {NoName}]
    \cup [kind : {"start"}, value : LabelRecord \ {NoName}]
    \cup [kind : {"final"}, states : Seq(LabelRecord)]
    \cup [kind : {"transition"}, from : LabelRecord, label : LabelRecord, to : LabelRecord]

ASSUME RSMAssumption ==
  \A f \in RSMFiles :
    /\ f.block_count \in Nat
    /\ f.terms \in Seq(Symbol(LabelRecord)) /\ DistinctLabels(f.terms)
    /\ \A k \in DOMAIN f.edges : f.edges[k].term_index \in DOMAIN f.terms
    /\ f.lines \in Seq(FileLine) /\ f.exists \in BOOLEAN

VARIABLES
  file,       \* the input; never changes
  pc,
  line_no,    \* lines read in this pass
  rsm,        \* Reader.rsm
  box,        \* Reader.box, the name of the current box
  start_box,  \* the value of the "start:" line before the first box
  lagraph     \* the converted machine

vars == <<file, pc, line_no, rsm, box, start_box, lagraph>>

DefaultStart == [pre |-> 0, stem |-> "S", suf |-> Plain]

\* (RSM){0}
ZeroRSM ==
  [state_count |-> 0, start_nonterminal |-> 0, terminal_matrices |-> <<>>,
   nonterminal_matrices |-> <<>>, start_states |-> <<>>, final_states |-> <<>>]

\* Before rsm_from_file.
Unread(f) ==
  /\ file = f
  /\ pc = "open" /\ line_no = 0
  /\ rsm = rsm_init(file.terms)
  /\ box = NoName /\ start_box = NoName
  /\ lagraph = ZeroRSM

\* The block count used when there are no indexed edges.
BlockCount == IF file.block_count = 0 THEN 1 ELSE file.block_count

Line == file.lines[line_no + 1]
AtLine(pass, kind) ==
  /\ pc = pass /\ line_no < Len(file.lines)
  /\ Line.kind = kind

Reject == pc' = "rejected" /\ UNCHANGED <<file, line_no, rsm, box, start_box, lagraph>>

Open ==
  /\ pc = "open" /\ file.exists
  /\ pc' = "boxes"
  /\ UNCHANGED <<file, line_no, rsm, box, start_box, lagraph>>

OpenFails == pc = "open" /\ ~file.exists /\ Reject

-----------------------------------------------------------------------------
(* collect_boxes *)

CollectBox ==
  /\ AtLine("boxes", "box")
  /\ ~Has(rsm.nonterms, Line.name) /\ ~Has(rsm.terms, Line.name)
  /\ rsm' = rsm_add_nonterm(rsm, Line.name)
  /\ line_no' = line_no + 1
  /\ UNCHANGED <<file, pc, box, start_box, lagraph>>

CollectOther ==
  /\ \E kind \in Kinds \ {"box"} : AtLine("boxes", kind)
  /\ line_no' = line_no + 1
  /\ UNCHANGED <<file, pc, rsm, box, start_box, lagraph>>

\* A box defined twice, or named like a label of the graph.
CollectClash ==
  /\ AtLine("boxes", "box")
  /\ Has(rsm.nonterms, Line.name) \/ Has(rsm.terms, Line.name)
  /\ Reject

CollectEnd ==
  /\ pc = "boxes" /\ line_no = Len(file.lines)
  /\ pc' = "lines" /\ line_no' = 0
  /\ UNCHANGED <<file, rsm, box, start_box, lagraph>>

-----------------------------------------------------------------------------
(* read_lines: what a line adds to the current box *)

ensure_state(r, state) ==
  IF Has(rsm_get_box(r, box).states, state) THEN r ELSE rsm_add_state(r, box, state)

\* Mutant: a state listed twice is added twice.
add_final_state_Twice(r, state) == rsm_add_final_state(ensure_state(r, state), box, state)

add_final_state(r, state) ==
  LET s == ensure_state(r, state)
      b == rsm_get_box(s, box)
  IN IF Contains(b.final_states, Index(b.states, state)) THEN s
     ELSE rsm_add_final_state(s, box, state)

\* The machine with the label known, as a terminal unless it names a box.
WithLabel(r, label) ==
  IF Has(r.nonterms, label) \/ Has(r.terms, label) THEN r ELSE rsm_add_term(r, label)

\* Mutant: the kind of the label is not asked.
RepeatsAnyKind(r, from, label) ==
  \E n \in DOMAIN rsm_get_box(r, box).edges :
    LET edge == rsm_get_box(r, box).edges[n] IN
    /\ edge.start = Index(rsm_get_box(r, box).states, from)
    /\ edge.label = Index(IF Has(r.nonterms, label) THEN r.nonterms ELSE r.terms, label)

\* The state already has a transition with the label.
Repeats(r, from, label) ==
  \E n \in DOMAIN rsm_get_box(r, box).edges :
    LET edge == rsm_get_box(r, box).edges[n] IN
    /\ edge.start = Index(rsm_get_box(r, box).states, from)
    /\ edge.label = Index(IF Has(r.nonterms, label) THEN r.nonterms ELSE r.terms, label)
    /\ edge.is_term = ~Has(r.nonterms, label)

add_transition(r, from, label, to) ==
  LET s == ensure_state(ensure_state(WithLabel(r, label), from), to) IN
  IF Repeats(s, from, label) THEN [s EXCEPT !.status = "rejected"]
  ELSE rsm_add_edge(s, box, from, to, label)

\* Mutant: a line is repeated only when its label is indexed.
BlocksOfLabel(tokens) == IF Len(tokens) = 3 /\ IsIndexed(tokens[2]) THEN BlockCount ELSE 1

\* The blocks a line is repeated for: all when one of its tokens is indexed.
Blocks(tokens) == IF \E k \in DOMAIN tokens : IsIndexed(tokens[k]) THEN BlockCount ELSE 1

\* What add_line does for one block; nothing once the loop has been left.
AddBlock(r, tokens, is_final, block) ==
  LET token == [k \in DOMAIN tokens |-> symbol_numerate(tokens[k], block)] IN
  IF r.status # "ok" THEN r
  ELSE IF is_final THEN add_final_state(r, token[1])
  ELSE add_transition(r, token[1], token[2], token[3])

add_line(r, tokens, is_final) ==
  LET added[n \in 0 .. Blocks(tokens)] ==
        IF n = 0 THEN r ELSE AddBlock(added[n - 1], tokens, is_final, n - 1)
  IN added[Blocks(tokens)]

\* The tokens of a "final:" line.
add_finals(r, states) ==
  LET added[n \in 0 .. Len(states)] ==
        IF n = 0 THEN r ELSE add_line(added[n - 1], <<states[n]>>, TRUE)
  IN added[Len(states)]

\* Mutant: the result of add_line is not asked.
ContinueAnyway(r) ==
  rsm' = r /\ line_no' = line_no + 1 /\ UNCHANGED <<file, pc, lagraph>>

\* Go on with the next line unless the machine has been rejected or the program aborted.
Continue(r) ==
  /\ rsm' = r
  /\ pc' = IF r.status = "ok" THEN pc ELSE r.status
  /\ line_no' = line_no + 1
  /\ UNCHANGED <<file, lagraph>>

ReadSkipped == AtLine("lines", "skipped") /\ Continue(rsm) /\ UNCHANGED <<box, start_box>>

ReadBox == AtLine("lines", "box") /\ Continue(rsm) /\ box' = Line.name /\ UNCHANGED start_box

\* Before the first box.
ReadStartBox ==
  /\ AtLine("lines", "start") /\ box = NoName
  /\ Continue(rsm)
  /\ start_box' = Line.value
  /\ UNCHANGED box

ReadStartState ==
  /\ AtLine("lines", "start") /\ box # NoName
  /\ rsm_get_box(rsm, box).start_state = RSM_NO_STATE
  /\ ~IsIndexed(Line.value)
  /\ Continue(rsm_set_start_state(ensure_state(rsm, Line.value), box, Line.value))
  /\ UNCHANGED <<box, start_box>>

ReadFinal ==
  /\ AtLine("lines", "final") /\ box # NoName
  /\ Continue(add_finals(rsm, Line.states))
  /\ UNCHANGED <<box, start_box>>

ReadTransition ==
  /\ AtLine("lines", "transition") /\ box # NoName
  /\ Continue(add_line(rsm, <<Line.from, Line.label, Line.to>>, FALSE))
  /\ UNCHANGED <<box, start_box>>

\* A second or an indexed start state; text that is none of the forms, or
\* anything but "start:" before the first box.
ReadError ==
  /\ \/ /\ AtLine("lines", "start") /\ box # NoName
        /\ rsm_get_box(rsm, box).start_state # RSM_NO_STATE \/ IsIndexed(Line.value)
     \/ AtLine("lines", "other")
     \/ \E kind \in {"final", "transition"} : AtLine("lines", kind) /\ box = NoName
  /\ Reject

StartBox == IF start_box = NoName THEN DefaultStart ELSE start_box

\* What is checked when all lines are read.
Complete ==
  /\ rsm.nonterms # <<>> /\ Has(rsm.nonterms, StartBox)
  /\ \A b \in DOMAIN rsm.boxes : rsm.boxes[b].start_state # RSM_NO_STATE

ReadEnd ==
  /\ pc = "lines" /\ line_no = Len(file.lines) /\ Complete
  /\ rsm' = rsm_set_start_nonterm(rsm, StartBox)
  /\ pc' = "read"
  /\ UNCHANGED <<file, line_no, box, start_box, lagraph>>

ReadIncomplete ==
  /\ pc = "lines" /\ line_no = Len(file.lines) /\ ~Complete
  /\ Reject

\* The adapter converts what it was given; a check that fails aborts.
Convert ==
  /\ pc = "read"
  /\ IF rsm_validate_before_convert(rsm)
       THEN pc' = "converted" /\ lagraph' = rsm_convert_to_lagraph(rsm)
       ELSE pc' = "aborted" /\ UNCHANGED lagraph
  /\ UNCHANGED <<file, line_no, rsm, box, start_box>>

ReadStep ==
  \/ Open \/ OpenFails \/ CollectBox \/ CollectOther \/ CollectClash \/ CollectEnd
  \/ ReadSkipped \/ ReadBox \/ ReadStartBox \/ ReadStartState \/ ReadFinal \/ ReadTransition
  \/ ReadError \/ ReadEnd \/ ReadIncomplete

-----------------------------------------------------------------------------
(* What the file says *)

\* The box line n is in.
BoxAt(n) ==
  LET heads == {m \in 1 .. n - 1 : file.lines[m].kind = "box"}
  IN IF heads = {} THEN NoName ELSE file.lines[Max(heads)].name

LinesOf(kind, name, last) ==
  {n \in 1 .. last : file.lines[n].kind = kind /\ BoxAt(n) = name}

\* A token without an index is the same for every block, and so is a line of such tokens.
Instance(line, block) ==
  <<symbol_numerate(line.from, block), symbol_numerate(line.label, block),
    symbol_numerate(line.to, block)>>

EdgesInFile(name, last) ==
  {Instance(file.lines[n], block) :
     n \in LinesOf("transition", name, last), block \in 0 .. BlockCount - 1}

FinalsInFile(name, last) ==
  UNION {{symbol_numerate(state, block) :
            state \in ToSet(file.lines[n].states), block \in 0 .. BlockCount - 1} :
           n \in LinesOf("final", name, last)}

StartsInFile(name, last) == {file.lines[n].value : n \in LinesOf("start", name, last)}

StatesInFile(name, last) ==
  StartsInFile(name, last) \cup FinalsInFile(name, last)
    \cup {e[1] : e \in EdgesInFile(name, last)} \cup {e[3] : e \in EdgesInFile(name, last)}

BoxLines == {n \in DOMAIN file.lines : file.lines[n].kind = "box"}
BoxesInFile == {file.lines[n].name : n \in BoxLines}

\* No two lines, nor two blocks of one, give a state two transitions with one label.
DeterministicFile ==
  \A name \in BoxesInFile :
    \A n, m \in LinesOf("transition", name, Len(file.lines)) :
      \A i, j \in 0 .. BlockCount - 1 :
        LET e == Instance(file.lines[n], i)
            f == Instance(file.lines[m], j)
        IN <<e[1], e[2]>> = <<f[1], f[2]>> =>
             n = m /\ (e = f \/ i = j)

StartBoxInFile ==
  LET starts == LinesOf("start", NoName, Len(file.lines))
  IN IF starts = {} THEN DefaultStart ELSE file.lines[Max(starts)].value

WellFormed ==
  /\ file.exists
  /\ BoxesInFile # {} /\ Cardinality(BoxesInFile) = Cardinality(BoxLines)
  /\ BoxesInFile \cap LabelsOf(file.terms) = {}
  /\ \A n \in DOMAIN file.lines :
       /\ file.lines[n].kind # "other"
       /\ BoxAt(n) = NoName => file.lines[n].kind \in {"skipped", "box", "start"}
  /\ StartBoxInFile \in BoxesInFile
  /\ \A name \in BoxesInFile :
       /\ Cardinality(LinesOf("start", name, Len(file.lines))) = 1
       /\ \A state \in StartsInFile(name, Len(file.lines)) : ~IsIndexed(state)
  /\ DeterministicFile

-----------------------------------------------------------------------------
(* Properties *)

\* Every index of the machine is in its list, and an error stops the reading (rsm_file.c:264).
TypeOK ==
  /\ pc \in {"open", "boxes", "lines", "read", "converted", "rejected", "aborted"}
  /\ line_no \in 0 .. Len(file.lines)
  /\ box \in LabelRecord \cup {NoName} /\ start_box \in LabelRecord \cup {NoName}
  /\ rsm \in CFG_RSM
  /\ \A b \in DOMAIN rsm.boxes :
       /\ rsm.boxes[b].start_state \in 0 .. Len(rsm.boxes[b].states)
       /\ \A n \in DOMAIN rsm.boxes[b].edges :
            {rsm.boxes[b].edges[n].start, rsm.boxes[b].edges[n].end}
              \subseteq DOMAIN rsm.boxes[b].states
  /\ pc \in {"open", "boxes", "lines", "read", "converted"} => rsm.status = "ok"

LabelOf(edge) == (IF edge.is_term THEN rsm.terms ELSE rsm.nonterms)[edge.label].label

\* rsm_file.h:12-22: at every line the boxes hold the states, final states and
\* transitions of the lines read so far, each once, an indexed line once per
\* block with one number for all its tokens; a label that names a box, perhaps
\* one defined later, is a nonterminal.
BoxesSpellTheFile ==
  pc \in {"lines", "read", "converted"} =>
    \A b \in DOMAIN rsm.boxes :
      LET name == rsm.nonterms[b].label
          states == rsm.boxes[b].states
          edges == rsm.boxes[b].edges
      IN /\ {<<states[edges[n].start].label, LabelOf(edges[n]), states[edges[n].end].label>> :
               n \in DOMAIN edges} = EdgesInFile(name, line_no)
         /\ Len(edges) = Cardinality(EdgesInFile(name, line_no))
         /\ \A n \in DOMAIN edges : edges[n].is_term <=> LabelOf(edges[n]) \notin BoxesInFile
         /\ LabelsOf(states) = StatesInFile(name, line_no) /\ DistinctLabels(states)
         /\ {states[s].label : s \in ToSet(rsm.boxes[b].final_states)} = FinalsInFile(name, line_no)

\* The states of the converted machine by name: those of the first box, of the second, ...
GlobalStates ==
  FlattenSeq([b \in DOMAIN rsm.boxes |->
    [s \in DOMAIN rsm.boxes[b].states |->
       <<rsm.nonterms[b].label, rsm.boxes[b].states[s].label>>]])

Named(matrix) == {<<GlobalStates[e[1]], GlobalStates[e[2]]>> : e \in matrix}
TransitionsInFile(label) ==
  UNION {{<< <<name, e[1]>>, <<name, e[3]>> >> :
            e \in {f \in EdgesInFile(name, Len(file.lines)) : f[2] = label}} : name \in BoxesInFile}

\* rsm.c:514-550: the matrices LAGraph gets hold the transitions of the file and
\* no others, boxes do not run into each other, and matrix t is that of label
\* t of the graph, which is multiplied with the graph's matrix t.
MatricesSpellTheFile ==
  pc = "converted" =>
    /\ lagraph.state_count = Len(GlobalStates)
    /\ \A t \in DOMAIN lagraph.terminal_matrices :
         LET label == (IF t \in DOMAIN file.terms THEN file.terms ELSE rsm.terms)[t].label
         IN Named(lagraph.terminal_matrices[t]) = TransitionsInFile(label)
    /\ \A b \in DOMAIN rsm.boxes :
         LET name == rsm.nonterms[b].label IN
         /\ Named(lagraph.nonterminal_matrices[b]) = TransitionsInFile(name)
         /\ {GlobalStates[lagraph.start_states[b]]}
              = {<<name, state>> : state \in StartsInFile(name, Len(file.lines))}
         /\ {GlobalStates[s] : s \in lagraph.final_states[b]}
              = {<<name, state>> : state \in FinalsInFile(name, Len(file.lines))}
    /\ rsm.nonterms[lagraph.start_nonterminal].label = StartBoxInFile

\* rsm_file.h:24-25 and rsm.c:381: NULL is returned exactly for a file that is
\* not well formed as a whole, wherever in the two passes the fault is met, and
\* the reader never lets the builder abort, except for a box without final
\* states, which it accepts.
OutcomeIsTheFiles ==
  /\ pc \in {"converted", "rejected", "aborted"} => (pc = "rejected" <=> ~WellFormed)
  /\ pc \in {"converted", "aborted"} =>
       (pc = "aborted" <=> \E name \in BoxesInFile : FinalsInFile(name, Len(file.lines)) = {})
=============================================================================
