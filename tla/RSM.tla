-------------------------------- MODULE RSM ---------------------------------
(***************************************************************************)
(* The recursive state machines of src/rsm.c: a list of nonterminals, one  *)
(* box for each, a list of terminals that may start as the labels of the   *)
(* graph, and the conversion to the matrices LAGraph works on.             *)
(*                                                                         *)
(* Every function checks its arguments and calls abort() when they are     *)
(* wrong: the operator then yields the machine with status "aborted".      *)
(* Indices are those of the C arrays plus one.                             *)
(***************************************************************************)
EXTENDS SymbolList, Labels, SequencesExt

RSM_NO_STATE == 0
RSM_NO_NONTERM == 0

CFG_Edge == [start : Nat, label : Nat, end : Nat, is_term : BOOLEAN]

CFG_RSM_Box ==
  [states : Seq(Symbol(LabelRecord)), edges : Seq(CFG_Edge), start_state : Nat,
   final_states : Seq(Nat)]

CFG_RSM ==
  [nonterms : Seq(Symbol(LabelRecord)), terms : Seq(Symbol(LabelRecord)),
   start_nonterm : Nat, boxes : Seq(CFG_RSM_Box), with_intial_terms : BOOLEAN,
   status : {"ok", "rejected", "aborted"}]

Index(list, str) == symbol_list_get_index_str(list, str)
Has(list, str) == Index(list, str) # NoSymbol

Checked(rsm, cond, result) == IF cond THEN result ELSE [rsm EXCEPT !.status = "aborted"]

rsm_box_init ==
  [states |-> <<>>, edges |-> <<>>, start_state |-> RSM_NO_STATE, final_states |-> <<>>]

\* Over the terminals of the graph.
rsm_init(terms) ==
  [nonterms |-> <<>>, terms |-> terms, start_nonterm |-> RSM_NO_NONTERM, boxes |-> <<>>,
   with_intial_terms |-> TRUE, status |-> "ok"]

rsm_add_nonterm(rsm, nonterm) ==
  Checked(rsm,
    ~Has(rsm.nonterms, nonterm) /\ ~Has(rsm.terms, nonterm)
      /\ Len(rsm.nonterms) = Len(rsm.boxes),
    [rsm EXCEPT !.nonterms = symbol_list_add_str(@, nonterm, TRUE),
                !.boxes = Append(@, rsm_box_init),
                !.start_nonterm = IF @ = RSM_NO_NONTERM THEN Len(rsm.nonterms) + 1 ELSE @])

rsm_set_start_nonterm(rsm, nonterm) ==
  Checked(rsm, Has(rsm.nonterms, nonterm),
    [rsm EXCEPT !.start_nonterm = Index(rsm.nonterms, nonterm)])

rsm_add_term(rsm, term) ==
  Checked(rsm,
    (Has(rsm.terms, term) => rsm.with_intial_terms) /\ ~Has(rsm.nonterms, term),
    [rsm EXCEPT !.terms = symbol_list_add_str(@, term, FALSE)])

\* The box a nonterminal names, for operators that abort when there is none.
rsm_get_box(rsm, nonterm) == rsm.boxes[Index(rsm.nonterms, nonterm)]
InBox(rsm, nonterm, cond(_), update(_)) ==
  IF Has(rsm.nonterms, nonterm) /\ cond(rsm_get_box(rsm, nonterm))
    THEN [rsm EXCEPT !.boxes[Index(rsm.nonterms, nonterm)] = update(@)]
    ELSE [rsm EXCEPT !.status = "aborted"]

rsm_add_state(rsm, nonterm, state) ==
  InBox(rsm, nonterm,
    LAMBDA box : ~Has(box.states, state),
    LAMBDA box : [box EXCEPT !.states = symbol_list_add_str(@, state, FALSE)])

\* A label of both lists is taken for a terminal.
EdgeFor(rsm, box, state_v, state_u, label) ==
  [start |-> Index(box.states, state_v), end |-> Index(box.states, state_u),
   is_term |-> Has(rsm.terms, label),
   label |-> Index(IF Has(rsm.terms, label) THEN rsm.terms ELSE rsm.nonterms, label)]

rsm_add_edge(rsm, nonterm, state_v, state_u, label) ==
  InBox(rsm, nonterm,
    LAMBDA box : /\ Has(box.states, state_v) /\ Has(box.states, state_u)
                 /\ Has(rsm.terms, label) \/ Has(rsm.nonterms, label),
    LAMBDA box : [box EXCEPT !.edges = Append(@, EdgeFor(rsm, box, state_v, state_u, label))])

rsm_set_start_state(rsm, nonterm, state) ==
  InBox(rsm, nonterm,
    LAMBDA box : Has(box.states, state),
    LAMBDA box : [box EXCEPT !.start_state = Index(box.states, state)])

rsm_add_final_state(rsm, nonterm, state) ==
  InBox(rsm, nonterm,
    LAMBDA box : Has(box.states, state)
                 /\ ~Contains(box.final_states, Index(box.states, state)),
    LAMBDA box : [box EXCEPT !.final_states = Append(@, Index(box.states, state))])

-----------------------------------------------------------------------------
(* Conversion *)

ValidBox(rsm, box) ==
  /\ box.states # <<>>
  /\ box.start_state # RSM_NO_STATE /\ box.start_state <= Len(box.states)
  /\ box.final_states # <<>>
  /\ \A n \in DOMAIN box.final_states : box.final_states[n] <= Len(box.states)
  /\ IsInjective(box.final_states)
  /\ \A n \in DOMAIN box.edges :
       /\ {box.edges[n].start, box.edges[n].end} \subseteq 1 .. Len(box.states)
       /\ box.edges[n].label \in
            1 .. (IF box.edges[n].is_term THEN Len(rsm.terms) ELSE Len(rsm.nonterms))

\* No check of rsm_validate_before_convert aborts.
rsm_validate_before_convert(rsm) ==
  /\ Len(rsm.boxes) = Len(rsm.nonterms) /\ rsm.nonterms # <<>>
  /\ rsm.start_nonterm \in 1 .. Len(rsm.boxes)
  /\ \A b \in DOMAIN rsm.boxes : ValidBox(rsm, rsm.boxes[b])

StatesOf(rsm, b) == Len(rsm.boxes[b].states)

\* Mutant: the offset of a box is that of the one before.
StateOffsetLate(rsm, b) ==
  LET offset[k \in 1 .. b] == IF k <= 2 THEN 0 ELSE offset[k - 1] + StatesOf(rsm, k - 2)
  IN offset[b]

\* The states of the boxes before box b come first.
StateOffset(rsm, b) ==
  LET offset[k \in 1 .. b] == IF k = 1 THEN 0 ELSE offset[k - 1] + StatesOf(rsm, k - 1)
  IN offset[b]

\* The transitions with a label, of all boxes, as pairs of global states.
MatrixOf(rsm, label, is_term) ==
  UNION {LET offset == StateOffset(rsm, b) IN
         {<<offset + rsm.boxes[b].edges[n].start, offset + rsm.boxes[b].edges[n].end>> :
            n \in {m \in DOMAIN rsm.boxes[b].edges :
                     /\ rsm.boxes[b].edges[m].label = label
                     /\ rsm.boxes[b].edges[m].is_term = is_term}} : b \in DOMAIN rsm.boxes}

rsm_convert_to_lagraph(rsm) ==
  [state_count |-> StateOffset(rsm, Len(rsm.boxes) + 1),
   start_nonterminal |-> rsm.start_nonterm,
   terminal_matrices |-> [t \in DOMAIN rsm.terms |-> MatrixOf(rsm, t, TRUE)],
   nonterminal_matrices |-> [n \in DOMAIN rsm.nonterms |-> MatrixOf(rsm, n, FALSE)],
   start_states |-> [b \in DOMAIN rsm.boxes |-> StateOffset(rsm, b) + rsm.boxes[b].start_state],
   final_states |->
     [b \in DOMAIN rsm.boxes |->
        {StateOffset(rsm, b) + s : s \in ToSet(rsm.boxes[b].final_states)}]]
=============================================================================
