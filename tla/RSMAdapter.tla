----------------------------- MODULE RSMAdapter -----------------------------
(***************************************************************************)
(* The CFL_Kron and CFL_CFPQ_RSM adapters over the rows of one             *)
(* configuration file, as test.c drives them: prepare reads the row's      *)
(* recursive state machine and splits the graph by label, one round runs,  *)
(* cleanup frees.  The state of the adapter is a static that lives from    *)
(* row to row, and test.c does not look at what prepare returns.           *)
(*                                                                         *)
(* The terminals in file.terms, in this order, are what the same steps as  *)
(* in CFLPrepare leave.  Which start vertices CFL_CFPQ_RSM takes is in     *)
(* StartNodes; here the array is held or not.                              *)
(***************************************************************************)
EXTENDS RSMFile

CONSTANT AdapterRuns  \* the programs to run: [adapter, rows]

ASSUME AdapterRunsAssumption ==
  \A r \in AdapterRuns :
    /\ r.adapter \in {"CFL_Kron", "CFL_CFPQ_RSM"}
    /\ r.rows \in Seq(RSMFiles) /\ r.rows # <<>>

VARIABLES
  adapter,   \* the tested adapter and
  rows,      \* the rows of the configuration; neither ever changes
  row,       \* the row that is worked on
  phase,     \* the adapter's function to be called next
  state      \* the adapter's static state

adapterVars == <<vars, adapter, rows, row, phase, state>>

NULL == <<>>

AdapterInit ==
  /\ \E r \in AdapterRuns : adapter = r.adapter /\ rows = r.rows
  /\ Unread(rows[1])
  /\ row = 1 /\ phase = "prepare"
  /\ state = [rsm |-> ZeroRSM, adj_matrices |-> NULL, sources |-> FALSE, outputs |-> NULL]

-----------------------------------------------------------------------------

\* The edges with each terminal of the machine, a terminal the reader has
\* added after those of the graph has none.
prepared_adj_matrices ==
  [t \in DOMAIN rsm.terms |->
     {<<file.edges[k].u, file.edges[k].v>> :
        k \in {j \in DOMAIN file.edges : file.edges[j].term_index = t}}]

PrepareRead ==
  /\ phase = "prepare" /\ ReadStep
  /\ phase' = IF pc' = "rejected" THEN "init_outputs" ELSE phase
  /\ UNCHANGED <<adapter, rows, row, state>>

\* A machine that fails the checks of the conversion ends the program.
KronPrepare ==
  /\ phase = "prepare" /\ adapter = "CFL_Kron" /\ Convert
  /\ IF pc' = "converted"
       THEN /\ state' = [state EXCEPT !.rsm = lagraph', !.adj_matrices = prepared_adj_matrices,
                                      !.outputs = NULL]
            /\ phase' = "init_outputs"
       ELSE phase' = "aborted" /\ UNCHANGED state
  /\ UNCHANGED <<adapter, rows, row>>

CFPQPrepare ==
  /\ phase = "prepare" /\ adapter = "CFL_CFPQ_RSM" /\ Convert
  /\ IF pc' = "converted"
       THEN /\ state' = [state EXCEPT !.rsm = lagraph', !.adj_matrices = prepared_adj_matrices,
                                      !.sources = TRUE]
            /\ phase' = "init_outputs"
       ELSE phase' = "aborted" /\ UNCHANGED state
  /\ UNCHANGED <<adapter, rows, row>>

\* CFL_Kron has a matrix per nonterminal, CFL_CFPQ_RSM one vector; the
\* algorithm makes them.
InitOutputs ==
  /\ phase = "init_outputs"
  /\ state' = [state EXCEPT !.outputs =
                 IF adapter = "CFL_Kron" THEN [n \in DOMAIN state.rsm.nonterminal_matrices |-> "none"]
                 ELSE <<"none">>]
  /\ phase' = "run"
  /\ UNCHANGED <<vars, adapter, rows, row>>

\* LAGraph_CFL_AllPaths_Kronecker and LAGraph_CFPQ_RSM; a failure leaves no output.
Run ==
  /\ phase = "run"
  /\ \E made \in {"none", "made"} : state' = [state EXCEPT !.outputs = [n \in DOMAIN @ |-> made]]
  /\ phase' = "free_outputs"
  /\ UNCHANGED <<vars, adapter, rows, row>>

FreeOutputs ==
  /\ phase = "free_outputs"
  /\ state' = [state EXCEPT !.outputs = NULL]
  /\ phase' = "cleanup"
  /\ UNCHANGED <<vars, adapter, rows, row>>

\* The matrices cleanup looks at, one for each terminal of the machine.
CleanupWalks == DOMAIN state.rsm.terminal_matrices

\* A walk over an array that is not there ends the program.
CleanupCrash ==
  /\ phase = "cleanup" /\ ~(CleanupWalks \subseteq DOMAIN state.adj_matrices)
  /\ phase' = "crashed"
  /\ UNCHANGED <<vars, adapter, rows, row, state>>

\* Mutant: CFL_Kron keeps the machine, as CFL_CFPQ_RSM does.
KronCleanupKeepsMachine ==
  /\ phase = "cleanup" /\ adapter = "CFL_Kron"
  /\ CleanupWalks \subseteq DOMAIN state.adj_matrices
  /\ state' = [state EXCEPT !.adj_matrices = NULL]
  /\ phase' = "cleaned"
  /\ UNCHANGED <<vars, adapter, rows, row>>

KronCleanup ==
  /\ phase = "cleanup" /\ adapter = "CFL_Kron"
  /\ CleanupWalks \subseteq DOMAIN state.adj_matrices
  /\ state' = [state EXCEPT !.adj_matrices = NULL, !.rsm = ZeroRSM]
  /\ phase' = "cleaned"
  /\ UNCHANGED <<vars, adapter, rows, row>>

\* The machine is not freed.
CFPQCleanup ==
  /\ phase = "cleanup" /\ adapter = "CFL_CFPQ_RSM"
  /\ CleanupWalks \subseteq DOMAIN state.adj_matrices
  /\ state' = [state EXCEPT !.adj_matrices = NULL, !.sources = FALSE]
  /\ phase' = "cleaned"
  /\ UNCHANGED <<vars, adapter, rows, row>>

NextRow ==
  /\ phase = "cleaned" /\ row < Len(rows)
  /\ row' = row + 1 /\ phase' = "prepare"
  /\ file' = rows[row + 1] /\ pc' = "open" /\ line_no' = 0
  /\ rsm' = rsm_init(file'.terms) /\ box' = NoName /\ start_box' = NoName
  /\ lagraph' = ZeroRSM
  /\ UNCHANGED <<adapter, rows, state>>

\* The program has ended.
Ended ==
  /\ phase \in {"aborted", "crashed"} \/ (phase = "cleaned" /\ row = Len(rows))
  /\ UNCHANGED adapterVars

AdapterNext ==
  \/ PrepareRead \/ KronPrepare \/ CFPQPrepare
  \/ InitOutputs \/ Run \/ FreeOutputs
  \/ CleanupCrash \/ KronCleanup \/ CFPQCleanup
  \/ NextRow
  \/ Ended

AdapterSpec == AdapterInit /\ [][AdapterNext]_adapterVars

-----------------------------------------------------------------------------
(* Properties *)

\* What a row's prepare has left for the calls after it.
MachineOfTheRow ==
  /\ state.rsm = lagraph
  /\ DOMAIN state.adj_matrices = DOMAIN lagraph.terminal_matrices

NothingHeld == state.rsm = ZeroRSM /\ state.adj_matrices = NULL /\ ~state.sources

\* adapter_CFL_Kron.c:63, adapter_CFL_CFPQ_RSM.c:71: test.c does not look at what
\* prepare returns and goes on with the calls of a row it refused.  After a row that
\* was accepted every call finds that row's machine, with a matrix of this row's
\* graph for each of its terminals, whatever the rows before it left behind; after a
\* refused one no call finds matrices.  CFL_Kron then has no machine either, and
\* comes through every sequence of rows.
StateFitForCalls ==
  /\ phase \in {"init_outputs", "run", "free_outputs", "cleanup"} =>
       IF pc = "converted" THEN MachineOfTheRow
       ELSE state.adj_matrices = NULL /\ (adapter = "CFL_Kron" => state.rsm = ZeroRSM)
  /\ adapter = "CFL_Kron" => phase # "crashed"

\* adapter_CFL_CFPQ_RSM.c:183 and adapter_CFL_Kron.c:172, of cleanup: "free all
\* resources allocated by the adapter except outputs".  It comes to its end for every
\* row, and after the last row the adapter holds nothing of any.
CleanupFreesAll ==
  /\ phase # "crashed"
  /\ phase = "cleaned" /\ row = Len(rows) => NothingHeld
=============================================================================
