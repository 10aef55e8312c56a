------------------------------- MODULE Labels -------------------------------
(***************************************************************************)
(* Labels as far as the program looks inside them: the "NON_TERMINAL#"     *)
(* prefixes grammar_to_WCNF puts in front (counted by pre), a stem, and    *)
(* what follows the stem: nothing, the "_i" of an indexed symbol, or the   *)
(* number symbol_numerate writes in place of that "i".  Two labels are the *)
(* same string exactly when they are the same record, provided no stem     *)
(* begins with the prefix or ends with "_i" or an underscore and a number. *)
(***************************************************************************)
EXTENDS Integers

CONSTANT Stem  \* the stems of the labels in the input files

Plain == -1   \* no suffix
Indexed == -2 \* the suffix "_i"

EpsStem == "EPS"

LabelRecord ==
  [pre : Nat, stem : Stem \cup {EpsStem}, suf : Nat \cup {Plain, Indexed}]

\* symbol_create: a label is indexed when it ends with "_i".
IsIndexed(label) == label.suf = Indexed

symbol_numerate(label, num) ==
  IF IsIndexed(label) THEN [label EXCEPT !.suf = num] ELSE label

\* "NON_TERMINAL#" followed by the label of a terminal.
HelperLabel(label) == [label EXCEPT !.pre = @ + 1]

\* "NON_TERMINAL#EPS", the label of the nonterminal of the empty word.
EpsLabel == [pre |-> 1, stem |-> EpsStem, suf |-> Plain]
=============================================================================
