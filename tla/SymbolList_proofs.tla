-------------------------- MODULE SymbolList_proofs --------------------------
(***************************************************************************)
(* What the operations of the symbol table do for a table of any length    *)
(* and any labels, and what loops over numbers and sequences do: the facts *)
(* the proofs about the parser, the preparations and the reader rest on.   *)
(***************************************************************************)
EXTENDS SymbolList, SequencesExt, WellFoundedInduction, TLAPS

(***************************************************************************)
(* A set of numbers has a least element: the search of                     *)
(* symbol_list_get_index_str from the front finds a first occurrence.      *)
(***************************************************************************)
LEMMA LeastElement ==
  ASSUME NEW T, T \subseteq Nat, T # {}
  PROVE  \E x \in T : \A y \in T : x <= y
<1> DEFINE R == OpToRel(<, Nat)
<1>1. IsWellFoundedOn(R, Nat)
  BY NatLessThanWellFounded
<1>2. \A x, y \in Nat : x < y => <<x, y>> \in R
  BY DEF OpToRel
<1> HIDE DEF R
<1>3. PICK x \in T : \A y \in T : ~(<<y, x>> \in R)
  BY <1>1, WFMin
<1>4. ASSUME NEW y \in T PROVE x <= y
  <2>1. x \in Nat /\ y \in Nat
    OBVIOUS
  <2>2. ~(y < x)
    BY <1>2, <1>3, <2>1
  <2> QED BY <2>1, <2>2
<1> QED BY <1>4

(***************************************************************************)
(* symbol_list_get_index_str returns a symbol with the label if the table  *)
(* has one, and "no symbol" otherwise.                                     *)
(***************************************************************************)
LEMMA GetIndexFindsLabel ==
  ASSUME NEW L, NEW list \in Seq(Symbol(L)), NEW str
  PROVE  /\ str \notin LabelsOf(list) =>
              /\ symbol_list_get_index_str(list, str) = NoSymbol
              /\ \A i \in 1 .. Len(list) : list[i].label # str
         /\ str \in LabelsOf(list) =>
              /\ symbol_list_get_index_str(list, str) \in 1 .. Len(list)
              /\ list[symbol_list_get_index_str(list, str)].label = str
<1>1. DOMAIN list = 1 .. Len(list)
  OBVIOUS
<1>2. CASE str \notin LabelsOf(list)
  BY <1>1, <1>2 DEF symbol_list_get_index_str, LabelsOf
<1>3. CASE str \in LabelsOf(list)
  <2> DEFINE T == {i \in 1 .. Len(list) : list[i].label = str}
  <2>1. T \subseteq Nat /\ T # {}
    BY <1>1, <1>3 DEF LabelsOf
  <2>2. PICK x \in T : \A y \in T : x <= y
    BY <2>1, LeastElement
  <2>3. /\ x \in DOMAIN list /\ list[x].label = str
        /\ \A k \in 1 .. x - 1 : list[k].label # str
    <3>1. ASSUME NEW k \in 1 .. x - 1, list[k].label = str PROVE FALSE
      <4>1. k \in T /\ ~(x <= k)
        BY <3>1
      <4> QED BY <4>1, <2>2
    <3> QED BY <1>1, <3>1
  <2> QED BY <1>1, <1>3, <2>3 DEF symbol_list_get_index_str
<1> QED BY <1>2, <1>3

(***************************************************************************)
(* What symbol_list_add_str promises of the table before, the table after  *)
(* and the index it returns: the index is in the new table and has the     *)
(* label; the symbol there is a nonterminal if it was one or is now asked  *)
(* to be; every other symbol stays as it was; at most one is appended.     *)
(***************************************************************************)
IsAdded(L, list, str, b, new, at) ==
  /\ new \in Seq(Symbol(L))
  /\ at \in 1 .. Len(new)
  /\ Len(new) >= Len(list)
  /\ new[at].label = str
  /\ b = TRUE => new[at].is_nonterm = TRUE
  /\ \A i \in 1 .. Len(list) :
       /\ new[i].label = list[i].label
       /\ list[i].is_nonterm = TRUE => new[i].is_nonterm = TRUE
       /\ b = FALSE \/ i # at => new[i] = list[i]
  /\ \A i \in 1 .. Len(new) : i > Len(list) =>
       i = at /\ new[i].is_nonterm = b /\ str \notin LabelsOf(list)

\* symbol_list_add_str keeps that promise, on any table and for any label.
LEMMA AddStr ==
  ASSUME NEW L, NEW list \in Seq(Symbol(L)), NEW str \in L, NEW b \in BOOLEAN
  PROVE  IsAdded(L, list, str, b, symbol_list_add_str(list, str, b), AddedIndex(list, str))
<1> DEFINE new == symbol_list_add_str(list, str, b)
           at == AddedIndex(list, str)
<1>1. CASE str \notin LabelsOf(list)
  <2>1. at = Len(list) + 1 /\ new = Append(list, [label |-> str, is_nonterm |-> b])
    BY <1>1, GetIndexFindsLabel DEF symbol_list_add_str, AddedIndex
  <2>2. [label |-> str, is_nonterm |-> b] \in Symbol(L)
    BY DEF Symbol
  <2> HIDE DEF new, at
  <2> QED BY <1>1, <2>1, <2>2 DEF new, at, IsAdded
<1>2. CASE str \in LabelsOf(list)
  <2>1. at \in 1 .. Len(list) /\ list[at].label = str /\ at # NoSymbol
    BY <1>2, GetIndexFindsLabel DEF AddedIndex, NoSymbol
  <2>2. symbol_list_get_index_str(list, str) = at
    BY <1>2, GetIndexFindsLabel DEF AddedIndex, NoSymbol
  <2>3. list[at] \in Symbol(L)
    BY <2>1
  <2> HIDE DEF at
  <2>4. CASE b = FALSE
    <3>1. new = list
      BY <2>1, <2>2, <2>4 DEF symbol_list_add_str
    <3> QED BY <2>1, <2>4, <3>1 DEF at, IsAdded
  <2>5. CASE b = TRUE
    <3> DEFINE sym == [list[at] EXCEPT !.is_nonterm = TRUE]
    <3>1. new = [list EXCEPT ![at] = sym]
      BY <2>1, <2>2, <2>5 DEF symbol_list_add_str
    <3>2. sym \in Symbol(L) /\ sym.label = str /\ sym.is_nonterm = TRUE
      BY <2>1, <2>3 DEF Symbol
    <3> HIDE DEF sym, new
    <3>3. /\ new \in Seq(Symbol(L)) /\ Len(new) = Len(list)
          /\ \A i \in 1 .. Len(list) : new[i] = IF i = at THEN sym ELSE list[i]
      BY <2>1, <3>1, <3>2
    <3>4. /\ at \in 1 .. Len(new) /\ Len(new) >= Len(list)
          /\ new[at].label = str /\ new[at].is_nonterm = TRUE
          /\ \A i \in 1 .. Len(list) :
               /\ new[i].label = list[i].label
               /\ list[i].is_nonterm = TRUE => new[i].is_nonterm = TRUE
               /\ i # at => new[i] = list[i]
          /\ \A i \in 1 .. Len(new) : ~(i > Len(list))
      BY <2>1, <3>2, <3>3
    <3> QED BY <2>5, <3>3, <3>4 DEF at, new, IsAdded
  <2> QED BY <2>4, <2>5
<1> QED BY <1>1, <1>2

\* Adding a label keeps the labels of the table distinct.
LEMMA AddStrKeepsDistinct ==
  ASSUME NEW L, NEW list \in Seq(Symbol(L)), NEW str \in L, NEW b \in BOOLEAN,
         DistinctLabels(list)
  PROVE  DistinctLabels(symbol_list_add_str(list, str, b))
<1> DEFINE new == symbol_list_add_str(list, str, b)
           at == AddedIndex(list, str)
<1>0. IsAdded(L, list, str, b, new, at)
  BY AddStr
<1> HIDE DEF new, at
<1>1. /\ new \in Seq(Symbol(L)) /\ Len(new) >= Len(list) /\ new[at].label = str
      /\ \A i \in 1 .. Len(list) : new[i].label = list[i].label
      /\ \A i \in 1 .. Len(new) : i > Len(list) => i = at /\ str \notin LabelsOf(list)
  BY <1>0 DEF IsAdded
<1>2. DOMAIN new = 1 .. Len(new) /\ DOMAIN list = 1 .. Len(list)
  BY <1>1
<1>3. \A i \in 1 .. Len(list) : list[i].label \in LabelsOf(list)
  BY <1>2 DEF LabelsOf
<1>4. ASSUME NEW k \in 1 .. Len(new), NEW l \in 1 .. Len(new), new[k].label = new[l].label
      PROVE k = l
  <2>1. CASE k <= Len(list) /\ l <= Len(list)
    BY <1>1, <1>2, <1>4, <2>1 DEF DistinctLabels
  <2>2. CASE k > Len(list) /\ l > Len(list)
    BY <1>1, <2>2
  <2>3. CASE k > Len(list) /\ l <= Len(list)
    <3>1. l \in 1 .. Len(list) /\ new[k].label = str /\ str \notin LabelsOf(list)
      BY <1>1, <2>3
    <3> QED BY <1>1, <1>3, <1>4, <3>1
  <2>4. CASE k <= Len(list) /\ l > Len(list)
    <3>1. k \in 1 .. Len(list) /\ new[l].label = str /\ str \notin LabelsOf(list)
      BY <1>1, <2>4
    <3> QED BY <1>1, <1>3, <1>4, <3>1
  <2> QED BY <1>1, <2>1, <2>2, <2>3, <2>4
<1> QED BY <1>2, <1>4 DEF DistinctLabels, new

\* symbol_list_swap exchanges two symbols and leaves the others in place.
LEMMA SwapExchanges ==
  ASSUME NEW L, NEW list \in Seq(Symbol(L)),
         NEW i1 \in 1 .. Len(list), NEW i2 \in 1 .. Len(list)
  PROVE  LET new == symbol_list_swap(list, i1, i2)
         IN /\ new \in Seq(Symbol(L)) /\ Len(new) = Len(list)
            /\ new[i1] = list[i2] /\ new[i2] = list[i1]
            /\ \A k \in 1 .. Len(list) : k # i1 /\ k # i2 => new[k] = list[k]
<1>1. list[i1] \in Symbol(L) /\ list[i2] \in Symbol(L)
  OBVIOUS
<1> QED BY <1>1 DEF symbol_list_swap

\* Swapping keeps the labels of the table distinct.
LEMMA SwapKeepsDistinct ==
  ASSUME NEW L, NEW list \in Seq(Symbol(L)),
         NEW i1 \in 1 .. Len(list), NEW i2 \in 1 .. Len(list), DistinctLabels(list)
  PROVE  DistinctLabels(symbol_list_swap(list, i1, i2))
<1> DEFINE new == symbol_list_swap(list, i1, i2)
           from == [k \in 1 .. Len(list) |-> IF k = i1 THEN i2 ELSE IF k = i2 THEN i1 ELSE k]
<1>1. /\ new \in Seq(Symbol(L)) /\ Len(new) = Len(list)
      /\ new[i1] = list[i2] /\ new[i2] = list[i1]
      /\ \A k \in 1 .. Len(list) : k # i1 /\ k # i2 => new[k] = list[k]
  BY SwapExchanges
<1> HIDE DEF new
<1>2. \A k \in 1 .. Len(list) : new[k] = list[from[k]] /\ from[k] \in 1 .. Len(list)
  BY <1>1
<1>3. \A k, l \in 1 .. Len(list) : from[k] = from[l] => k = l
  OBVIOUS
<1> HIDE DEF from
<1>4. DOMAIN new = 1 .. Len(list) /\ DOMAIN list = 1 .. Len(list)
  BY <1>1
<1>5. \A k, l \in 1 .. Len(list) : list[k].label = list[l].label => k = l
  BY <1>4 DEF DistinctLabels
<1>6. \A k, l \in 1 .. Len(list) : new[k].label = new[l].label => k = l
  BY <1>2, <1>3, <1>5
<1> QED BY <1>4, <1>6 DEF DistinctLabels, new

-----------------------------------------------------------------------------
(* Induction over the numbers *)

(***************************************************************************)
(* A set with 0 that holds the successor of each of its numbers up to N    *)
(* holds all numbers up to N: what a loop keeps in each turn          *)
(* it keeps to the end.                                                    *)
(***************************************************************************)
LEMMA Induction ==
  ASSUME NEW N \in Nat, NEW S, 0 \in S, \A n \in 0 .. N - 1 : n \in S => n + 1 \in S
  PROVE  \A n \in 0 .. N : n \in S
<1> DEFINE T == {n \in 0 .. N : n \notin S}
<1> SUFFICES ASSUME T # {} PROVE FALSE
  OBVIOUS
<1>1. T \subseteq Nat
  OBVIOUS
<1>2. PICK x \in T : \A y \in T : x <= y
  BY <1>1, LeastElement
<1>3. x \in 0 .. N /\ x \notin S /\ x # 0
  OBVIOUS
<1>4. x - 1 \in 0 .. N - 1 /\ x - 1 \in 0 .. N /\ (x - 1) + 1 = x /\ ~(x <= x - 1)
  BY <1>3
<1>5. x - 1 \in S
  BY <1>2, <1>4
<1> QED
  BY <1>3, <1>4, <1>5

-----------------------------------------------------------------------------
(* Sequences of sequences *)

\* A sequence of sequences is flattened one by one.
FlatRun(f, seqs, N) == f = [i \in 1 .. N |-> IF i = 1 THEN seqs[i] ELSE f[i - 1] \o seqs[i]]

\* There are concatenations of the first K sequences.
LEMMA FlatRuns ==
  ASSUME NEW seqs, NEW K \in Nat
  PROVE  \E f : FlatRun(f, seqs, K)
<1> DEFINE S == {N \in Nat : \E f : FlatRun(f, seqs, N)}
<1>1. 0 \in S
  <2>1. 1 .. 0 = {}
    OBVIOUS
  <2> DEFINE f == [i \in 1 .. 0 |-> 0]
  <2>2. f = [i \in 1 .. 0 |-> IF i = 1 THEN seqs[i] ELSE f[i - 1] \o seqs[i]]
    BY <2>1
  <2> HIDE DEF f
  <2> QED
    BY <2>2 DEF FlatRun
<1>2. ASSUME NEW N \in Nat, N \in S PROVE N + 1 \in S
  <2>1. PICK f : FlatRun(f, seqs, N)
    BY <1>2
  <2> DEFINE h == [i \in 1 .. N + 1 |->
                     IF i = 1 THEN seqs[1] ELSE IF i <= N THEN f[i] ELSE f[N] \o seqs[N + 1]]
  <2>2. ASSUME NEW i \in 1 .. N + 1
        PROVE  h[i] = IF i = 1 THEN seqs[i] ELSE h[i - 1] \o seqs[i]
    <3>1. CASE i = 1
      BY <3>1
    <3>2. CASE i # 1 /\ i <= N
      <4>1. i \in 1 .. N /\ i - 1 \in 1 .. N + 1 /\ i - 1 <= N /\ i - 1 \in 1 .. N /\ 1 \in 1 .. N
        BY <3>2
      <4>2. f[i] = f[i - 1] \o seqs[i]
        BY <2>1, <3>2, <4>1 DEF FlatRun
      <4>3. f[1] = seqs[1]
        BY <2>1, <4>1 DEF FlatRun
      <4>4. h[i] = f[i]
        BY <3>2
      <4>5. h[i - 1] = f[i - 1]
        BY <4>1, <4>3
      <4> QED
        BY <3>2, <4>2, <4>4, <4>5
    <3>3. CASE i = N + 1 /\ i # 1
      <4>1. N \in 1 .. N + 1 /\ N \in 1 .. N /\ 1 \in 1 .. N /\ i - 1 = N /\ ~(i <= N) /\ N <= N
        BY <3>3
      <4>2. f[1] = seqs[1]
        BY <2>1, <4>1 DEF FlatRun
      <4>3. h[N] = f[N]
        BY <4>1, <4>2
      <4>4. h[i] = f[N] \o seqs[N + 1]
        BY <3>3, <4>1
      <4> QED
        BY <3>3, <4>1, <4>3, <4>4
    <3>4. i = 1 \/ (i # 1 /\ i <= N) \/ (i = N + 1 /\ i # 1)
      OBVIOUS
    <3> QED
      BY <3>1, <3>2, <3>3, <3>4
  <2>3. h = [i \in 1 .. N + 1 |-> h[i]]
    OBVIOUS
  <2> HIDE DEF h
  <2>4. FlatRun(h, seqs, N + 1)
    BY <2>2, <2>3 DEF FlatRun
  <2>5. N + 1 \in Nat
    OBVIOUS
  <2> QED
    BY <2>4, <2>5
<1> HIDE DEF S
<1>3. \A n \in 0 .. K - 1 : n \in S => n + 1 \in S
  BY <1>2
<1>4. \A n \in 0 .. K : n \in S
  BY <1>1, <1>3, Induction
<1>5. K \in S
  BY <1>4
<1> QED
  BY <1>5 DEF S

\* FlattenSeq is the last of them.
LEMMA Flattens ==
  ASSUME NEW seqs, Len(seqs) \in Nat, Len(seqs) # 0
  PROVE  \E f : FlatRun(f, seqs, Len(seqs)) /\ FlattenSeq(seqs) = f[Len(seqs)]
<1> DEFINE f == CHOOSE g : FlatRun(g, seqs, Len(seqs))
<1>1. FlatRun(f, seqs, Len(seqs))
  BY FlatRuns
<1>2. FlattenSeq(seqs) = f[Len(seqs)]
  BY DEF FlattenSeq, FlatRun
<1> HIDE DEF f
<1> QED
  BY <1>1, <1>2

\* A concatenation holds the one sequence and then the other.
LEMMA Concat ==
  ASSUME NEW T, NEW s \in Seq(T), NEW t \in Seq(T)
  PROVE  /\ s \o t \in Seq(T) /\ Len(s \o t) = Len(s) + Len(t)
         /\ \A i \in 1 .. Len(s) : (s \o t)[i] = s[i]
         /\ \A i \in 1 .. Len(t) : (s \o t)[Len(s) + i] = t[i]
<1>1. Len(s) \in Nat /\ Len(t) \in Nat
  OBVIOUS
<1>2. s \o t \in Seq(T) /\ Len(s \o t) = Len(s) + Len(t)
  OBVIOUS
<1>3. ASSUME NEW i \in 1 .. Len(s) PROVE (s \o t)[i] = s[i]
  BY <1>1
<1>4. ASSUME NEW i \in 1 .. Len(t) PROVE (s \o t)[Len(s) + i] = t[i]
  BY <1>1
<1> QED
  BY <1>2, <1>3, <1>4

\* seq holds the first i sequences one after the other, sequence n behind place at[n].
LaidOut(T, seqs, at, seq, i) ==
  /\ seq \in Seq(T) /\ Len(seq) = at[i + 1]
  /\ \A n \in 1 .. i : \A k \in 1 .. Len(seqs[n]) :
       at[n] + k \in 1 .. Len(seq) /\ seq[at[n] + k] = seqs[n][k]

\* One sequence more is laid out.
LEMMA NextLaidOut ==
  ASSUME NEW T, NEW seqs, NEW at, NEW i \in Nat, NEW seq, LaidOut(T, seqs, at, seq, i),
         seqs[i + 1] \in Seq(T), at[(i + 1) + 1] = at[i + 1] + Len(seqs[i + 1])
  PROVE  LaidOut(T, seqs, at, seq \o seqs[i + 1], i + 1)
<1> DEFINE next == seqs[i + 1]
           new == seq \o next
<1>1. seq \in Seq(T) /\ Len(seq) = at[i + 1] /\ Len(seq) \in Nat /\ next \in Seq(T) /\ Len(next) \in Nat
  BY DEF LaidOut
<1>2. /\ new \in Seq(T) /\ Len(new) = Len(seq) + Len(next)
      /\ \A n \in 1 .. Len(seq) : new[n] = seq[n]
      /\ \A n \in 1 .. Len(next) : new[Len(seq) + n] = next[n]
  <2>1. seq \in Seq(T) /\ next \in Seq(T)
    BY <1>1
  <2> HIDE DEF next
  <2> QED
    BY ONLY <2>1, Concat
<1>3. Len(new) = at[(i + 1) + 1]
  BY <1>1, <1>2
<1> HIDE DEF new
<1>4. ASSUME NEW n \in 1 .. i + 1, NEW k \in 1 .. Len(seqs[n])
      PROVE  at[n] + k \in 1 .. Len(new) /\ new[at[n] + k] = seqs[n][k]
  <2>1. CASE n \in 1 .. i
    <3>1. at[n] + k \in 1 .. Len(seq) /\ seq[at[n] + k] = seqs[n][k]
      BY <2>1 DEF LaidOut
    <3>2. \A m \in 1 .. Len(seq) : m \in 1 .. Len(new)
      BY <1>1, <1>2
    <3> QED
      BY <1>2, <3>1, <3>2
  <2>2. CASE n = i + 1
    <3>1. k \in 1 .. Len(next) /\ at[n] = Len(seq) /\ seqs[n] = next
      BY <1>1, <2>2
    <3> HIDE DEF next
    <3>2. Len(seq) + k \in 1 .. Len(new)
      BY <1>1, <1>2, <3>1
    <3>3. new[Len(seq) + k] = next[k]
      BY <1>2, <3>1
    <3> QED
      BY <3>1, <3>2, <3>3
  <2>3. n \in 1 .. i \/ n = i + 1
    OBVIOUS
  <2> QED
    BY <2>1, <2>2, <2>3
<1> QED
  BY <1>2, <1>3, <1>4 DEF LaidOut, new

(***************************************************************************)
(* FlattenSeq lays the sequences out one after the other: the first begins *)
(* at place 1, each other one behind the one before it.                    *)
(***************************************************************************)
LEMMA FlattenLaysOut ==
  ASSUME NEW T, NEW N \in Nat, N >= 1, NEW seqs, Len(seqs) = N,
         \A n \in 1 .. N : seqs[n] \in Seq(T),
         NEW at, at[1] = 0, \A n \in 1 .. N : at[n + 1] = at[n] + Len(seqs[n])
  PROVE  LaidOut(T, seqs, at, FlattenSeq(seqs), N)
<1>1. PICK f : FlatRun(f, seqs, N) /\ FlattenSeq(seqs) = f[N]
  <2>1. \E f : FlatRun(f, seqs, Len(seqs)) /\ FlattenSeq(seqs) = f[Len(seqs)]
    <3>1. Len(seqs) \in Nat /\ Len(seqs) # 0
      OBVIOUS
    <3> QED
      BY ONLY <3>1, Flattens
  <2> QED
    BY <2>1
<1> DEFINE S == {i \in Nat : LaidOut(T, seqs, at, f[i + 1], i + 1)}
<1>2. 0 \in S
  <2>1. 1 \in 1 .. N /\ 0 + 1 = 1
    OBVIOUS
  <2>2. f[1] = seqs[1] /\ seqs[1] \in Seq(T)
    BY <1>1, <2>1 DEF FlatRun
  <2>3. Len(seqs[1]) \in Nat /\ at[1 + 1] = Len(seqs[1])
    <3>1. Len(seqs[1]) \in Nat
      BY <2>2
    <3>2. at[1 + 1] = at[1] + Len(seqs[1])
      BY <2>1
    <3> QED
      BY <3>1, <3>2
  <2>4. ASSUME NEW n \in 1 .. 1, NEW k \in 1 .. Len(seqs[n])
        PROVE  at[n] + k \in 1 .. Len(f[1]) /\ f[1][at[n] + k] = seqs[n][k]
    <3>1. n = 1
      OBVIOUS
    <3>2. at[n] + k = k /\ k \in 1 .. Len(f[1])
      BY <2>2, <2>3, <3>1
    <3> QED
      BY <2>2, <3>1, <3>2
  <2>5. LaidOut(T, seqs, at, f[1], 1)
    BY <2>2, <2>3, <2>4 DEF LaidOut
  <2> QED
    BY <2>1, <2>5
<1>3. ASSUME NEW i \in 0 .. (N - 1) - 1, i \in S PROVE i + 1 \in S
  <2>1. i + 1 \in Nat /\ (i + 1) + 1 \in 1 .. N /\ (i + 1) + 1 # 1 /\ ((i + 1) + 1) - 1 = i + 1
    OBVIOUS
  <2>2. f[(i + 1) + 1] = f[i + 1] \o seqs[(i + 1) + 1]
    BY <1>1, <2>1 DEF FlatRun
  <2>3. seqs[(i + 1) + 1] \in Seq(T) /\ at[((i + 1) + 1) + 1] = at[(i + 1) + 1] + Len(seqs[(i + 1) + 1])
    BY <2>1
  <2>4. LaidOut(T, seqs, at, f[i + 1], i + 1)
    BY <1>3
  <2>5. LaidOut(T, seqs, at, f[i + 1] \o seqs[(i + 1) + 1], (i + 1) + 1)
    BY <2>1, <2>3, <2>4, NextLaidOut
  <2> QED
    BY <2>1, <2>2, <2>5
<1>4. \A i \in 0 .. N - 1 : i \in S
  <2>1. N - 1 \in Nat
    OBVIOUS
  <2> HIDE DEF S
  <2> QED
    BY <1>2, <1>3, <2>1, Induction
<1>5. N - 1 \in 0 .. N - 1 /\ (N - 1) + 1 = N
  OBVIOUS
<1> QED
  BY <1>1, <1>4, <1>5
=============================================================================
