---------------------------- MODULE KeyColSearch ----------------------------
(***************************************************************************)
(* key_col_bin_search() of Query.cc: the lookup of a request parameter    *)
(* name in the configured key-column array of a resource (config::dir     *)
(* key_columns), which configuration keeps sorted by name.                *)
(*                                                                         *)
(* KeyColBinSearch is the search as an operator; Query.tla uses it in the  *)
(* handling of each query-string argument.  KeyColSearchLoop.tla runs the  *)
(* C loop one iteration per step and compares it with this operator and   *)
(* with a linear reference search.                                         *)
(***************************************************************************)
EXTENDS Integers, Sequences, FiniteSets

CONSTANTS
  NameOrder    \* every name a request may use, in strcmp() order

ASSUME NameOrder \in Seq(STRING) /\ Len(NameOrder) > 0

Names == {NameOrder[i] : i \in DOMAIN NameOrder}

\* strcmp(a, b) on the name alphabet: its sign is all the code uses.
StrCmp(a, b) ==
  LET pos(x) == CHOOSE i \in DOMAIN NameOrder : NameOrder[i] = x
  IN  pos(a) - pos(b)

(***************************************************************************)
(* Query.cc key_col_bin_search: Kernighan's binary search over positions  *)
(* low..high of the 0-based array kc of names.  Returns the position of   *)
(* name, or -1.                                                            *)
(***************************************************************************)
RECURSIVE BinSearch(_, _, _, _)
BinSearch(name, kc, low, high) ==
  IF low > high THEN -1
  ELSE LET mid == (low + high) \div 2
           cmp == StrCmp(name, kc[mid])
       IN  IF cmp < 0 THEN BinSearch(name, kc, low, mid - 1)
           ELSE IF cmp > 0 THEN BinSearch(name, kc, mid + 1, high)
           ELSE mid

KeyColBinSearch(name, kc) == BinSearch(name, kc, 0, Cardinality(DOMAIN kc) - 1)

\* Reference: the position holding name, if any.
LinearSearch(name, kc) ==
  IF \E i \in DOMAIN kc : kc[i] = name
  THEN CHOOSE i \in DOMAIN kc : kc[i] = name
  ELSE -1

\* The configured key-column name arrays: every subset of the alphabet,
\* sorted by strcmp() and indexed from 0 like the apache_array.
SortedKeyArrays ==
  LET sorted(S) == [i \in 0..Cardinality(S) - 1 |->
                      CHOOSE x \in S :
                        Cardinality({y \in S : StrCmp(y, x) < 0}) = i]
  IN  {sorted(S) : S \in SUBSET Names}

=============================================================================
