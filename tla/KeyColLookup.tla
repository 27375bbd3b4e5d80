----------------------------- MODULE KeyColLookup -----------------------------
(***************************************************************************)
(* What key_col_bin_search() (Query.cc) promises its caller, with no loop: *)
(* given the sorted key-column names of a resource and a parameter name,  *)
(* it eventually returns, in one step, the position of the name or -1.    *)
(***************************************************************************)
EXTENDS KeyColSearch

CONSTANT Searching    \* model value: the call has not returned yet

VARIABLES kc, name, result

Init ==
  /\ kc \in SortedKeyArrays
  /\ name \in Names
  /\ result = Searching

Return ==
  /\ result = Searching
  /\ result' = LinearSearch(name, kc)
  /\ UNCHANGED <<kc, name>>

Spec == Init /\ [][Return]_<<kc, name, result>> /\ WF_<<kc, name, result>>(Return)

=============================================================================
