---------------------------- MODULE KeyColBisection ----------------------------
(***************************************************************************)
(* Bisection, the idea key_col_bin_search() (Query.cc) implements, with   *)
(* no arithmetic: a window of candidate positions that any step may       *)
(* shrink, provided it drops no position holding the name; the search     *)
(* answers with a position in the window holding the name, or -1 once the *)
(* window is empty.  It sits between the loop and KeyColLookup.           *)
(***************************************************************************)
EXTENDS KeyColSearch

CONSTANT Searching    \* model value: no answer yet

VARIABLES kc, name, window, result

bvars == <<kc, name, window, result>>

Init ==
  /\ kc \in SortedKeyArrays
  /\ name \in Names
  /\ window = DOMAIN kc
  /\ result = Searching

\* Discard candidates, none of which holds the name.
Narrow ==
  /\ result = Searching
  /\ \E w \in SUBSET window :
       /\ w # window
       /\ \A i \in window \ w : kc[i] # name
       /\ window' = w
  /\ UNCHANGED <<kc, name, result>>

Found ==
  /\ result = Searching
  /\ \E i \in window : kc[i] = name /\ result' = i
  /\ UNCHANGED <<kc, name, window>>

Miss ==
  /\ result = Searching
  /\ window = {}
  /\ result' = -1
  /\ UNCHANGED <<kc, name, window>>

Next == Narrow \/ Found \/ Miss

Spec == Init /\ [][Next]_bvars /\ WF_bvars(Next)

=============================================================================
