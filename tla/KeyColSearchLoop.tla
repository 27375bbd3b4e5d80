--------------------------- MODULE KeyColSearchLoop --------------------------
(***************************************************************************)
(* The while loop of key_col_bin_search() (Query.cc), one iteration per   *)
(* step, run over every sorted key-column array of a small name alphabet  *)
(* and every name, and compared with the recursive KeyColBinSearch that   *)
(* Query.tla uses and with a linear reference search.                     *)
(***************************************************************************)
EXTENDS KeyColSearch

CONSTANT Searching    \* model value: the loop has not returned yet

VARIABLES
  kc,       \* dir->key_columns names
  name,     \* the request parameter name
  low,      \* loop variables of key_col_bin_search
  high,
  result    \* Searching, or the value returned

vars == <<kc, name, low, high, result>>

TypeOK ==
  /\ kc \in SortedKeyArrays
  /\ name \in Names
  /\ low \in 0..Len(NameOrder)
  /\ high \in -1..Len(NameOrder) - 1
  /\ result \in {Searching} \cup (-1..Len(NameOrder) - 1)

Init ==
  /\ kc \in SortedKeyArrays
  /\ name \in Names
  /\ low = 0
  /\ high = Cardinality(DOMAIN kc) - 1
  /\ result = Searching

(***************************************************************************)
(* The loop's updates, each next to the slip a C programmer could make in *)
(* it: high = mid - 2 or mid, low = mid (the interval stops shrinking), and      *)
(* while(low < high) for the exit test.                                   *)
(***************************************************************************)
NextHighOffByOne(mid) == mid - 2
NextHighStay(mid) == mid
NextHigh(mid) == mid - 1
NextLowNoAdvance(mid) == mid
NextLow(mid) == mid + 1
ExhaustedStrict(l, h) == l >= h
Exhausted(l, h) == l > h

\* One iteration of while(low <= high).
Probe ==
  /\ result = Searching
  /\ low <= high
  /\ LET mid == (low + high) \div 2
         cmp == StrCmp(name, kc[mid])
     IN  \/ cmp < 0 /\ high' = NextHigh(mid) /\ UNCHANGED <<low, result>>
         \/ cmp > 0 /\ low' = NextLow(mid) /\ UNCHANGED <<high, result>>
         \/ cmp = 0 /\ result' = mid /\ UNCHANGED <<low, high>>
  /\ UNCHANGED <<kc, name>>

\* The loop exits without a match: return -1.
NotFound ==
  /\ result = Searching
  /\ Exhausted(low, high)
  /\ result' = -1
  /\ UNCHANGED <<kc, name, low, high>>

Next == Probe \/ NotFound

Spec == Init /\ [][Next]_vars /\ WF_vars(Next)

(***************************************************************************)
(* Properties.                                                             *)
(***************************************************************************)

\* The value key_col_bin_search returns is the position of the parameter
\* name in the key-column array, or -1 when no key column has that name;
\* the recursive operator used by the Query model returns the same value.
SearchCorrect ==
  result # Searching =>
    /\ result = LinearSearch(name, kc)
    /\ result = KeyColBinSearch(name, kc)

\* The loop implements the call's promise (KeyColLookup): the probes that
\* narrow low..high are invisible to the caller, the loop always returns,
\* and the value it returns is the one the promise names.
Lookup == INSTANCE KeyColLookup
ImplementsLookup == Lookup!Spec

\* Each iteration only drops candidates that cannot hold the name, always
\* drops one (or answers), and the loop answers -1 only when low..high is
\* empty: the loop refines KeyColBisection with window = low..high.
Bisection == INSTANCE KeyColBisection WITH window <- low..high
ImplementsBisection == Bisection!Spec

=============================================================================
