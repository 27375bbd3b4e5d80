CONSTANTS
  NameOrder <- MCNameOrder
  Searching = Searching
SPECIFICATION Spec
INVARIANT TypeOK
INVARIANT SearchCorrect
PROPERTY ImplementsLookup
PROPERTY ImplementsBisection
CHECK_DEADLOCK FALSE
