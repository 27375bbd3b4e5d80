\* A main request's early return leaves the chain's state to the next chain.
CONSTANTS
  NameOrder <- MCNameOrder
  PlanOrder <- MCPlanOrder
  Dirs <- MCDirs
  ArgChoices <- MCArgChoices
  PathChoices <- MCPathChoices
  FormChoices <- MCFormChoices
  TxIds = {t1, t2}
  MaxReadOps = 1
  MaxChain = 2
  NULL = NULL
  NoTx = NoTx

SPECIFICATION Spec

INVARIANT ChainIsolation
