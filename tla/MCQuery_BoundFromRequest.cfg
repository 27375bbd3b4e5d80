\* The key-part loop binds an index column the request did not supply.
CONSTANTS
  NameOrder <- MCNameOrder
  PlanOrder <- MCPlanOrder
  Dirs <- MCDirs
  ArgChoices <- MCArgChoices
  PathChoices <- MCPathChoices
  FormChoices <- MCFormChoices
  TxIds = {t1, t2}
  MaxReadOps = 1
  MaxChain = 2
  NULL = NULL
  NoTx = NoTx

SPECIFICATION Spec

INVARIANT BoundFromRequest
