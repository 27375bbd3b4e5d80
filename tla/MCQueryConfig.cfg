\* The same worker on resources whose default key, constants and
\* dictionary entries drive the plan: configuration errors and constants.
CONSTANTS
  NameOrder <- MCNameOrder
  PlanOrder <- MCPlanOrder
  Dirs <- MCConfigDirs
  ArgChoices <- MCArgChoices
  PathChoices <- MCPathChoices
  FormChoices <- MCFormChoices
  TxIds = {t1, t2}
  MaxReadOps = 1
  MaxChain = 2
  NULL = NULL
  NoTx = NoTx

SPECIFICATION Spec

INVARIANT TypeOK
INVARIANT PlanPrecedence
PROPERTY RequestTerminates
