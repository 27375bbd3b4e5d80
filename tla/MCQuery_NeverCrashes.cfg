\* Query() answers every request it takes: it never crashes the worker.
CONSTANTS
  NameOrder <- MCNameOrder
  PlanOrder <- MCPlanOrder
  Dirs <- MCDirs
  ArgChoices <- MCArgChoices
  PathChoices <- MCPathChoices
  FormChoices <- MCFormChoices
  TxIds = {t1, t2}
  MaxReadOps = 1
  MaxChain = 2
  NULL = NULL
  NoTx = NoTx

SPECIFICATION Spec

INVARIANT NeverCrashes
