\* One worker serving chains of subrequests and main requests on the two
\* resources of MCQuery: the transaction, chain and plan properties.
CONSTANTS
  NameOrder <- MCNameOrder
  PlanOrder <- MCPlanOrder
  Dirs <- MCDirs
  ArgChoices <- MCArgChoices
  PathChoices <- MCPathChoices
  FormChoices <- MCFormChoices
  TxIds = {t1, t2}
  MaxReadOps = 1
  MaxChain = 2
  NULL = NULL
  NoTx = NoTx

SPECIFICATION Spec

INVARIANT TypeOK
INVARIANT TxHandleLive
INVARIANT NoTaintedCommit
INVARIANT ChainAbortIsFatal
INVARIANT PlanPrecedence
