CONSTANTS
  Tasks <- MCTasks
  Documents <- MCDocuments
  Configs <- MCConfigs
  K = 1
  Unit = 60
  VectorScore <- MCVectorScore
  TermScore <- MCTermScore
SPECIFICATION Spec
INVARIANTS
  TypeOK
  StoresAgree
  DocumentsAreFindable
  BetterInBothIsNotBehind
\* Every task ends.
CHECK_DEADLOCK FALSE
