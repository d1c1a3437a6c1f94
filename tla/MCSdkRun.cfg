CONSTANT
  Workflows <- MCWorkflows
  MaxTokens = 1
SPECIFICATION SdkSpec
INVARIANTS
  SdkTypeOK
  ErrorsAreReported
  NoArtifactLost
  DecisionsReachTheirGate
  HandleTellsTheTruth
  ResultMatchesState
  EventsTellTheRun
PROPERTIES
  DagSpec
  RecordsAreFinal
  RunsSettle
\* A run ends, crashes, or stays paused: the engine has nothing left to do.
CHECK_DEADLOCK FALSE
