CONSTANT
  Workflows <- MCFewWorkflows
  MaxTokens = 1
SPECIFICATION SdkSpec
INVARIANT RejectStopsTheRun
CHECK_DEADLOCK FALSE
