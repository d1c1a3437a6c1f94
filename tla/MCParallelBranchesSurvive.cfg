CONSTANT
  Workflows <- MCFewWorkflows
  MaxTokens = 1
SPECIFICATION SdkSpec
PROPERTY ParallelBranchesSurvive
CHECK_DEADLOCK FALSE
