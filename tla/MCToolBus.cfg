CONSTANTS
  Configs <- MCConfigs
  Agents <- MCAgents
  Calls <- MCCalls
  Window = 2
  MaxTime = 3
SPECIFICATION Spec
INVARIANTS
  EffectsFitTheCall
  LimiterIsExact
  LoneCallsRunTheirCode
  StartedProcessesEnd
  HandleMeansContainer
  ClientsAreAccountedFor
PROPERTIES
  CallsAreAnswered
\* A run ends, or its sandbox cannot be built: nothing is left to do.
CHECK_DEADLOCK FALSE
