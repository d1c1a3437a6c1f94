CONSTANTS
  c1 = c1
  c2 = c2
  Calls <- MCCalls
  Names = {"", "local", "cloud", "lost", "m", "strong", "fast"}
  Configs <- MCConfigs
  Requests <- MCRequests
  Window = 2
  MaxTime = 2
  MaxChunks = 2
SPECIFICATION Spec
\* Only invariants are checked: permuting the calls is sound.
SYMMETRY CallsAreAlike
INVARIANT SensitiveMessagesStayLocal
CHECK_DEADLOCK FALSE
