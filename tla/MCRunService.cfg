CONSTANTS
  Runs = {r1, r2}
  Hooks = {r2}
  Reviewers = {v1, v2}
  Sockets = {s1}
  MaxConcurrent = 1
  MaxHistory = 1
SPECIFICATION Spec
INVARIANTS
  TypeOK
  OneDecisionPerRun
  PendingRunsCanBeDecided
PROPERTIES
  WebhookRecovers
  HistoryKeepsTheLatest
\* The clients have sent everything they may send.
CHECK_DEADLOCK FALSE
