CONSTANTS
  Runs = {r1, r2}
  Hooks = {r2}
  Reviewers = {v1, v2}
  Sockets = {s1}
  MaxConcurrent = 1
  MaxHistory = 1
SPECIFICATION Spec
PROPERTY SocketsAreClosed
CHECK_DEADLOCK FALSE
