CONSTANTS
  MaxOps = 3
  Tasks = {t1, t2}
  Artifacts = {a1, a2}
  Workflows = {w1, w2}
  Keys = {k1}
  Reports = {r1, r2}
  MaxZips = 2
  MaxCrashes = 1
SYMMETRY Alike
CONSTRAINT OneOfThem
SPECIFICATION Spec
INVARIANTS
  AcknowledgedDataLasts
  LoneUpdatesAreKept
  RestoreIsOneSnapshot
  StoresAreSetUp
\* The writes are bounded.
CHECK_DEADLOCK FALSE
