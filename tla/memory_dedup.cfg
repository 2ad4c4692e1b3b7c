SPECIFICATION ThreadedSpec
CONSTANTS
  k1 = k1
  v1 = v1
  v2 = v2
  Keys = {k1}
  Values = {v1, v2}
  NoValue = NoValue
  NoRow = NoRow
  JobIds = {1, 2}
  JobTypes = {t1}
  Inputs <- MCInputs
  ConfigRows <- MCRows
  DefaultMaxAttempts = 1
  Threads = {h1, h2}
SYMMETRY MCSymmetry
INVARIANTS DedupHolds
CHECK_DEADLOCK FALSE
