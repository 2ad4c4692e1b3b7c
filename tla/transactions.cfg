SPECIFICATION Spec
CONSTANTS
  JobIds = {1, 2}
  JobTypes = {t1}
  Keys = {k}
  Values = {v1}
  NoValue = NoValue
  Inputs <- MCInputs
  ConfigRows <- MCConfigRows
  InitConfig <- MCInitConfig
  NoRow = NoRow
  DefaultMaxAttempts = 1
  Sessions = {s1, s2, s3}
  BatchSize = 1
  NoRowYet = NoRowYet
SYMMETRY MCSymmetry
INVARIANTS TypeOK NoDeadlock
PROPERTIES MethodsAreAtomic
