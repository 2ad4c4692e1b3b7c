SPECIFICATION HangingSpec
CONSTANTS
  t1 = t1
  t2 = t2
  k1 = k1
  v1 = v1
  v2 = v2
  w1 = w1
  w2 = w2
  d1 = d1
  d2 = d2
  Keys = {k1}
  Values = {v1, v2}
  NoValue = NoValue
  NoRow = NoRow
  NoWorker = NoWorker
  Partitions = {1}
  PartitionOf <- MCOnePartition
  JobIds <- MCJobs1
  JobTypes = {t1}
  Inputs <- MCNoInput
  ConfigRows <- MCRow1
  InitConfig <- MCConfig1
  DefaultMaxAttempts = 1
  Workers = {w1}
  MaxTopic = 2
  Dispatchers = {d1}
  BatchSize = 2
  Registered = {t1}
  Reapers = {r1}
  MaxFaults = 0
  MaxCap = 1
PROPERTIES EveryJobEnds
CHECK_DEADLOCK FALSE
