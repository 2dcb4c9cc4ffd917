SPECIFICATION FairSpec
CONSTANTS
  r1 = r1  r2 = r2  i1 = i1  i2 = i2  c1 = c1  c2 = c2  v1 = v1  v2 = v2
  NoInstance = NoInstance
  Runs = {r1}
  NumSteps = 2
  MaxRetries = 1
  Instances = {i1}
  Consumers = {c1}
  Recoverers = {v1}
  HostOf <- OneServer
  RecoveryBatch = 2
  Budget <- Overlap
CHECK_DEADLOCK FALSE
INVARIANTS
  VerdictsEarned
  NoGapsInFeed
  StepOrder
  NoneStranded
PROPERTIES
  RunsSettle
