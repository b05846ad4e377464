SPECIFICATION PartsSpec
CONSTANTS
  k1 = k1  k2 = k2  k3 = k3  v1 = v1  v2 = v2
  None = None
  Keys = {k1, k2, k3}
  Values = {v1, v2}
  Limits <- SomeLimits
  Ttls <- SomeTtls
  MaxTime = 3
  MaxLookups = 1
  Timeout = 2
  RequestSize = 2
  MaxSize = 2
  BodySize = 2
  RequestTimeout = 2
  ConnectTimeout = 1
INVARIANTS
  WholeFirstLine
  CallWithinBudget
  CandidatesAreWhole
PROPERTIES
  GenerateReturns
  OldestGoesFirst
  KeepsFreshMap
CHECK_DEADLOCK FALSE
