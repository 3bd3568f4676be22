SPECIFICATION FairSpec
CONSTANTS
  s1 = s1  s2 = s2  s3 = s3  t1 = t1  t2 = t2  q1 = q1
  alpha = alpha  beta = beta  p1 = p1  p2 = p2
  AnyPort = AnyPort  None = None
  Starts = {s1, s2}
  Stops = {t1}
  Queries = {}
  Names = {alpha}
  Ports = {p1}
  NameOf <- OneName
  PortOf <- MixedPorts
  Concurrent = TRUE
  Slow = TRUE
  Stubborn = TRUE
  Signals = {s1}
INVARIANTS
  StaleOnlyAfterCrash
  FailedStartLeavesNothing
PROPERTIES
  EveryCommandReturns
  ShutdownFinishes
CHECK_DEADLOCK FALSE
