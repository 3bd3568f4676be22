SPECIFICATION Spec
CONSTANTS
  s1 = s1  s2 = s2  s3 = s3  t1 = t1  t2 = t2  q1 = q1
  alpha = alpha  beta = beta  p1 = p1  p2 = p2
  AnyPort = AnyPort  None = None
  Starts = {s1, s2}
  Stops = {}
  Queries = {}
  Names = {alpha}
  Ports = {p1, p2}
  NameOf <- OneName
  PortOf <- Ephemeral
  Concurrent = TRUE
  Slow = FALSE
  Stubborn = FALSE
  Signals = {}
INVARIANT OneServingDaemon
CHECK_DEADLOCK FALSE
