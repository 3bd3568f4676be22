SPECIFICATION ClientsSpec
CONSTANTS
  s1 = s1  s2 = s2  s3 = s3  t1 = t1  t2 = t2  q1 = q1
  alpha = alpha  beta = beta  p1 = p1  p2 = p2
  AnyPort = AnyPort  None = None
  Starts = {s1, s2, s3}
  Stops = {t1, t2}
  Queries = {q1}
  Names = {alpha, beta}
  Ports = {p1, p2}
  NameOf <- TwoNames
  PortOf <- MixedPorts
  Concurrent = FALSE
  Slow = FALSE
  Stubborn = FALSE
  Signals = {}
  r1 = r1  r2 = r2  u1 = u1  agent = agent
  Registers = {r1, r2}
  Unregisters = {u1}
  AgentOf <- OneAgent
  ServerOf <- OneServer
  Casts <- TwoCasts
SYMMETRY ClientSymmetry
INVARIANTS
  ExclusiveName
  ServingIsRecorded
  RequestHitsItsName
  RegistryMatchesReplies
PROPERTIES
  StopHitsOnlyItsName
  StatusIsTruthful
CHECK_DEADLOCK FALSE
