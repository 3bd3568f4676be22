SPECIFICATION FairSpec
CONSTANTS
  x = x
  y = y
  Conns = {c1, c2, c3}
  Ids = {x, y}
  Routes <- SimilarRoutes
  Paths <- DeepPath
  None = None
INVARIANTS RegistrationsAreDistinct DispatchIsUnique
PROPERTIES GraceIsGiven ServerStops CancelReachesAgents
CHECK_DEADLOCK FALSE
