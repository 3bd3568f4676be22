SPECIFICATION Spec
CONSTANTS
  x = x
  y = y
  z = z
  Agents = {x, y, z}
  Offers <- RegistryOffers
  Registries <- FirstRegistries
  Requests <- Batches
  Paths <- FirstPaths
  Limit = 2
  MaxOperations = 3
  MaxReleases = 1
  None = None
  Offline = Offline
INVARIANTS ReportIsFaithful FailedUninstallKeeps RunsWhatIsInstalled
  UninstallIsReal CompleteIsSufficient
PROPERTY EveryBatchEnds
CHECK_DEADLOCK FALSE
