SPECIFICATION Spec
CONSTANTS
  p1 = p1
  p2 = p2
  p3 = p3
  v1 = v1
  v2 = v2
  a1 = a1
  a2 = a2
  Procs = {p1, p2, p3}
  Versions = {v1, v2}
  Archives = {a1, a2}
  OldArchive = a1
  None = None
  Plans <- SafePlans
INVARIANTS TypeOK NoStagingLeaks EntriesAreWhole BinaryIsKept SweepReclaims
 
CHECK_DEADLOCK FALSE
