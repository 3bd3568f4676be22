SPECIFICATION Spec
CONSTANTS
  Launches = {l1, l2, l3}
  Ids = {1, 2}
  None = None
INVARIANTS
  CountsAreExact
  NewestDecides
  EndedIsRecorded
PROPERTY
  KeepsPromise
CHECK_DEADLOCK FALSE
