SPECIFICATION Spec
CONSTANTS
  w1 = w1
  w2 = w2
  w3 = w3
  w4 = w4
  Writers = {w1, w2, w3, w4}
  Header = Header
  Size <- LineSizes
  MaxBytes = 7
  TailBytes = 3
  None = None
INVARIANTS LinesAreWhole LatestAreKept LogIsBounded
PROPERTIES EveryWriterLeaves KeepsPromise
CHECK_DEADLOCK FALSE
