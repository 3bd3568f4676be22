SPECIFICATION Spec
CONSTANTS
  a1 = a1
  a2 = a2
  Agents = {a1, a2}
  MaxLines <- LinesOfServers
  MaxServers = 2
  Capacity = 1
  Text <- LineTexts
  Prefix <- PrefixBytes
  Warning <- WarningBytes
  Bytes = {"n", "r", "h", "t", "x", "p", "d"}
  Wants = {0, 1, 2}
  ChunkSize = 3
  MaxLogTail = 8
  Newline = "n"
  CarriageReturn = "r"
  Lead = "h"
  Rest = "t"
  None = None
INVARIANTS OverflowIsReported TailIsExact
PROPERTY QueueDrains
CHECK_DEADLOCK FALSE
