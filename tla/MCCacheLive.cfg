\* Fair goroutines: the evictor keeps up with the writers.
SPECIFICATION FairSpec
CONSTANTS
  Blocks = {b1, b2, b3}
  Writers = {w1}
  Readers = {r1}
  MaxSize = 2
  High = 2
  Low = 1
  ListLimit = 1
  TTL = 1
  MaxClock = 2
  MaxPuts = 3
  MaxCrashes = 0
  NoBlock = NoBlock
PROPERTY KeepsUp
CHECK_DEADLOCK FALSE
