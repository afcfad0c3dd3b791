\* Two writers, two pinning readers, the evictor and one restart.
SPECIFICATION Spec
CONSTANTS
  Blocks = {b1, b2, b3}
  Writers = {w1, w2}
  Readers = {r1, r2}
  MaxSize = 1
  High = 1
  Low = 1
  ListLimit = 1
  TTL = 1
  MaxClock = 2
  MaxPuts = 3
  MaxCrashes = 1
  NoBlock = NoBlock
SYMMETRY Symmetry
INVARIANTS TypeOK RefsMatchHolders Bounded NoLostSignal
PROPERTY PinnedStays
CHECK_DEADLOCK FALSE
